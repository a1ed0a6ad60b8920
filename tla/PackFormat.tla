----------------------------- MODULE PackFormat -----------------------------
(***************************************************************************)
(* The layout of a dmi-pack (storage/capture/pack.py): a header, payloads   *)
(* that start at multiples of the alignment, a footer with one entry per    *)
(* record, and a trailer.  Only sizes and ranges are kept of the bytes.     *)
(***************************************************************************)
EXTENDS Integers, Sequences

CONSTANTS
    Header, Unit, Trailer,     \* _HEADER.size, _ALIGNMENT, _TRAILER.size
    FooterBase, RecordJson,    \* bytes of the empty footer, of one encoded record
    MaxFooter                  \* MAX_FOOTER_BYTES

ASSUME FormatAssumption ==
    /\ {Header, Unit, Trailer, FooterBase, RecordJson, MaxFooter} \subseteq Nat \ {0}

(* _aligned_length.                                                         *)
Aligned(n) == ((n + Unit - 1) \div Unit) * Unit

(* A pack as its footer lists it: the records in order, with their ranges.  *)
End(pack) == IF pack = <<>> THEN Header ELSE pack[Len(pack)].offset + pack[Len(pack)].length
CaptureIds(pack) == {pack[i].id : i \in DOMAIN pack}
FooterBytes(pack) == FooterBase + Len(pack) * RecordJson + (Len(pack) - 1)

(* PackWriter.append: what it adds, and the checks it makes before it adds  *)
(* anything.                                                                *)
Added(pack, id, length) ==
    Append(pack, [id |-> id, offset |-> Aligned(End(pack)), length |-> length])
Projected(pack) == Aligned(End(pack)) + FooterBytes(pack) + Trailer
Refusal(pack, id, length, maxRecords, maxBytes) ==
    LET new == Added(pack, id, length) IN
    IF Len(pack) >= maxRecords THEN "capacity"
    ELSE IF id \in CaptureIds(pack) THEN "duplicate"
    ELSE IF FooterBytes(new) > MaxFooter \/ Projected(new) > maxBytes THEN "capacity"
    ELSE "none"

(* PackWriter.seal: the object it writes.                                   *)
FooterOffset(pack) == Aligned(End(pack))
ObjectBytes(pack) == FooterOffset(pack) + FooterBytes(pack) + Trailer

(* PackIndex.from_store: the two ranges read, and _parse_records.           *)
FooterReadBytes(pack) == Trailer + FooterBytes(pack)
MaxFooterReadBytes(pack) ==
    LET body == ObjectBytes(pack) - Trailer IN
    Trailer + (IF body < MaxFooter THEN body ELSE MaxFooter)
ParseRecord(record, footerOffset) ==
    record.offset >= Header /\ record.length >= 0 /\ record.offset + record.length <= footerOffset
ParseRecords(pack) ==
    \A i \in DOMAIN pack :
       /\ ParseRecord(pack[i], FooterOffset(pack))
       /\ i > 1 => pack[i].offset >= pack[i-1].offset + pack[i-1].length
       /\ \A j \in DOMAIN pack : pack[j].id = pack[i].id => i = j
=============================================================================
