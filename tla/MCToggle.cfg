SPECIFICATION Spec
CONSTANTS
    Engines = {"e1", "e2"}
    Graphs = {g1, g2}
    Hooks = {"h1", "h2"}
    Scenarios <- ToggleScenarios
SYMMETRY Symmetry
INVARIANTS
    LanesAgree
    PatchIsOwned
    UploadedBeforeLaunch
CHECK_DEADLOCK FALSE
