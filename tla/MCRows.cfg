SPECIFICATION Spec
CONSTANTS
    Unbounded = 9
    LongWindows = 1
    Requests = {"A", "B"}
    NumHooks = 2
    Selections <- MCSelections
    WindowSets <- MCWindowSets
    Ranges <- MCRanges
    Scenarios <- MCScenarios
INVARIANT RowsAreDemanded
INVARIANT PlannersAgree
INVARIANT FeaturesAreTheAttachments
CHECK_DEADLOCK FALSE
