SPECIFICATION ToolSpec
CONSTANTS
    Polls = 2
    Several = 2
    Quantities = {0, 1, 2}
    Findings = {{1}, {1, 2}}
    MaxCalls = 3
    Stores = {s1, s2}
    Records = {1, 2, 3}
    PerKey = 2
    Values = {0, 1}
    Threshold = 0
    PageSize = 1
    SkuLimit = 1
    MaxChanges = 1
    Contents <- MCContents
    Strays = {1, 2}
    None = None
INVARIANTS
    ToolTypes
    ReplyTellsAll
    PreviewIsApplied
    RepeatRunsOnce
    PagesComplete
    ClaimsTrue
PROPERTY
    EveryReportEnds
CHECK_DEADLOCK FALSE
