CONSTANTS
    MaxRuns = 3
    MaxViz = 2
    Outputs <- OwnAndTaken
SPECIFICATION Spec
CHECK_DEADLOCK FALSE
INVARIANTS
    PagesShowWholeReports
    MarkdownTrailsJson
    LaterPagesAreNewer
    LinksLeadToPages
