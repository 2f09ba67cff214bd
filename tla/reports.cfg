SPECIFICATION Spec
CONSTANTS
    None = None
    Torn = Torn
    Runs <- MCRuns
    Registered <- MCRegistered
    Retired <- MCRetired
    Keep = 1
    Stuck <- MCStuck
    SameSecond = FALSE
    MaxJobs = 2
INVARIANTS
    LastReportSurvives
    OneRunPerReport
    ListedFilesExist
    RebuildReproduces
CHECK_DEADLOCK FALSE
