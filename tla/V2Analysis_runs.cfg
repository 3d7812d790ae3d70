\* Runs that may be killed at any point, and one that follows.
CONSTANTS
    N = 2
    MaxQ = 2
    MaxViews = 2
    Datasets <- TwoCharts
    MaxSamples = 2
    Budget = 1
    ContinueOnError = TRUE
    Answers = {"plain"}
    Faults = {"generate", "payload"}
    MaxPasses = 2
    MaxRuns = 2
    Overwrites = {FALSE}
    Kills = {"between", "within"}
    Torn = Torn
    Junk = Junk
SPECIFICATION Spec
INVARIANTS
    RowsUnambiguous
    RowOnce
    PairOnce
    PairBacked
    Accounted
