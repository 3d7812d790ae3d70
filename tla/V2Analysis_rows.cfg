\* A run is killed, the next one resumes.
CONSTANTS
    N = 2
    MaxQ = 2
    MaxViews = 2
    Datasets <- TwoCharts
    MaxSamples = 2
    Budget = 1
    ContinueOnError = TRUE
    Answers = {"plain"}
    Faults = {}
    MaxPasses = 1
    MaxRuns = 2
    Overwrites = {FALSE}
    Kills = {"between"}
    Torn = Torn
    Junk = Junk
SPECIFICATION Spec
INVARIANTS
    RowsComplete
