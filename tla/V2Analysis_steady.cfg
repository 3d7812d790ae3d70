\* Every fault, with and without --overwrite; the runs end by themselves.
CONSTANTS
    N = 2
    MaxQ = 2
    MaxViews = 2
    Datasets <- SmallCharts
    MaxSamples = 2
    Budget = 1
    ContinueOnError = TRUE
    Answers = {"plain"}
    Faults = {"predictions", "load", "generate", "payload", "append", "render"}
    MaxPasses = 1
    MaxRuns = 2
    Overwrites = {FALSE, TRUE}
    Kills = {}
    Torn = Torn
    Junk = Junk
SPECIFICATION Spec
INVARIANTS
    LeftoversExplained
    Accounted
