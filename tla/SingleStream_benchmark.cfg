\* Two runs over two datasets, killed between and within writes, with every fault.
CONSTANTS
    Texts = {"", "yes"}
    Ids = {2}
    NoId = NoId
    NoLabel = NoLabel
    Inputs <- OneOrTwoFiles
    ArgSets <- AllArgs
    Faults = {"infer", "disk", "append"}
    Kills = {"between", "within"}
    MaxRuns = 3
SPECIFICATION Spec
INVARIANTS
    ReportComplete
    LossExplained
    CreditEarned
    StrictRunsAdvance
    TempFilesRemoved
