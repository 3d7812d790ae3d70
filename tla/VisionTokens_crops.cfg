SPECIFICATION Spec
CONSTANTS
    Rows <- MCRows
    BatchSizes = {1}
    TryFetch = 2
    Stricts = {FALSE}
    TrainCrops = {TRUE}
    Weights = {FALSE, TRUE}
    Images <- MCImages
    RuntimeCrops = {FALSE}
    InferenceSteps = 32
    None = None
INVARIANTS
    ServedAsTrained
