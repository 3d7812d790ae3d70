SPECIFICATION Spec
CONSTANTS
    Rows <- MCRows
    BatchSizes = {1, 2}
    TryFetch = 10
    Stricts = {FALSE, TRUE}
    TrainCrops = {FALSE, TRUE}
    Weights = {FALSE, TRUE}
    Images <- MCImages
    RuntimeCrops = {FALSE, TRUE}
    InferenceSteps = 32
    None = None
INVARIANTS
    TrainedAsReserved
    RegularRowsTrain
    SupervisedByOwn
    PlaceholdersFilled
