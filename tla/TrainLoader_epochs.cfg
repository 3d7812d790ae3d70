SPECIFICATION Spec
CONSTANTS
    Questions <- MCQuestions
    PerQuestion = {"ChartBench"}
    TrainOnly = {"ChartBench", "ChartQA"}
    Requests <- MCRequests
    Splits = {"train", "val"}
    Modes = {"round_robin", "concat"}
    NumWorkers = {0, 2, 3}
    BatchSizes = {1, 2}
    DropLasts = {FALSE, TRUE}
    LoadTargets = {FALSE, TRUE}
    Targets <- MCTargets
    NoTargets = "none"
    Unreadables <- MCUnreadables
    Prefetch = 2
INVARIANTS
    DeliveredOnce
    EpochComplete
    FaultsSurface
    RoundRobinBalance
PROPERTIES
    Termination
