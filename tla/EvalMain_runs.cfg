\* Two command lines, every option and every fault.
CONSTANTS
    a = a
    b = b
    chartqa = chartqa
    upper = upper
    pro = pro
    f = f
    g = g
    h = h
    Ids = {a, b}
    Files = {f, g, h}
    FileOf <- JobFiles
    Samples <- FileSamples
    Requests <- CommandLines
    MaxJobs = 4
    NumVisualizations = 1
    Stricts = {FALSE, TRUE}
    Overwrites = {FALSE, TRUE}
    Analyses = {FALSE, TRUE}
    BadSampling = {FALSE, TRUE}
    Caps = {1, 3}
    Earlier <- OldFiles
    Faults = {"dataset", "check", "engine", "generate", "render", "analysis", "aggregate"}
SPECIFICATION Spec
INVARIANTS
    OneEngine
    EnginesReleased
    ExitCodeHonest
    EveryJobRuns
    AskedOnce
    DrawnWithinBudget
