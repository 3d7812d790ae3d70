\* Two runs, killed between and within writes, with and without --overwrite; texts with
\* "<image>", repeated ids and every environment fault.
CONSTANTS
    a = a
    b = b
    c = c
    N = 3
    Keys = {a, b, c}
    MaxQ = 2
    Streams <- MarkedStreams
    BatchSize = 2
    MaxSamples = 2
    Stricts = {FALSE, TRUE}
    Answers = {"plain", "marker"}
    Faults = {"load", "generate", "append"}
    NoState = NoState
    MaxRuns = 2
    Overwrites = {FALSE, TRUE}
    Kills = {"between", "within"}
SPECIFICATION ResumeSpec
INVARIANTS
    TypeOK
    DuplicateOnlyAfterLoadError
    NothingLost
    CapAdvances
PROPERTIES
    RecordsPersist
    Termination
