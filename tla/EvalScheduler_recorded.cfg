\* The model may answer "<image>"; nothing else goes wrong.
CONSTANTS
    a = a
    b = b
    c = c
    N = 3
    Keys = {a, b, c}
    MaxQ = 2
    Streams <- PlainStreams
    BatchSize = 2
    MaxSamples = 3
    Stricts = {FALSE}
    Answers = {"plain", "marker"}
    Faults = {}
    NoState = NoState
SPECIFICATION Spec
INVARIANTS
    FailuresRecorded
