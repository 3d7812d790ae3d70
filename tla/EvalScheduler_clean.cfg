\* Unreadable images and failing generate calls; no "<image>" in any text.
CONSTANTS
    a = a
    b = b
    c = c
    N = 3
    Keys = {a, b, c}
    MaxQ = 2
    Streams <- PlainStreams
    BatchSize = 2
    MaxSamples = 3
    Stricts = {FALSE}
    Answers = {"plain"}
    Faults = {"load", "generate"}
    NoState = NoState
SPECIFICATION Spec
INVARIANTS
    OneRecord
    RecordComplete
    Accounting
    PromptsCurrent
    QueueBound
PROPERTIES
    OutcomesFinal
    ImplementsLedger
