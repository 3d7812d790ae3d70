----------------------------- MODULE MCEvalMain -----------------------------
(* An instance of EvalMain for TLC. *)
EXTENDS EvalMain

CONSTANTS a, b            \* sample ids
CONSTANTS chartqa, upper, pro  \* dataset names: "chartqa", "ChartQA", "ChartQAPro"
CONSTANTS f, g, h         \* output files

JobFiles == (<<chartqa, "test">> :> f) @@ (<<upper, "test">> :> f)
         @@ (<<chartqa, "val">> :> h) @@ (<<upper, "val">> :> h) @@ (<<pro, "test">> :> g)
FileSamples == (f :> {a, b}) @@ (g :> {a}) @@ (h :> {b})

Command(names, extra) == [names |-> names, split |-> "test", extra |-> extra]
CommandLines == {Command(<<upper, chartqa>>, <<<<pro, "test">>>>),
                 Command(<<pro, upper>>, <<<<upper, "val">>, <<pro, "test">>>>)}

\* What is found in the files f and g: one sample's record, a line cut short, a record
\* without its newline, or nothing.
NoFile == [lines |-> {}, tail |-> Whole]
Complete(id) == [lines |-> {[id |-> id, ok |-> FALSE]}, tail |-> Whole]
CutShort == [lines |-> {}, tail |-> [whole |-> FALSE, held |-> {}]]
Unended(id) == [lines |-> {}, tail |-> [whole |-> FALSE, held |-> {[id |-> id, ok |-> FALSE]}]]
Found(inF, inG) == (f :> inF) @@ (g :> inG) @@ (h :> NoFile)
OldFiles == {Found(Complete(a), CutShort), Found(CutShort, Complete(a)), Found(Unended(a), NoFile)}
=============================================================================
