---------------------------- MODULE MCEvalResume ----------------------------
(* Instances of EvalResume for TLC. *)
EXTENDS EvalResume

CONSTANTS a, b, c

Shape(k, n, conv, marked) == [key |-> k, n |-> n, conv |-> conv, marked |-> marked]

\* Two samples of two questions, some of which quote "<image>", and a third with an id
\* of its own and no question, or with the id of the first and one question.
MarkedStreams ==
    {<<Shape(a, 2, s[1], s[2]), Shape(b, 2, s[1], s[3]), last>> :
       s \in {<<TRUE, {}, {}>>, <<TRUE, {2}, {}>>, <<TRUE, {}, {1}>>, <<FALSE, {2}, {}>>},
       last \in {Shape(c, 0, FALSE, {}), Shape(a, 1, FALSE, {})}}
=============================================================================
