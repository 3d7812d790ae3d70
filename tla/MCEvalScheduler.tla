-------------------------- MODULE MCEvalScheduler --------------------------
(* Instances of EvalScheduler for TLC. *)
EXTENDS EvalScheduler

CONSTANTS a, b, c

Shape(k, n, conv, marked) == [key |-> k, n |-> n, conv |-> conv, marked |-> marked]

\* Every stream of three samples with ids of their own and up to two questions,
\* none with "<image>" in its text.
PlainBodies == {<<0, FALSE>>, <<1, FALSE>>, <<2, FALSE>>, <<2, TRUE>>}
PlainStreams ==
    {[i \in 1 .. 3 |-> Shape(<<a, b, c>>[i], body[i][1], body[i][2], {})] :
       body \in [1 .. 3 -> PlainBodies]}
=============================================================================
