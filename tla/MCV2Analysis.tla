---------------------------- MODULE MCV2Analysis ----------------------------
(* Instances of V2Analysis for TLC. *)
EXTENDS V2Analysis

Chart(id, n, views, conv, marked, recorded, answer) ==
    [id |-> id, n |-> n, views |-> views, conv |-> conv, marked |-> marked,
     recorded |-> recorded, preds |-> [p \in Questions |-> answer]]
WithFirst(charts) ==
    {[k \in 1 .. 2 |-> IF k = 1 THEN Chart(1, 2, 2, FALSE, {}, TRUE, "plain") ELSE second] :
       second \in charts}

\* Two images: one with two questions and two views, one that is like it, is a
\* conversation, has one question and the id of the first, or is not in the prediction
\* file.
TwoCharts ==
    WithFirst({Chart(2, 2, 2, FALSE, {}, TRUE, "plain"), Chart(2, 2, 1, TRUE, {}, TRUE, "none"),
               Chart(1, 1, 2, FALSE, {}, TRUE, "plain"), Chart(2, 1, 1, FALSE, {}, FALSE, "none")})

\* The second image has one question, which may quote "<image>", and one view, or is
\* not in the prediction file.
SmallCharts ==
    WithFirst({Chart(2, 1, 1, FALSE, {}, FALSE, "plain"), Chart(2, 1, 1, FALSE, {}, TRUE, "plain"),
               Chart(2, 1, 1, FALSE, {1}, TRUE, "plain")})
=============================================================================
