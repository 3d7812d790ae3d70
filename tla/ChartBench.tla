----------------------------- MODULE ChartBench -----------------------------
(***************************************************************************)
(* The two ends of a ChartBench measurement, as operators: what            *)
(* iter_chartbench (dataloader.py) reads from a line of the annotation     *)
(* file, and what evaluate_chartbench (accuracy_calc.py) credits in a      *)
(* record of the prediction file.  The rows of ChartQA's parquet files are *)
(* written as lines too: they differ in where the image is.                *)
(*                                                                         *)
(* Texts are reduced to what exact_match tells apart after normalisation;  *)
(* "" is the empty text.                                                   *)
(***************************************************************************)
EXTENDS Integers, Sequences

CONSTANTS
    Texts,      \* the texts of labels and answers
    Ids,        \* the values an "id" field may have
    NoId,       \* the field is missing
    NoLabel     \* the turn has no "label" field

\* A turn of a conversation. query: its "query" is there and not empty.
Turn == [query : BOOLEAN, label : Texts \cup {NoLabel}]
\* image: a path that exists, the bytes of a file, or neither of them.
AnnotationLine == [kind : {"blank", "broken", "sample"}, id : Ids \cup {NoId},
                   turns : Seq(Turn), image : {"path", "bytes", "none"}]

ASSUME ChartBenchAssumption ==
    /\ NoId \notin Ids /\ NoLabel \notin Texts
    /\ Ids \subseteq Nat

-----------------------------------------------------------------------------
(* Reading. *)

\* ChartBench names its images by paths. A row of ChartQA holds the bytes of its
\* image, one question and its answer; its number is its id.
Bench(lines) == \A i \in 1 .. Len(lines) : lines[i].image # "bytes"
Parquet(lines) ==
    \A i \in 1 .. Len(lines) :
        /\ lines[i].kind = "sample" /\ lines[i].id = NoId /\ lines[i].image # "path"
        /\ Len(lines[i].turns) = 1 /\ lines[i].turns[1].query /\ lines[i].turns[1].label # NoLabel

\* raw.get("id", fallback_idx): the number of the line, blank lines included, from 0.
SampleId(lines, i) == IF lines[i].id = NoId THEN i - 1 ELSE lines[i].id

SampleLines(lines) == {i \in 1 .. Len(lines) : lines[i].kind = "sample"}
SampleIds(lines) == {SampleId(lines, i) : i \in SampleLines(lines)}

\* The numbers up to n that are in S, in order (the provers know no definition of SelectSeq).
InOrder(S, n) ==
    LET upto[t \in 0 .. n] ==
          IF t = 0 THEN <<>> ELSE IF t \in S THEN Append(upto[t - 1], t) ELSE upto[t - 1]
    IN upto[n]

\* The turns that become questions, and those that become answers: two separate
\* filters, so the i-th question and the i-th answer may be of different turns.
Queries(line) == {t \in 1 .. Len(line.turns) : line.turns[t].query}
Labels(line) == {t \in 1 .. Len(line.turns) : line.turns[t].label # NoLabel}
Questions(line) == InOrder(Queries(line), Len(line.turns))
Labelled(line) == InOrder(Labels(line), Len(line.turns))
Answers(line) == [i \in 1 .. Len(Labelled(line)) |-> line.turns[Labelled(line)[i]].label]

-----------------------------------------------------------------------------
(* Scoring. *)

\* predictions[idx] if idx < len(predictions) else ""
PredictionAt(preds, i) == IF i <= Len(preds) THEN preds[i] ELSE ""

\* sample_correct, and as many predictions as answers.
\* (Credited_ByPosition: no test of the two lengths.)
Credited_ByPosition(answers, preds) ==
    \A i \in 1 .. Len(answers) : PredictionAt(preds, i) = answers[i]
Credited(answers, preds) ==
    /\ Len(answers) = Len(preds)
    /\ \A i \in 1 .. Len(answers) : PredictionAt(preds, i) = answers[i]
=============================================================================
