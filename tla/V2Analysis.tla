----------------------------- MODULE V2Analysis -----------------------------
(***************************************************************************)
(* The analysis pass of run_scanflowpro_v2_evaluation.py over one dataset  *)
(* (run_v2_analysis_dataset), with the capture of one request              *)
(* (generate_with_scanflow_capture) and what the vLLM runtime does with it *)
(* (the request metadata queue and _maybe_save_scanflow_v2_analysis), over *)
(* several runs of the program that may be killed.                         *)
(*                                                                         *)
(* Abstractions.  A tensor file is its request_metadata, i.e. the question *)
(* it was captured for; raw lists the files of raw_capture by mtime.  The  *)
(* gates of one sample have the same shape (one image, one global view), so*)
(* every pair of them is compared.  Prompts and answers are reduced to the *)
(* text "<image>", as in EvalScheduler.  Views and questions count from 1. *)
(* Samples that share an id share their entry of the prediction file.      *)
(***************************************************************************)
EXTENDS Integers, Sequences, FiniteSets, SequencesExt

CONSTANTS
    N,                \* samples of the dataset
    MaxQ,             \* bound on the questions of a sample
    MaxViews,         \* bound on the views of an image (local ones and the global one)
    Datasets,         \* the datasets considered
    MaxSamples,       \* --analysis-max-samples (N or more: no cap)
    Budget,           \* num_visualizations
    ContinueOnError,  \* --continue-on-error
    Answers,          \* what the model may answer: {"plain"} or with "marker"
    Faults,           \* subset of FaultKinds
    MaxPasses,        \* bound on the encoder passes of one generate call
    MaxRuns,          \* bound on the runs of the program
    Overwrites,       \* the values --overwrite may have: a subset of BOOLEAN
    Kills,            \* how a run may be killed: a subset of {"between", "within"} writes
    Torn, Junk        \* a line cut off before its newline; an unparsable complete line

FaultKinds == {"predictions", "load", "generate", "payload", "append", "render"}
Questions == 1 .. MaxQ
Predictions == [Questions -> {"none", "plain", "marker"}]
\* A sample with its line of the prediction file (recorded: there is one).
Sample == [id : 1 .. N, n : 0 .. MaxQ, views : 1 .. MaxViews, conv : BOOLEAN,
           marked : SUBSET Questions, recorded : BOOLEAN, preds : Predictions]
\* A question of a sample, as the metadata of its request names it.
Ask == (1 .. N) \X Questions
\* The records of the three files; ended: the newline is there.
Row == [ask : Ask, view : 1 .. MaxViews, captured : Ask, ended : BOOLEAN]
Pair == [src : 1 .. N, left : Questions, right : Questions, ended : BOOLEAN]
Failure == [ask : Ask, ended : BOOLEAN]

ASSUME AnalysisAssumption ==
    /\ N \in Nat /\ MaxQ \in Nat /\ MaxViews \in Nat \ {0}
    /\ Datasets \subseteq [1 .. N -> Sample]
    /\ MaxSamples \in Nat /\ Budget \in Nat /\ MaxPasses \in Nat /\ MaxRuns \in Nat \ {0}
    /\ ContinueOnError \in BOOLEAN /\ Overwrites \subseteq BOOLEAN
    /\ Answers \subseteq {"plain", "marker"}
    /\ Faults \subseteq FaultKinds
    /\ Kills \subseteq {"between", "within"}
    /\ Torn # Junk /\ {Torn, Junk} \cap (Row \cup Pair \cup Failure) = {}

VARIABLES
    dataset,    \* the samples, fixed
    metrics,    \* the lines of v2_sample_metrics.jsonl
    pairs,      \* the lines of v2_same_image_question_pairs.jsonl
    errorLog,   \* the lines of v2_analysis_errors.jsonl
    raw,        \* the tensor files in raw_capture, oldest first
    retained,   \* the questions with a directory under visualizations
    run, overwrite,
    pc,         \* where control is (see Next)
    i, q,       \* the sample and the question
    existing,   \* existing_keys
    told,       \* conversation_predictions
    saving,     \* the three SCANFLOW_* variables that switch capturing on are set
    queue,      \* SCANFLOW_REQUEST_METADATA_QUEUE
    before,     \* how many files raw had before the capture
    passes,     \* encoder passes of the current generate call
    tensor,     \* tensor_path, as its index in raw (0: None)
    view,       \* the view whose row is written next
    cache,      \* question_gate_cache
    due,        \* the pairs of cache still to be written
    visualized

files == <<metrics, pairs, errorLog, raw, retained>>
capture == <<saving, queue, before, passes>>
loop == <<existing, told, tensor, view, cache, due, visualized>>
job == <<dataset, run, overwrite>>
vars == <<files, capture, loop, job, pc, i, q>>

-----------------------------------------------------------------------------
(* append_v2_metric. *)

IsLine(line) == line \notin {Torn, Junk}
Unended(f) ==
    f # <<>> /\ (f[Len(f)] = Torn \/ (IsLine(f[Len(f)]) /\ ~f[Len(f)].ended))
\* After a line without newline, whole or not, the next text is glued to it.
Glued(f, line, both) == IF Unended(f) THEN [f EXCEPT ![Len(f)] = both] ELSE Append(f, line)
Bare(line) == [line EXCEPT !.ended = FALSE]

\* A write that raises may have left nothing, a part of the line, or all of it but the
\* newline.
WriteOutcomes == IF "append" \in Faults THEN {"ok", "lost", "torn", "bare"} ELSE {"ok"}
AppendMetric(f, line, outcome) ==
    CASE outcome = "ok"   -> Glued(f, line, Junk)
      [] outcome = "lost" -> f
      [] outcome = "torn" -> Glued(f, Torn, Torn)
      [] outcome = "bare" -> Glued(f, Bare(line), Torn)

Lines(f) == {f[j] : j \in {l \in 1 .. Len(f) : IsLine(f[l])}}
Readable(f) == \A j \in 1 .. Len(f) : IsLine(f[j])
Rows == Lines(metrics)
\* The questions the error file names.
failed == {line.ask : line \in Lines(errorLog)}
\* analysis_key.
Key(ask) == <<dataset[ask[1]].id, ask[2]>>

-----------------------------------------------------------------------------
(* One run, up to the question loop. *)

\* --overwrite deletes the three files; otherwise the keys of the metrics are read
\* back, and json.loads raises at the first line that is not a record, as it does
\* in the prediction file (load_prediction_lookup).
\* (Start_NoKeys: existing_keys stays empty.)
DeleteOld ==
    IF overwrite THEN metrics' = <<>> /\ pairs' = <<>> /\ errorLog' = <<>>
                 ELSE UNCHANGED <<metrics, pairs, errorLog>>
StartFrame ==
    UNCHANGED <<raw, retained, capture, told, tensor, view, cache, due, visualized, job, i, q>>

Start_NoKeys ==
    /\ pc = "start"
    /\ DeleteOld
    /\ existing' = {}
    /\ pc' = "sample"
    /\ StartFrame

Start ==
    /\ pc = "start"
    /\ DeleteOld
    /\ \/ /\ Readable(metrics')
          /\ existing' = {Key(r.ask) : r \in Rows'}
          /\ pc' = "sample"
       \/ /\ ~Readable(metrics') \/ "predictions" \in Faults
          /\ pc' = "raised" /\ UNCHANGED existing
    /\ StartFrame

InScope == i <= N /\ i <= MaxSamples

Return ==
    /\ pc = "sample" /\ ~InScope
    /\ pc' = "done"
    /\ UNCHANGED <<files, capture, loop, job, i, q>>

\* A sample without a line in the prediction file is passed over.
SkipUnrecorded ==
    /\ pc = "sample" /\ InScope /\ ~dataset[i].recorded
    /\ i' = i + 1
    /\ UNCHANGED <<files, capture, loop, job, pc, q>>

\* load_sample_pil_image is called outside any try.
LoadFails ==
    /\ pc = "sample" /\ InScope /\ dataset[i].recorded /\ "load" \in Faults
    /\ pc' = "raised"
    /\ UNCHANGED <<files, capture, loop, job, i, q>>

OpenSample ==
    /\ pc = "sample" /\ InScope /\ dataset[i].recorded
    /\ told' = dataset[i].preds
    /\ cache' = <<>>
    /\ q' = 1
    /\ pc' = "question"
    /\ UNCHANGED <<files, capture, existing, tensor, view, due, visualized, job, i>>

-----------------------------------------------------------------------------
(* One question. *)

MoreQuestions == q <= dataset[i].n

SkipExisting ==
    /\ pc = "question" /\ MoreQuestions
    /\ Key(<<i, q>>) \in existing
    /\ q' = q + 1
    /\ UNCHANGED <<files, capture, loop, job, pc, i>>

\* build_request, with the conversation so far: "<image>" must occur once.
Buildable ==
    /\ q \notin dataset[i].marked
    /\ dataset[i].conv =>
         \A p \in 1 .. (q - 1) : p \notin dataset[i].marked /\ told[p] # "marker"

\* It is called before the try of the question.
BuildFails ==
    /\ pc = "question" /\ MoreQuestions
    /\ Key(<<i, q>>) \notin existing /\ ~Buildable
    /\ pc' = "raised"
    /\ UNCHANGED <<files, capture, loop, job, i, q>>

\* generate_with_scanflow_capture up to llm.generate.
BeginCapture ==
    /\ pc = "question" /\ MoreQuestions
    /\ Key(<<i, q>>) \notin existing /\ Buildable
    /\ before' = Len(raw)
    /\ saving' = TRUE
    /\ queue' = <<<<i, q>>>>
    /\ passes' = 0
    /\ pc' = "generate"
    /\ UNCHANGED <<files, loop, job, i, q>>

\* The runtime encodes the image: once, or again when the request is recomputed.
\* A pass saves its states under the metadata it pops, and saves none without.
EncoderPass ==
    /\ pc = "generate" /\ passes < MaxPasses
    /\ passes' = passes + 1
    /\ IF saving /\ queue # <<>>
       THEN raw' = Append(raw, Head(queue)) /\ queue' = Tail(queue)
       ELSE UNCHANGED <<raw, queue>>
    /\ UNCHANGED <<metrics, pairs, errorLog, retained, saving, before, loop, job, pc, i, q>>

\* The finally clause of the capture.
EndCapture == queue' = <<>> /\ saving' = FALSE /\ UNCHANGED <<before, passes>>

\* The newest file of "after - before", or None.
\* (NewTensor_Newest: the newest file of the directory.)
NewTensor_Newest == Len(raw)
NewTensor == IF Len(raw) > before THEN Len(raw) ELSE 0

\* The call returns after a pass, or (a fault) without one.
GenerateReturns ==
    /\ pc = "generate" /\ (passes > 0 \/ "generate" \in Faults)
    /\ EndCapture
    /\ \E answer \in Answers : told' = [told EXCEPT ![q] = answer]
    /\ tensor' = NewTensor
    /\ pc' = IF tensor' = 0 THEN "except" ELSE "payload"
    /\ UNCHANGED <<files, existing, view, cache, due, visualized, job, i, q>>

GenerateRaises ==
    /\ pc = "generate" /\ "generate" \in Faults
    /\ EndCapture
    /\ pc' = "except"
    /\ UNCHANGED <<files, loop, job, i, q>>

\* torch.load and extract_v2_views, which checks V' = V + lambda R among others.
ReadPayload ==
    /\ pc = "payload"
    /\ \/ pc' = "rows" /\ view' = 1
       \/ "payload" \in Faults /\ pc' = "except" /\ UNCHANGED view
    /\ UNCHANGED <<files, capture, existing, told, tensor, cache, due, visualized, job, i, q>>

\* One row per view; after the last the gate of the question is cached. Computing
\* the statistics of a view may raise, which writes nothing.
ViewRow == [ask |-> <<i, q>>, view |-> view, captured |-> raw[tensor], ended |-> TRUE]
RowOutcomes == WriteOutcomes \cup (IF "payload" \in Faults THEN {"lost"} ELSE {})
WriteRow ==
    /\ pc = "rows"
    /\ \E outcome \in RowOutcomes :
         /\ metrics' = AppendMetric(metrics, ViewRow, outcome)
         /\ IF outcome # "ok" THEN pc' = "except" /\ UNCHANGED <<view, cache>>
            ELSE IF view < dataset[i].views THEN view' = view + 1 /\ UNCHANGED <<cache, pc>>
            ELSE cache' = Append(cache, q) /\ pc' = "render" /\ UNCHANGED view
    /\ UNCHANGED <<pairs, errorLog, raw, retained, capture, existing, told, tensor, due,
                   visualized, job, i, q>>

\* render_v2_sample creates the directory and copies the tensors before it draws.
Render ==
    /\ pc = "render"
    /\ IF visualized < Budget
       THEN /\ retained' = retained \cup {<<i, q>>}
            /\ \/ visualized' = visualized + 1 /\ pc' = "close"
               \/ "render" \in Faults /\ pc' = "except" /\ UNCHANGED visualized
       ELSE pc' = "close" /\ UNCHANGED <<retained, visualized>>
    /\ UNCHANGED <<metrics, pairs, errorLog, raw, capture, existing, told, tensor, view, cache,
                   due, job, i, q>>

\* (CloseQuestion_KeepsTensor: no unlink.)
CloseQuestion_KeepsTensor ==
    /\ pc = "close"
    /\ q' = q + 1
    /\ pc' = "question"
    /\ UNCHANGED <<files, capture, loop, job, i>>

CloseQuestion ==
    /\ pc = "close"
    /\ raw' = RemoveAt(raw, tensor)
    /\ q' = q + 1
    /\ pc' = "question"
    /\ UNCHANGED <<metrics, pairs, errorLog, retained, capture, loop, job, i>>

\* The except clause of the question. The tensor file stays where it is.
\* (LogError_Silent: no line is appended to the error file.)
LogError_Silent ==
    /\ pc = "except"
    /\ IF ContinueOnError THEN q' = q + 1 /\ pc' = "question"
                          ELSE pc' = "raised" /\ UNCHANGED q
    /\ UNCHANGED <<files, capture, loop, job, i>>

ErrorRecord == [ask |-> <<i, q>>, ended |-> TRUE]
LogError ==
    /\ pc = "except"
    /\ \E outcome \in WriteOutcomes :
         /\ errorLog' = AppendMetric(errorLog, ErrorRecord, outcome)
         /\ IF outcome = "ok" /\ ContinueOnError
            THEN q' = q + 1 /\ pc' = "question"
            ELSE pc' = "raised" /\ UNCHANGED q
    /\ UNCHANGED <<metrics, pairs, raw, retained, capture, loop, job, i>>

-----------------------------------------------------------------------------
(* The pairs of a sample, after its last question. *)

\* (EndQuestions_AllPairs: every two questions of the sample.)
EndQuestions_AllPairs ==
    /\ pc = "question" /\ ~MoreQuestions
    /\ due' = {p \in Pair : p.src = i /\ p.left < p.right /\ p.right <= dataset[i].n /\ p.ended}
    /\ pc' = "pairs"
    /\ UNCHANGED <<files, capture, existing, told, tensor, view, cache, visualized, job, i, q>>

EndQuestions ==
    /\ pc = "question" /\ ~MoreQuestions
    /\ due' = {[src |-> i, left |-> cache[l], right |-> cache[r], ended |-> TRUE] :
                 l \in 1 .. Len(cache), r \in 1 .. Len(cache)}
              \cap {p \in Pair : p.left < p.right}
    /\ pc' = "pairs"
    /\ UNCHANGED <<files, capture, existing, told, tensor, view, cache, visualized, job, i, q>>

\* The order of the two loops is left open. A failing write leaves the function.
WritePair(p) ==
    /\ pc = "pairs" /\ p \in due
    /\ \E outcome \in WriteOutcomes :
         /\ pairs' = AppendMetric(pairs, p, outcome)
         /\ IF outcome = "ok" THEN due' = due \ {p} /\ UNCHANGED pc
                              ELSE pc' = "raised" /\ UNCHANGED due
    /\ UNCHANGED <<metrics, errorLog, raw, retained, capture, existing, told, tensor, view,
                   cache, visualized, job, i, q>>

EndSample ==
    /\ pc = "pairs" /\ due = {}
    /\ i' = i + 1
    /\ pc' = "sample"
    /\ UNCHANGED <<files, capture, loop, job, q>>

-----------------------------------------------------------------------------
(* Runs of the program. *)

Over == pc \in {"done", "raised", "killed"}

\* The process is killed: its memory is gone, a write may be cut off.
KillWithin ==
    \E cut \in {"torn", "bare"} :
      \/ /\ pc = "rows" /\ metrics' = AppendMetric(metrics, ViewRow, cut)
         /\ UNCHANGED <<pairs, errorLog>>
      \/ /\ pc = "except" /\ errorLog' = AppendMetric(errorLog, ErrorRecord, cut)
         /\ UNCHANGED <<metrics, pairs>>
      \/ /\ pc = "pairs" /\ \E p \in due : pairs' = AppendMetric(pairs, p, cut)
         /\ UNCHANGED <<metrics, errorLog>>
Kill ==
    /\ ~Over
    /\ pc' = "killed"
    /\ queue' = <<>> /\ saving' = FALSE
    /\ \/ "between" \in Kills /\ UNCHANGED <<metrics, pairs, errorLog>>
       \/ "within" \in Kills /\ KillWithin
    /\ UNCHANGED <<raw, retained, before, passes, loop, job, i, q>>

Restart ==
    /\ Over /\ run < MaxRuns
    /\ run' = run + 1
    /\ overwrite' \in Overwrites
    /\ pc' = "start"
    /\ i' = 1 /\ q' = 1
    /\ existing' = {} /\ cache' = <<>> /\ due' = {}
    /\ told' = [p \in Questions |-> "none"]
    /\ before' = 0 /\ passes' = 0 /\ tensor' = 0 /\ view' = 1 /\ visualized' = 0
    /\ UNCHANGED <<dataset, files, saving, queue>>

Init ==
    /\ dataset \in Datasets
    /\ metrics = <<>> /\ pairs = <<>> /\ errorLog = <<>> /\ raw = <<>> /\ retained = {}
    /\ run = 1 /\ overwrite \in Overwrites
    /\ pc = "start" /\ i = 1 /\ q = 1
    /\ existing = {} /\ cache = <<>> /\ due = {}
    /\ told = [p \in Questions |-> "none"]
    /\ saving = FALSE /\ queue = <<>>
    /\ before = 0 /\ passes = 0 /\ tensor = 0 /\ view = 1 /\ visualized = 0

SampleStep == Start \/ Return \/ SkipUnrecorded \/ LoadFails \/ OpenSample
CaptureStep == BeginCapture \/ EncoderPass \/ GenerateReturns \/ GenerateRaises
QuestionStep == \/ SkipExisting \/ BuildFails \/ CaptureStep \/ ReadPayload \/ WriteRow
                \/ Render \/ CloseQuestion \/ LogError
PairStep == EndQuestions \/ EndSample \/ \E p \in due : WritePair(p)
Work == SampleStep \/ QuestionStep \/ PairStep

Finished == Over /\ UNCHANGED vars
Next == Work \/ Kill \/ Restart \/ Finished

Spec == Init /\ [][Next]_vars

-----------------------------------------------------------------------------
(* Properties. *)

\* Every variable keeps its type; past the capture there is a tensor file to read.
TypeOK ==
    /\ dataset \in Datasets
    /\ metrics \in Seq(Row \cup {Torn, Junk}) /\ pairs \in Seq(Pair \cup {Torn, Junk})
    /\ errorLog \in Seq(Failure \cup {Torn, Junk})
    /\ retained \subseteq Ask /\ existing \subseteq Ask
    /\ raw \in Seq(Ask) /\ queue \in Seq(Ask)
    /\ run \in 1 .. MaxRuns /\ overwrite \in BOOLEAN /\ saving \in BOOLEAN
    /\ pc \in {"start", "sample", "question", "generate", "payload", "rows", "render",
               "close", "except", "pairs", "done", "raised", "killed"}
    /\ i \in 1 .. (N + 1) /\ q \in 1 .. (MaxQ + 1)
    /\ told \in Predictions
    /\ before \in Nat /\ passes \in 0 .. MaxPasses
    /\ tensor \in Nat
    /\ pc \in {"payload", "rows", "render", "close"} => tensor \in 1 .. Len(raw)
    /\ view \in 1 .. MaxViews
    /\ cache \in Seq(Questions) /\ due \subseteq Pair
    /\ visualized \in 0 .. Budget

\* The docstring of build_runner_from_args: tensor metadata maps unambiguously to
\* one question. A metrics row never comes from the tensors of another question,
\* whatever files earlier failures left behind.
RowsUnambiguous == \A r \in Rows : r.captured = r.ask

\* Over all runs, killed ones included, no view of a question gets two rows.
RowOnce ==
    \A j, l \in 1 .. Len(metrics) :
      (j # l /\ IsLine(metrics[j]) /\ IsLine(metrics[l])) =>
        <<metrics[j].ask, metrics[j].view>> # <<metrics[l].ask, metrics[l].view>>

\* Over all runs no two questions are compared twice, although pairs are appended
\* without a look at the file.
SamePair(a, b) == a.src = b.src /\ a.left = b.left /\ a.right = b.right
PairOnce ==
    \A j, l \in 1 .. Len(pairs) :
      (j # l /\ IsLine(pairs[j]) /\ IsLine(pairs[l])) => ~SamePair(pairs[j], pairs[l])

\* While the metrics can be parsed (write_v2_aggregate_outputs reads every line), no
\* pair is in its file without all the rows of both questions.  Only a row glued to a
\* line that had no newline goes missing, and that line does not parse.
PairBacked ==
    Readable(metrics) =>
      \A j \in 1 .. Len(pairs) :
        IsLine(pairs[j]) =>
          \A p \in {pairs[j].left, pairs[j].right}, v \in 1 .. dataset[pairs[j].src].views :
            \E r \in Rows : r.ask = <<pairs[j].src, p>> /\ r.view = v

\* When a run returns and the metrics and the error file can be parsed, the key of every
\* question it was to analyse is in one of them (by this run or by an earlier one).
Accounted ==
    (pc = "done" /\ Readable(metrics) /\ Readable(errorLog)) =>
      \A k \in 1 .. N, p \in Questions :
        (k <= MaxSamples /\ dataset[k].recorded /\ p <= dataset[k].n) =>
          Key(<<k, p>>) \in {Key(ask) : ask \in failed \cup {r.ask : r \in Rows}}

\* A run that is not killed leaves a tensor file in raw_capture only for a question it
\* names in the error file (a later --overwrite deletes that file but not the tensors).
LeftoversExplained ==
    (run = 1 /\ pc \in {"question", "pairs", "done"}) =>
      \A j \in 1 .. Len(raw) : raw[j] \in failed

\* The module's docstring: statistics per question and view. A question with a row
\* has, when the run is over, a row for every view.
RowsComplete ==
    pc = "done" =>
      \A r \in Rows, v \in 1 .. MaxViews :
        v <= dataset[r.ask[1]].views => \E s \in Rows : s.ask = r.ask /\ s.view = v
=============================================================================
