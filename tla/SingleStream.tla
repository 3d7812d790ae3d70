---------------------------- MODULE SingleStream ----------------------------
(***************************************************************************)
(* run_deepseek_ocr2_eval.py over several runs of the program: main's loop *)
(* over the datasets, evaluate_dataset one sample and one question at a    *)
(* time, the temporary image files, and the prediction files, which        *)
(* accuracy_calc.py scores.                                                *)
(*                                                                         *)
(* An image that is missing fails on every attempt; the model ("infer"),   *)
(* the temporary file ("disk") and the prediction file ("append") fail     *)
(* whenever their kind is in Faults.  A write that stops half way leaves   *)
(* its line cut, or complete but for the newline ("bare").                 *)
(***************************************************************************)
EXTENDS ChartBench, FiniteSets

CONSTANTS
    Inputs,    \* the lists of annotation files considered, one file per dataset,
               \* of ChartBench or of ChartQA
    ArgSets,   \* the command lines considered: see Args
    Faults,    \* a subset of {"infer", "disk", "append"}
    Kills,     \* how a run may be killed: a subset of {"between", "within"} writes
    MaxRuns    \* bound on the runs of the program

\* cap is --max-samples, or 0 where it is not given.
Args == [strict : BOOLEAN, overwrite : BOOLEAN, cap : Nat]

ASSUME SingleStreamAssumption ==
    /\ Inputs \subseteq Seq(Seq(AnnotationLine)) \ {<<>>} /\ ArgSets \subseteq Args
    /\ Faults \subseteq {"infer", "disk", "append"}
    /\ Kills \subseteq {"between", "within"} /\ MaxRuns \in Nat \ {0}
ASSUME InputsAssumption ==
    \A lists \in Inputs : \A k \in 1 .. Len(lists) : Bench(lists[k]) \/ Parquet(lists[k])

VARIABLES
    input,      \* the annotation files, of datasets named once each
    files,      \* the prediction files, sequences of lines
    temps,      \* the number of temporary image files there are
    partials,   \* and of those of them whose write failed
    args,       \* the command line of this run
    d, pos,     \* the dataset and the line of its annotation file
    pc,         \* where control is (see Next)
    completed,  \* completed_ids
    processed,
    preds,      \* the predictions of the current sample so far
    temp,       \* temp_file is not None
    exc,        \* the exception on its way out of evaluate_dataset, or "none"
    code,       \* overall_exit_code
    runs, kills, \* the runs so far, and those of them that were killed
    stopped     \* the runs a sample's failure ended since the last --overwrite

disk == <<files, temps, partials>>
place == <<d, pos, pc>>
sample == <<preds, temp, exc>>
history == <<runs, kills, stopped>>
vars == <<input, disk, args, place, completed, processed, sample, code, history>>

-----------------------------------------------------------------------------
(* The prediction file. *)

\* ended: by a newline; ok: it parses; holds: the samples (by their lines in the
\* annotation file) whose whole records are in it.
NewLine(outcome, i, p) ==
    CASE outcome = "ok"   -> [ended |-> TRUE,  ok |-> TRUE,  holds |-> {i}, preds |-> p]
      [] outcome = "bare" -> [ended |-> FALSE, ok |-> TRUE,  holds |-> {i}, preds |-> p]
      [] outcome = "cut"  -> [ended |-> FALSE, ok |-> FALSE, holds |-> {},  preds |-> <<>>]

Unended(f) == Len(f) > 0 /\ ~f[Len(f)].ended

\* jsonl_append goes on where the file ends: after a line without its newline both
\* records are on one line, which no longer parses.
JsonlAppend(f, outcome, i, p) ==
    IF outcome = "none" THEN f
    ELSE IF Unended(f)
    THEN [f EXCEPT ![Len(f)] =
            [ended |-> outcome = "ok", ok |-> FALSE, preds |-> <<>>,
             holds |-> @.holds \cup NewLine(outcome, i, p).holds]]
    ELSE Append(f, NewLine(outcome, i, p))

Partial == {"none", "cut", "bare"}
WriteOutcomes == IF "append" \in Faults THEN {"ok"} \cup Partial ELSE {"ok"}

Readable(f) == {j \in 1 .. Len(f) : f[j].ok}
Recorded(f) == UNION {f[j].holds : j \in Readable(f)}

\* load_existing_sample_ids: what does not parse is passed over.
LoadExistingIds(lines, f) == {SampleId(lines, i) : i \in Recorded(f)}

-----------------------------------------------------------------------------
(* accuracy_calc.py: evaluate_chartbench of one prediction file.  For ChartQA only *)
(* the total means something: evaluate_chartqa counts the answers of the same      *)
(* records, one in each.                                                           *)

\* load_jsonl raises on a line that does not parse.
\* (Scorable_Lenient: it passes such lines over.)
Scorable_Lenient(f) == TRUE
Scorable(f) == \A j \in 1 .. Len(f) : f[j].ok

LineSample(f, j) == CHOOSE i \in f[j].holds : TRUE
Report(lines, f) ==
    LET credited == {j \in Readable(f) : Credited(Answers(lines[LineSample(f, j)]), f[j].preds)}
    IN [total   |-> Cardinality(Readable(f)),
        correct |-> Cardinality(credited),
        credited |-> {LineSample(f, j) : j \in credited}]

-----------------------------------------------------------------------------
(* The for loop over the reader. *)

Lines == input[d]
Here == Lines[pos]
HereId == SampleId(Lines, pos)
AtLine == pc = "next" /\ pos <= Len(Lines)
AtSample == AtLine /\ Here.kind = "sample"

\* build_output_path, --overwrite, load_existing_sample_ids.
OpenDataset ==
    /\ pc = "open"
    /\ files' = IF args.overwrite THEN [files EXCEPT ![d] = <<>>] ELSE files
    /\ completed' = LoadExistingIds(Lines, files'[d])
    /\ processed' = 0 /\ pos' = 1
    /\ pc' = "next"
    /\ UNCHANGED <<input, temps, partials, args, d, sample, code, history>>

SkipBlank ==
    /\ AtLine /\ Here.kind = "blank"
    /\ pos' = pos + 1
    /\ UNCHANGED <<input, disk, args, d, pc, completed, processed, sample, code, history>>

\* json.loads raises in the reader, in the middle of the loop.
ReaderRaises ==
    /\ AtLine /\ Here.kind = "broken"
    /\ exc' = "reader" /\ pc' = "leave"
    /\ UNCHANGED <<input, disk, args, d, pos, completed, processed, preds, temp, code, history>>

SkipRecorded ==
    /\ AtSample /\ HereId \in completed
    /\ pos' = pos + 1
    /\ UNCHANGED <<input, disk, args, d, pc, completed, processed, sample, code, history>>

New == AtSample /\ HereId \notin completed
Capped == args.cap > 0 /\ processed >= args.cap

\* The loop ends: with the dataset, or at the cap.
EndLoop ==
    /\ pc = "next"
    /\ pos > Len(Lines) \/ (New /\ Capped)
    /\ pc' = "leave"
    /\ UNCHANGED <<input, disk, args, d, pos, completed, processed, sample, code, history>>

-----------------------------------------------------------------------------
(* One sample. *)

\* materialize_sample_image.
Materialize ==
    /\ New /\ ~Capped /\ Here.image # "none"
    /\ temp' = (Here.image = "bytes")
    /\ temps' = IF temp' THEN temps + 1 ELSE temps
    /\ pc' = "infer"
    /\ UNCHANGED <<input, files, partials, args, d, pos, completed, processed, preds, exc, code, history>>

MaterializeFails ==
    /\ New /\ ~Capped /\ Here.image = "none"
    /\ pc' = "except"
    /\ UNCHANGED <<input, disk, args, d, pos, completed, processed, sample, code, history>>

\* write_bytes raises: temp_file is still None, so nothing removes what was written.
TempWriteFails ==
    /\ New /\ ~Capped /\ Here.image = "bytes" /\ "disk" \in Faults
    /\ temps' = temps + 1 /\ partials' = partials + 1
    /\ pc' = "except"
    /\ UNCHANGED <<input, files, args, d, pos, completed, processed, sample, code, history>>

Unanswered == Len(preds) < Len(Questions(Here))

Answer ==
    /\ pc = "infer" /\ Unanswered
    /\ \E text \in Texts : preds' = Append(preds, text)
    /\ UNCHANGED <<input, disk, args, place, completed, processed, temp, exc, code, history>>

InferFails ==
    /\ pc = "infer" /\ Unanswered /\ "infer" \in Faults
    /\ pc' = "except"
    /\ UNCHANGED <<input, disk, args, d, pos, completed, processed, sample, code, history>>

AllAnswered ==
    /\ pc = "infer" /\ ~Unanswered
    /\ pc' = "finally"
    /\ UNCHANGED <<input, disk, args, d, pos, completed, processed, sample, code, history>>

\* The except clause: the record has no predictions; without --continue-on-error it
\* is written here and the exception goes on (as that of the write, if that fails).
\* (Except_Unrecorded: the record is not written before the raise.)
Except_Unrecorded ==
    /\ pc = "except"
    /\ preds' = <<>>
    /\ exc' = IF args.strict THEN "sample" ELSE exc
    /\ pc' = "finally"
    /\ UNCHANGED <<input, disk, args, d, pos, completed, processed, temp, code, history>>
Except ==
    /\ pc = "except"
    /\ preds' = <<>>
    /\ IF args.strict
       THEN \E outcome \in WriteOutcomes :
              /\ files' = [files EXCEPT ![d] = JsonlAppend(@, outcome, pos, <<>>)]
              /\ exc' = IF outcome = "ok" THEN "sample" ELSE "write"
       ELSE UNCHANGED <<files, exc>>
    /\ pc' = "finally"
    /\ UNCHANGED <<input, temps, partials, args, d, pos, completed, processed, temp, code, history>>

\* The finally clause.
\* (Finally_OnSuccess: the file is removed only after a success.)
Finally_OnSuccess ==
    /\ pc = "finally"
    /\ temps' = IF temp /\ exc = "none" THEN temps - 1 ELSE temps
    /\ temp' = FALSE
    /\ pc' = IF exc = "none" THEN "write" ELSE "leave"
    /\ UNCHANGED <<input, files, partials, args, d, pos, completed, processed, preds, exc, code, history>>
Finally ==
    /\ pc = "finally"
    /\ temps' = IF temp THEN temps - 1 ELSE temps
    /\ temp' = FALSE
    /\ pc' = IF exc = "none" THEN "write" ELSE "leave"
    /\ UNCHANGED <<input, files, partials, args, d, pos, completed, processed, preds, exc, code, history>>

\* (Write_Ignores: a write that raises is passed over.)
Write_Ignores ==
    /\ pc = "write"
    /\ \E outcome \in WriteOutcomes : files' = [files EXCEPT ![d] = JsonlAppend(@, outcome, pos, preds)]
    /\ completed' = completed \cup {HereId}
    /\ processed' = processed + 1
    /\ pos' = pos + 1 /\ pc' = "next"
    /\ preds' = <<>>
    /\ UNCHANGED <<input, temps, partials, args, d, temp, exc, code, history>>
Write ==
    /\ pc = "write"
    /\ \E outcome \in WriteOutcomes :
         /\ files' = [files EXCEPT ![d] = JsonlAppend(@, outcome, pos, preds)]
         /\ IF outcome = "ok"
            THEN /\ completed' = completed \cup {HereId}
                 /\ processed' = processed + 1
                 /\ pos' = pos + 1 /\ pc' = "next" /\ exc' = exc
            ELSE exc' = "write" /\ pc' = "leave" /\ UNCHANGED <<completed, processed, pos>>
    /\ preds' = <<>>
    /\ UNCHANGED <<input, temps, partials, args, d, temp, code, history>>

-----------------------------------------------------------------------------
(* main. *)

\* Back in main's loop: an exception sets the exit code, and ends the loop without
\* --continue-on-error.
Leave ==
    /\ pc = "leave"
    /\ code' = IF exc = "none" THEN code ELSE 1
    /\ IF d = Len(input) \/ (exc # "none" /\ args.strict)
       THEN pc' = "exit" /\ d' = d
       ELSE pc' = "open" /\ d' = d + 1
    /\ stopped' = IF exc = "sample" THEN stopped + 1 ELSE stopped
    /\ exc' = "none"
    /\ UNCHANGED <<input, disk, args, pos, completed, processed, preds, temp, runs, kills>>

\* The process is killed, also in the middle of a write.
WriteDue == pc = "write" \/ (pc = "except" /\ args.strict)
Over == pc \in {"exit", "killed"}
Kill ==
    /\ ~Over
    /\ \/ "between" \in Kills /\ files' = files
       \/ /\ "within" \in Kills /\ WriteDue
          /\ \E outcome \in {"ok", "cut", "bare"} :
               files' = [files EXCEPT ![d] =
                           JsonlAppend(@, outcome, pos, IF pc = "write" THEN preds ELSE <<>>)]
    /\ pc' = "killed" /\ kills' = kills + 1
    /\ preds' = <<>> /\ temp' = FALSE /\ exc' = "none"
    /\ UNCHANGED <<input, temps, partials, args, d, pos, completed, processed, code, runs, stopped>>

Start(a) ==
    /\ Over /\ runs < MaxRuns
    /\ runs' = runs + 1
    /\ args' = a
    /\ d' = 1 /\ pc' = "open" /\ code' = 0
    /\ stopped' = IF a.overwrite THEN 0 ELSE stopped
    /\ UNCHANGED <<input, disk, pos, completed, processed, sample, kills>>

-----------------------------------------------------------------------------

Init ==
    /\ input \in Inputs /\ args \in ArgSets
    /\ files = [k \in 1 .. Len(input) |-> <<>>]
    /\ temps = 0 /\ partials = 0
    /\ d = 1 /\ pos = 1 /\ pc = "open"
    /\ completed = {} /\ processed = 0
    /\ preds = <<>> /\ temp = FALSE /\ exc = "none" /\ code = 0
    /\ runs = 1 /\ kills = 0 /\ stopped = 0

\* After the last run nothing more happens.
Finished == Over /\ runs = MaxRuns /\ UNCHANGED vars

LoopStep == OpenDataset \/ SkipBlank \/ ReaderRaises \/ SkipRecorded \/ EndLoop
SampleStep == \/ Materialize \/ MaterializeFails \/ TempWriteFails \/ Answer
              \/ InferFails \/ AllAnswered \/ Except \/ Finally \/ Write
Work == LoopStep \/ SampleStep \/ Leave

Next == Work \/ Kill \/ (\E a \in ArgSets : Start(a)) \/ Finished

\* The program keeps running, and its model returns or raises.
Spec == Init /\ [][Next]_vars /\ WF_vars(Work)

-----------------------------------------------------------------------------
(* Properties. *)

\* The ids of an annotation file are unambiguous.
DistinctIds(lines) ==
    \A i, j \in SampleLines(lines) : SampleId(lines, i) = SampleId(lines, j) => i = j
Complete == pc = "exit" /\ code = 0 /\ args.cap = 0

\* After a run that returns 0 and had no cap, whatever happened to earlier runs, the
\* scorer either refuses a prediction file or counts every sample of the dataset in it
\* exactly once: a truncated benchmark is never reported as a whole one.
ReportComplete ==
    Complete =>
      \A k \in 1 .. Len(input) :
        (DistinctIds(input[k]) /\ Scorable(files[k])) =>
          /\ Report(input[k], files[k]).total = Cardinality(SampleLines(input[k]))
          /\ Recorded(files[k]) = SampleLines(input[k])

\* And what it refuses it refuses for cause: an id without a record is one whose
\* record was glued to the line of an interrupted write.
LossExplained ==
    Complete =>
      \A k \in 1 .. Len(input) :
        SampleIds(input[k]) \ LoadExistingIds(input[k], files[k])
          \subseteq {SampleId(input[k], i) :
                     i \in UNION {files[k][j].holds : j \in (1 .. Len(files[k])) \ Readable(files[k])}}

\* A ChartBench sample is credited only for its own labels: unless its conversation has both
\* turns without a label and labelled turns without a question, or no label at all (then
\* one whose questions failed counts as correct), every turn is whole and each
\* prediction is the label of the turn it answers. A failed sample with labels is
\* never credited.
Misaligned(line) ==
    /\ \E t \in DOMAIN line.turns : line.turns[t].query /\ line.turns[t].label = NoLabel
    /\ \E t \in DOMAIN line.turns : ~line.turns[t].query /\ line.turns[t].label # NoLabel
Unlabelled(line) == \A t \in DOMAIN line.turns : line.turns[t].label = NoLabel
CreditEarned ==
    \A k \in {m \in 1 .. Len(input) : Bench(input[m])} : \A j \in Readable(files[k]) :
      LET i == LineSample(files[k], j)
          line == input[k][i]
      IN (i \in Report(input[k], files[k]).credited /\ ~Misaligned(line) /\ ~Unlabelled(line)) =>
           /\ \A t \in DOMAIN line.turns : line.turns[t].query <=> line.turns[t].label # NoLabel
           /\ \A q \in DOMAIN Questions(line) :
                files[k][j].preds[q] = line.turns[Questions(line)[q]].label

\* Without --continue-on-error a failing sample is recorded before it ends the run, so
\* reruns get past it: each run that a sample ended has left one more id behind,
\* until an interrupted write makes a line unreadable.
StrictRunsAdvance ==
    (\A k \in 1 .. Len(input) : Scorable(files[k])) =>
      LET recorded == UNION {{<<k, id>> : id \in LoadExistingIds(input[k], files[k])} : k \in 1 .. Len(input)}
      IN stopped <= Cardinality(recorded)

\* Temporary image files that were written whole are left behind by killed runs only,
\* at most one by each.
TempFilesRemoved == temps - partials <= kills + IF temp THEN 1 ELSE 0
=============================================================================
