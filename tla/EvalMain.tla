------------------------------ MODULE EvalMain ------------------------------
(***************************************************************************)
(* main of run_scanflowpro_v2_evaluation.py: the evaluation jobs, the      *)
(* analysis pass after them, and the two runners whose vLLM engines share  *)
(* one GPU (DeepSeekOCR2VLLMRunner.load and shutdown).                     *)
(*                                                                         *)
(* Abstractions.  evaluate_dataset and run_v2_analysis_dataset are modules *)
(* of their own (EvalScheduler, V2Analysis); here a job asks one sample per*)
(* call of the runner, in any order, and its samples have distinct ids; an *)
(* append of this run is never cut short (the process is not killed), but  *)
(* the files it finds may be.  A job's dataset is the one its output file  *)
(* stands for: build_output_path and the dataset loaders drop the same     *)
(* differences in spelling.                                                *)
(***************************************************************************)
EXTENDS Integers, Sequences, FiniteSets, SequencesExt

CONSTANTS
    Ids,               \* sample ids
    Files,             \* output files
    FileOf,            \* the output file of a job, i.e. of <<dataset name, split>>
    Samples,           \* the sample ids of the dataset a file stands for
    Requests,          \* the command lines: [names, split, extra]
    MaxJobs,           \* bound on the jobs of a command line
    NumVisualizations, \* --num-visualizations
    Stricts,           \* the values of --no-continue-on-error considered
    Overwrites,        \* the values of --overwrite considered
    Analyses,          \* the values of --v2-analysis considered
    BadSampling,       \* whether the sampling options may be refused: a subset of BOOLEAN
    Caps,              \* the values of --max-samples considered: one that is at least the
                       \* size of every dataset stands for its absence
    Earlier,           \* the output files that may be found: file -> FileState
    Faults             \* subset of FaultKinds

FaultKinds == {"dataset", "check", "engine", "generate", "render", "analysis", "aggregate"}
Runners == {"eval", "analysis"}
Record == [id : Ids, ok : BOOLEAN]

\* The lines of a file: the whole ones, whether the last one has its newline, and the
\* record that can be read from it when it has not (none when it is cut further).
LastLine == {t \in [whole : BOOLEAN, held : SUBSET Record] :
           \/ t.held = {}
           \/ ~t.whole /\ \E r \in Record : t.held = {r}}
FileState == [lines : SUBSET Record, tail : LastLine]

ASSUME MainAssumption ==
    /\ MaxJobs \in Nat /\ NumVisualizations \in Nat
    /\ Samples \in [Files -> SUBSET Ids] /\ \A f \in Files : IsFiniteSet(Samples[f])
    /\ \A r \in Requests : Len(r.names) + Len(r.extra) <= MaxJobs
    /\ \A job \in DOMAIN FileOf : FileOf[job] \in Files
    /\ \A r \in Requests : /\ r.names \in Seq(ToSet(r.names))
                           /\ \A n \in ToSet(r.names) : <<n, r.split>> \in DOMAIN FileOf
                           /\ r.extra \in Seq(DOMAIN FileOf)
    /\ Earlier \subseteq [Files -> FileState] /\ Caps \subseteq Nat
    /\ Stricts \subseteq BOOLEAN /\ Overwrites \subseteq BOOLEAN
    /\ Analyses \subseteq BOOLEAN /\ BadSampling \subseteq BOOLEAN
    /\ Faults \subseteq FaultKinds

VARIABLES
    request,    \* the command line, with the options below fixed for the run
    strict, overwrite, analysis, badSampling, cap,
    earlier,    \* the output files as the run found them
    files,      \* output file -> bag of the records of its whole lines: Record -> Nat
    tail,       \* output file -> how its last line ends
    pc,         \* where control is (see Next)
    job,        \* index of the job (of the evaluation, then of the analysis)
    todo,       \* the samples the current job is still to ask, or to capture
    llm,        \* the runners whose llm is set
    ready,      \* the runners whose sampling_params is set
    live,       \* engines in GPU memory
    exit,       \* overall_exit_code
    reported,   \* the jobs reported as "FAILED on ..."
    remaining,  \* remaining_visualizations
    visualized, \* of the current analysis
    retained,   \* the <<job, sample>> whose tensors are under visualizations/
    named       \* the <<job, sample>> this run wrote to an error file

options == <<request, strict, overwrite, analysis, badSampling, cap, earlier>>
disk == <<files, tail>>
engines == <<llm, ready, live>>
drawing == <<remaining, visualized, retained, named>>
vars == <<options, disk, pc, job, todo, engines, exit, reported, drawing>>

-----------------------------------------------------------------------------

\* build_eval_jobs: the named datasets with the default split, then the extra ones,
\* without repetitions.
\* (EvalJobs_NamesOnly: the extra ones are forgotten.)
Once(jobs, new) == IF Contains(jobs, new) THEN jobs ELSE Append(jobs, new)
EvalJobs_NamesOnly ==
    FoldLeft(Once, <<>>, [k \in 1 .. Len(request.names) |-> <<request.names[k], request.split>>])
EvalJobs ==
    LET listed == [k \in 1 .. Len(request.names) |-> <<request.names[k], request.split>>]
    IN FoldLeft(Once, <<>>, listed \o request.extra)

MoreJobs == job <= Len(EvalJobs)
File == FileOf[EvalJobs[job]]
Empty == [r \in Record |-> 0]
Whole == [whole |-> TRUE, held |-> {}]
Recorded(f) == {id \in Ids : \E r \in Record : r.id = id /\ (files[f][r] > 0 \/ r \in tail[f].held)}
Runner == IF pc \in {"ask", "askBind"} THEN "eval" ELSE "analysis"

-----------------------------------------------------------------------------
(* The evaluation jobs. *)

\* evaluate_dataset up to its loop: the file is deleted or read back. --max-samples admits
\* so many of the samples that have no record, whichever come first in the dataset.
Delete == /\ files' = IF overwrite THEN [files EXCEPT ![File] = Empty] ELSE files
          /\ tail' = IF overwrite THEN [tail EXCEPT ![File] = Whole] ELSE tail
Admit(unrecorded) ==
    /\ todo' \in SUBSET unrecorded
    /\ todo' = unrecorded \/ Cardinality(todo') = cap
    /\ Cardinality(todo') <= cap

\* (StartJob_Forgets: nothing is read back.)
StartJob_Forgets ==
    /\ pc = "job" /\ MoreJobs
    /\ Delete
    /\ Admit(Samples[File])
    /\ pc' = "ask"
    /\ UNCHANGED <<options, job, engines, exit, reported, drawing>>
StartJob ==
    /\ pc = "job" /\ MoreJobs
    /\ Delete
    /\ Admit(Samples[File] \ (IF overwrite THEN {} ELSE Recorded(File)))
    /\ pc' = "ask"
    /\ UNCHANGED <<options, job, engines, exit, reported, drawing>>

EndJob ==
    /\ pc = "ask" /\ todo = {}
    /\ job' = job + 1
    /\ pc' = "job"
    /\ UNCHANGED <<options, disk, todo, engines, exit, reported, drawing>>

\* The except clause around evaluate_dataset.
\* (Fail_Unreported: the exit code stays.)
Fail_Unreported ==
    /\ reported' = reported \cup {job}
    /\ todo' = {}
    /\ exit' = exit
    /\ IF strict THEN pc' = "finally" /\ UNCHANGED job
                 ELSE pc' = "job" /\ job' = job + 1
Fail ==
    /\ reported' = reported \cup {job}
    /\ todo' = {}
    /\ exit' = 1
    /\ IF strict THEN pc' = "finally" /\ UNCHANGED job
                 ELSE pc' = "job" /\ job' = job + 1

\* The dataset cannot be read (further), or another exception leaves evaluate_dataset.
DatasetFails ==
    /\ pc = "ask" /\ "dataset" \in Faults
    /\ Fail
    /\ UNCHANGED <<options, disk, engines, drawing>>

\* The append of a record; onto a line without its newline it makes one that cannot be read.
Write(id, ok) ==
    IF tail[File].whole
    THEN /\ files' = [files EXCEPT ![File][[id |-> id, ok |-> ok]] = @ + 1]
         /\ UNCHANGED tail
    ELSE /\ tail' = [tail EXCEPT ![File] = Whole]
         /\ UNCHANGED files

\* A failed call of the runner: the sample is recorded with its error, or the job fails.
CallFails(id) ==
    IF strict THEN Fail /\ UNCHANGED disk
    ELSE /\ Write(id, FALSE)
         /\ todo' = todo \ {id}
         /\ pc' = "ask"
         /\ UNCHANGED <<job, exit, reported>>

Loaded(r) == r \in llm /\ r \in ready

Ask(id) ==
    /\ pc = "ask" /\ id \in todo /\ Loaded("eval")
    /\ \/ Write(id, TRUE) /\ todo' = todo \ {id} /\ UNCHANGED <<pc, job, exit, reported>>
       \/ "generate" \in Faults /\ CallFails(id)
    /\ UNCHANGED <<options, engines, drawing>>

\* load raises before there is a (new) engine.
AskUnloadable(id) ==
    /\ pc = "ask" /\ id \in todo /\ ~Loaded("eval")
    /\ Faults \cap {"check", "engine"} # {}
    /\ CallFails(id)
    /\ UNCHANGED <<options, engines, drawing>>

-----------------------------------------------------------------------------
(* DeepSeekOCR2VLLMRunner.load, called by every generate. *)

\* LLM(...) builds an engine next to one that llm may still hold.
Construct ==
    /\ pc \in {"ask", "capture"} /\ todo # {} /\ ~Loaded(Runner)
    /\ live' = live + 1
    /\ pc' = IF pc = "ask" THEN "askBind" ELSE "captureBind"
    /\ UNCHANGED <<options, disk, job, todo, llm, ready, exit, reported, drawing>>

\* The new engine takes the place of the old one, which goes; then the sampling
\* parameters are built, or refused.
Bind(r) ==
    /\ live' = IF r \in llm THEN live - 1 ELSE live
    /\ llm' = llm \cup {r}
    /\ ready' = IF badSampling THEN ready ELSE ready \cup {r}

AskBind ==
    /\ pc = "askBind"
    /\ Bind("eval")
    /\ IF badSampling THEN \E id \in todo : CallFails(id)
       ELSE pc' = "ask" /\ UNCHANGED <<disk, todo, job, exit, reported>>
    /\ UNCHANGED <<options, drawing>>

\* shutdown: nothing to do without an engine.
Shutdown(r) ==
    /\ live' = IF r \in llm THEN live - 1 ELSE live
    /\ llm' = llm \ {r}
    /\ ready' = ready \ {r}

-----------------------------------------------------------------------------
(* The analysis pass. *)

SkipAnalysis ==
    /\ pc = "job" /\ ~MoreJobs /\ ~analysis
    /\ pc' = "finally"
    /\ UNCHANGED <<options, disk, job, todo, engines, exit, reported, drawing>>

\* (StartAnalysis_KeepsEngine: no runner.shutdown().)
StartAnalysis_KeepsEngine ==
    /\ pc = "job" /\ ~MoreJobs /\ analysis
    /\ pc' = "analysis"
    /\ job' = 1
    /\ remaining' = NumVisualizations
    /\ UNCHANGED <<options, disk, todo, engines, exit, reported, visualized, retained, named>>
StartAnalysis ==
    /\ pc = "job" /\ ~MoreJobs /\ analysis
    /\ Shutdown("eval")
    /\ pc' = "analysis"
    /\ job' = 1
    /\ remaining' = NumVisualizations
    /\ UNCHANGED <<options, disk, todo, exit, reported, visualized, retained, named>>

\* Some of the recorded samples are to be captured (the others were in an earlier run).
Analyse ==
    /\ pc = "analysis" /\ MoreJobs
    /\ todo' \in SUBSET (Samples[File] \cap Recorded(File))
    /\ visualized' = 0
    /\ pc' = "capture"
    /\ UNCHANGED <<options, disk, job, engines, exit, reported, remaining, retained, named>>

\* Any exception of the pass is a warning; the analysis of the other datasets is off.
AnalysisFails ==
    /\ pc \in {"capture", "analysis"}
    /\ IF pc = "capture" THEN "analysis" \in Faults ELSE ~MoreJobs /\ "aggregate" \in Faults
    /\ pc' = "close"
    /\ todo' = {}
    /\ UNCHANGED <<options, disk, job, engines, exit, reported, drawing>>

\* The except clause of a question: it is named in the error file first.
CaptureFails(id) ==
    /\ named' = named \cup {<<job, id>>}
    /\ IF strict THEN pc' = "close" /\ todo' = {} ELSE pc' = "capture" /\ todo' = todo \ {id}

\* render_v2_sample saves the tensors, then draws; the question is counted when it returns.
Drawing(id) == visualized < remaining /\ retained' = retained \cup {<<job, id>>}

Capture(id) ==
    /\ pc = "capture" /\ id \in todo /\ Loaded("analysis")
    /\ \/ /\ todo' = todo \ {id} /\ pc' = pc /\ UNCHANGED named
          /\ \/ Drawing(id) /\ visualized' = visualized + 1
             \/ visualized >= remaining /\ UNCHANGED <<visualized, retained>>
       \/ "generate" \in Faults /\ CaptureFails(id) /\ UNCHANGED <<visualized, retained>>
       \/ "render" \in Faults /\ Drawing(id) /\ CaptureFails(id) /\ UNCHANGED visualized
    /\ UNCHANGED <<options, disk, job, engines, exit, reported, remaining>>

CaptureUnloadable(id) ==
    /\ pc = "capture" /\ id \in todo /\ ~Loaded("analysis")
    /\ Faults \cap {"check", "engine"} # {}
    /\ CaptureFails(id)
    /\ UNCHANGED <<options, disk, job, engines, exit, reported, remaining, visualized, retained>>

CaptureBind ==
    /\ pc = "captureBind"
    /\ Bind("analysis")
    /\ IF badSampling THEN \E id \in todo : CaptureFails(id)
                      ELSE pc' = "capture" /\ UNCHANGED <<todo, named>>
    /\ UNCHANGED <<options, disk, job, exit, reported, remaining, visualized, retained>>

\* (EndDataset_KeepsBudget: remaining_visualizations is not reduced.)
EndDataset_KeepsBudget ==
    /\ pc = "capture" /\ todo = {}
    /\ job' = job + 1
    /\ pc' = "analysis"
    /\ UNCHANGED <<options, disk, todo, engines, exit, reported, drawing>>
EndDataset ==
    /\ pc = "capture" /\ todo = {}
    /\ remaining' = IF remaining > visualized THEN remaining - visualized ELSE 0
    /\ job' = job + 1
    /\ pc' = "analysis"
    /\ UNCHANGED <<options, disk, todo, engines, exit, reported, visualized, retained, named>>

\* write_v2_aggregate_outputs returned.
Aggregate ==
    /\ pc = "analysis" /\ ~MoreJobs
    /\ pc' = "close"
    /\ UNCHANGED <<options, disk, job, todo, engines, exit, reported, drawing>>

\* The inner finally clause. (CloseAnalysis_LeavesEngine: no analysis_runner.shutdown().)
CloseAnalysis_LeavesEngine ==
    /\ pc = "close"
    /\ pc' = "finally"
    /\ UNCHANGED <<options, disk, job, todo, engines, exit, reported, drawing>>
CloseAnalysis ==
    /\ pc = "close"
    /\ Shutdown("analysis")
    /\ pc' = "finally"
    /\ UNCHANGED <<options, disk, job, todo, exit, reported, drawing>>

\* The outer finally clause, and the return.
Finally ==
    /\ pc = "finally"
    /\ Shutdown("eval")
    /\ pc' = "done"
    /\ UNCHANGED <<options, disk, job, todo, exit, reported, drawing>>

-----------------------------------------------------------------------------

Init ==
    /\ request \in Requests
    /\ strict \in Stricts /\ overwrite \in Overwrites
    /\ analysis \in Analyses /\ badSampling \in BadSampling
    /\ cap \in Caps /\ earlier \in Earlier
    /\ files = [f \in Files |-> [r \in Record |-> IF r \in earlier[f].lines THEN 1 ELSE 0]]
    /\ tail = [f \in Files |-> earlier[f].tail]
    /\ pc = "job" /\ job = 1 /\ todo = {}
    /\ llm = {} /\ ready = {} /\ live = 0
    /\ exit = 0 /\ reported = {}
    /\ remaining = 0 /\ visualized = 0 /\ retained = {} /\ named = {}

JobStep == \/ StartJob \/ EndJob \/ DatasetFails \/ AskBind
           \/ \E id \in todo : Ask(id) \/ AskUnloadable(id)
AnalysisStep == \/ SkipAnalysis \/ StartAnalysis \/ Analyse \/ AnalysisFails \/ CaptureBind
                \/ EndDataset \/ Aggregate \/ CloseAnalysis
                \/ \E id \in todo : Capture(id) \/ CaptureUnloadable(id)

Finished == pc = "done" /\ UNCHANGED vars
Next == JobStep \/ AnalysisStep \/ Construct \/ Finally \/ Finished

\* One thread, which keeps running; llm.generate and the engine's start return or raise.
Spec == Init /\ [][Next]_vars /\ WF_vars(Next)

-----------------------------------------------------------------------------
(* Properties. *)

\* The GPU never holds two engines, neither the two runners' at the change to the
\* analysis nor two of one runner, while the sampling options are accepted.
OneEngine == ~badSampling => live <= 1

\* Whatever fails on the way, the program ends with no engine left behind.
EnginesReleased == pc = "done" => live = 0

\* The samples of a file's dataset with a record: now, and before the run (none with
\* --overwrite, which deletes the file).
Count(f) == Cardinality(Samples[f] \cap Recorded(f))
Before(f) ==
    LET lines == earlier[f].lines \cup earlier[f].tail.held
    IN IF overwrite THEN 0 ELSE Cardinality(Samples[f] \cap {r.id : r \in lines})

\* What a job must leave in its file: every sample, or --max-samples more than before. Where
\* an earlier run was killed within a write, the first record appended is lost, and with it
\* the one whose newline is missing.
Damage(f) == IF overwrite \/ earlier[f].tail.whole THEN 0 ELSE 2
Wanted(f) == IF Before(f) + cap < Cardinality(Samples[f]) THEN Before(f) + cap
                                                          ELSE Cardinality(Samples[f])
Enough(f) == Count(f) + Damage(f) >= Wanted(f)

\* Exit code 0 means that every dataset asked for has a record of every sample, or of
\* --max-samples more of them than before the run, but for what an unfinished last line
\* costs; the code is 1 exactly when a job was reported as failed, and the analysis does
\* not matter.
ExitCodeHonest ==
    pc = "done" =>
      /\ exit = 1 <=> reported # {}
      /\ exit = 0 => \A k \in 1 .. Len(EvalJobs) : Enough(FileOf[EvalJobs[k]])

\* A failed job does not stop the others: without --no-continue-on-error every dataset
\* asked for got its records, or a job on its file was reported (with --overwrite a second
\* spelling of the dataset deletes what the first one wrote, and may then fail).
EveryJobRuns ==
    (pc = "done" /\ ~strict) =>
      \A d \in {<<n, request.split>> : n \in ToSet(request.names)} \cup ToSet(request.extra) :
        \/ Enough(FileOf[d])
        \/ \E k \in reported : FileOf[EvalJobs[k]] = FileOf[d]

\* A dataset named twice, in two spellings too, is asked once: no file holds two
\* records of a sample, with and without --overwrite.
Held(f, id) == IF \E r \in tail[f].held : r.id = id THEN 1 ELSE 0
AskedOnce ==
    \A f \in Files, id \in Ids :
      files[f][[id |-> id, ok |-> TRUE]] + files[f][[id |-> id, ok |-> FALSE]] + Held(f, id) <= 1

\* The analyses of all datasets together retain the tensors of at most --num-visualizations
\* questions, and of those whose panels could not be drawn: they are not counted, but each
\* is named in an error file.
DrawnWithinBudget == Cardinality(retained \ named) <= NumVisualizations
=============================================================================
