----------------------------- MODULE EvalResume -----------------------------
(***************************************************************************)
(* The evaluation job over several runs of the program.  The output file   *)
(* is all that survives a run; a run starts by reading back the ids it     *)
(* finds there (load_existing_sample_ids), or by deleting the file         *)
(* (--overwrite).  A run may be killed at any point, also in the middle of *)
(* a write, which leaves the last line without newline, whole or not.      *)
(***************************************************************************)
EXTENDS EvalScheduler

CONSTANTS
    MaxRuns,     \* bound on the runs of the program
    Overwrites,  \* the values --overwrite may have: a subset of BOOLEAN
    Kills        \* how a run may be killed: a subset of {"between", "within"} writes

ASSUME ResumeAssumption ==
    /\ MaxRuns \in Nat \ {0} /\ Overwrites \subseteq BOOLEAN
    /\ Kills \subseteq {"between", "within"}

\* What the current question may settle to.
Settlings(t) ==
    IF pc = "except" THEN {[states[t.key] EXCEPT !.errs = @ \cup {t.q}]}
    ELSE {[states[t.key] EXCEPT !.preds[t.q] = answer] : answer \in Answers}

\* The lines the running step may be handing to jsonl_append.
DueLines ==
    CASE New /\ Sample.n = 0 -> {AnswersLine(NewState(pos))}
      [] New /\ Sample.n > 0 /\ (~Admission.ok \/ "load" \in Faults) -> {LoadLine(pos)}
      [] pc = "loop" /\ phase = "drain" /\ pending = <<>> ->
           {AnswersLine(states[k]) : k \in InFlight}
      [] pc \in {"apply", "single", "except"} /\ MoreTasks /\ Found(CurrentTask) ->
           {AnswersLine(s) : s \in {s \in Settlings(CurrentTask) :
                                      s.remaining = 1 /\ Enqueue(CurrentTask.key, s).ok}}
      [] OTHER -> {}

\* The process is killed (a time limit of the batch system, a lost GPU).
Kill ==
    /\ ~Over
    /\ pc' = "raised"
    /\ \/ "between" \in Kills /\ file' = file
       \/ /\ "within" \in Kills
          /\ \E line \in DueLines, cut \in {"torn", "bare"} :
               file' = JsonlAppend(file, line, cut)
    /\ UNCHANGED <<job, completed, pos, phase, states, queueVars, statVars>>

\* The program is started again with the same dataset and output directory.
Restart(overwrite) ==
    /\ Over /\ runs < MaxRuns
    /\ runs' = runs + 1
    /\ file' = IF overwrite THEN <<>> ELSE file
    /\ completed' = RecordedIds(file')
    /\ had' = completed'
    /\ pos' = 1 /\ phase' = "read" /\ pc' = "loop"
    /\ states' = [k \in Keys |-> NoState]
    /\ pending' = <<>> /\ follow' = <<>> /\ cursor' = 0
    /\ processed' = 0 /\ skipped' = 0 /\ errors' = 0
    /\ UNCHANGED <<stream, strict>>

ResumeNext ==
    \/ Next
    \/ Kill
    \/ \E overwrite \in Overwrites : Restart(overwrite)

ResumeSpec == Init /\ [][ResumeNext]_vars /\ WF_vars(Next)

-----------------------------------------------------------------------------
(* Properties. *)

\* A readable record is never changed or moved. Only --overwrite deletes it, and only
\* the last line, if its newline is missing, is made unreadable, by the next append.
RecordsPersist ==
    [][\A j \in 1 .. Len(file) :
         IsRecord(file[j]) =>
           \/ j <= Len(file') /\ file'[j] = file[j]
           \/ Unended(file) /\ j = Len(file) /\ j = Len(file') /\ ~IsRecord(file'[j])
           \/ TRUE \in Overwrites /\ runs' = runs + 1 /\ file' = <<>>]_vars

\* --max-samples on a resumed job: a run that returns has recorded that many samples
\* that were not recorded before, or all there were left.
CapAdvances ==
    (DistinctKeys /\ pc = "done" /\ Unreadable = {}) =>
      LET left == N - Cardinality(had)
      IN Cardinality(RecordedIds(file) \ had) = IF left < MaxSamples THEN left ELSE MaxSamples
=============================================================================
