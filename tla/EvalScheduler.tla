---------------------------- MODULE EvalScheduler ----------------------------
(***************************************************************************)
(* The batched evaluator of run_scanflowpro_v2_evaluation.py: one call of  *)
(* evaluate_dataset over one (dataset, split), with enqueue_ready_questions*)
(* and the two loops of flush_question_batch (the batch and, after an      *)
(* exception, the one-question-at-a-time recovery).                        *)
(*                                                                         *)
(* Abstractions.  A prompt is reduced to the one thing that decides whether*)
(* build_request raises: whether a question, or an earlier answer quoted in*)
(* a conversational prompt, contains the text "<image>" (the tokenizer     *)
(* asserts that the prompt holds it once per image).  An answer is "plain" *)
(* or "marker" (it contains "<image>").  Environment faults (an unreadable *)
(* image, a failing llm.generate, a failing write) may strike at any call, *)
(* if their kind is in Faults.  Question indexes count from 1.             *)
(***************************************************************************)
EXTENDS Integers, Sequences, FiniteSets

CONSTANTS
    N,                \* samples in the dataset stream
    Keys,             \* values of str(sample.sample_id)
    MaxQ,             \* bound on the questions of a sample
    Streams,          \* the dataset streams considered
    BatchSize,        \* --request-batch-size
    MaxSamples,       \* --max-samples (N or more: no cap)
    Stricts,          \* the values of --no-continue-on-error considered
    Answers,          \* what the model may answer: {"plain"} or with "marker"
    Faults,           \* subset of {"load", "generate", "append"}
    NoState           \* not an entry of sample_states

Questions == 1 .. MaxQ
SampleShape == [key : Keys, n : 0 .. MaxQ, conv : BOOLEAN, marked : SUBSET Questions]
Predictions == [Questions -> {"none", "plain", "marker"}]
\* A SampleState; its questions and metadata are those of stream[src].
SampleState == [src : 1 .. N, preds : Predictions, errs : SUBSET Questions,
                remaining : Int, next : Nat \ {0}]
\* A PendingQuestion; its request is the prompt, i.e. the earlier turns it quotes.
Task == [key : Keys, q : Nat \ {0}, quotes : SUBSET Questions]
\* One line of the output file: the record of a sample ("load": of its failed
\* admission) or "broken", which does not parse. The last line may lack its newline.
Line ==
    [kind : {"answers", "load"}, src : 1 .. N, preds : Predictions,
     errs : SUBSET Questions, ended : BOOLEAN]
      \cup [kind : {"broken"}, src : {0}, preds : Predictions,
            errs : SUBSET Questions, ended : BOOLEAN]

ASSUME SchedulerAssumption ==
    /\ N \in Nat /\ MaxQ \in Nat /\ MaxSamples \in Nat
    /\ BatchSize \in Nat \ {0}
    /\ Streams \subseteq [1 .. N -> SampleShape]
    /\ Stricts \subseteq BOOLEAN
    /\ Answers \subseteq {"plain", "marker"} /\ Answers # {}
    /\ Faults \subseteq {"load", "generate", "append"}
    /\ NoState \notin SampleState

VARIABLES
    stream,    \* the dataset, fixed when the job starts
    strict,    \* --no-continue-on-error, fixed too
    runs,      \* which run of the program this is (EvalResume starts more of them)
    had,       \* the ids recorded when it started
    file,      \* the lines of the output file
    completed, \* completed_ids
    pos,       \* the sample the for loop is at
    phase,     \* "read": in the for loop, "drain": after it
    pc,        \* where control is (see Next)
    states,    \* sample_states: key -> SampleState, or NoState
    pending,   \* pending_questions
    follow,    \* follow_up_questions of the current flush
    cursor,    \* the task the current flush is at
    processed, skipped, errors

job == <<stream, strict, runs, had>>
vars == <<job, file, completed, pos, phase, pc, states, pending, follow,
          cursor, processed, skipped, errors>>
queueVars == <<pending, follow, cursor>>
statVars == <<processed, skipped, errors>>

-----------------------------------------------------------------------------
(* The output file. *)

NoPredictions == [q \in Questions |-> "none"]
Torn == [kind |-> "broken", src |-> 0, preds |-> NoPredictions, errs |-> {}, ended |-> FALSE]
Junk == [Torn EXCEPT !.ended = TRUE]
Bare(line) == [line EXCEPT !.ended = FALSE]
Unended(f) == Len(f) > 0 /\ ~f[Len(f)].ended

\* Opening in append mode after a line without newline, whole or not, glues the new
\* text to it. (Written_Truncates: opened with "w" instead.)
Glued(f, line, both) == IF Unended(f) THEN [f EXCEPT ![Len(f)] = both] ELSE Append(f, line)
Written_Truncates(f, line) == <<line>>
Written(f, line) == Glued(f, line, Junk)

\* What jsonl_append may leave: the line, or (it raises) nothing, a part of it, or all
\* of it but the newline.
WriteOutcomes == IF "append" \in Faults THEN {"ok", "lost", "torn", "bare"} ELSE {"ok"}
JsonlAppend(f, line, outcome) ==
    CASE outcome = "ok"   -> Written(f, line)
      [] outcome = "lost" -> f
      [] outcome = "torn" -> Glued(f, Torn, Torn)
      [] outcome = "bare" -> Glued(f, Bare(line), Torn)

\* finalize_sample_state's record.
AnswersLine(s) ==
    [kind |-> "answers", src |-> s.src, preds |-> s.preds, errs |-> s.errs, ended |-> TRUE]
LoadLine(i) ==
    [kind |-> "load", src |-> i, preds |-> NoPredictions, errs |-> {}, ended |-> TRUE]

IsRecord(line) == line.kind \in {"answers", "load"}
LoadFailed(line, i) == line.kind = "load" /\ line.src = i

\* load_existing_sample_ids: unparsable lines are passed over.
RecordedIds(f) == {stream[f[j].src].key : j \in {l \in 1 .. Len(f) : IsRecord(f[l])}}

-----------------------------------------------------------------------------
(* Scheduling questions. *)

\* build_chartqapro_conversation_history quotes every earlier question, and the
\* earlier answers there are.
Quotes(s, q) ==
    IF stream[s.src].conv THEN {p \in 1 .. (q - 1) : s.preds[p] # "none"} ELSE {}

\* build_request: the prompt must contain "<image>" exactly once.
Buildable(s, q) ==
    LET shape == stream[s.src]
    IN /\ q \notin shape.marked
       /\ shape.conv => \A p \in 1 .. (q - 1) : p \notin shape.marked /\ s.preds[p] # "marker"

\* enqueue_ready_questions: the next turn of a conversation, or every question
\* left. It stops at the first prompt that cannot be built, and keeps what it
\* appended before.
\* (Enqueue_AllTurns: the turns of a conversation are enqueued together;
\* Enqueue_FromZero: the tasks name their questions from 0.)
Enqueue_FromZero(k, s) ==
    LET due == s.next .. stream[s.src].n
    IN [ok    |-> TRUE,
        state |-> [s EXCEPT !.next = stream[s.src].n + 1],
        tasks |-> [i \in 1 .. Cardinality(due) |->
                     [key |-> k, q |-> s.next + i - 2, quotes |-> {}]]]
Enqueue_AllTurns(k, s) ==
    LET due   == s.next .. stream[s.src].n
        built == {q \in due : \A p \in due : p <= q => Buildable(s, p)}
        count == Cardinality(built)
    IN [ok    |-> built = due,
        state |-> [s EXCEPT !.next = @ + count],
        tasks |-> [i \in 1 .. count |->
                     [key |-> k, q |-> s.next + i - 1, quotes |-> Quotes(s, s.next + i - 1)]]]

Enqueue(k, s) ==
    LET shape == stream[s.src]
        due   == {q \in s.next .. shape.n : shape.conv => q = s.next}
        built == {q \in due : \A p \in due : p <= q => Buildable(s, p)}
        count == Cardinality(built)
    IN [ok    |-> built = due,
        state |-> [s EXCEPT !.next = @ + count],
        tasks |-> [i \in 1 .. count |->
                     [key |-> k, q |-> s.next + i - 1, quotes |-> Quotes(s, s.next + i - 1)]]]

\* The common tail of update_success and update_error once the outcome of the
\* question is stored in s: enqueue, count down, and finalize at zero.
\* (CountDown_KeepsEntry: no "del sample_states[key]"; CountDown_Forgets: no "-= 1".)
CountDown_KeepsEntry(k, s, write) ==
    LET e    == Enqueue(k, s)
        left == [e.state EXCEPT !.remaining = @ - 1]
        last == e.ok /\ left.remaining = 0
    IN [ok    |-> e.ok /\ (last => write = "ok"),
        state |-> IF e.ok THEN left ELSE e.state,
        tasks |-> e.tasks,
        file  |-> IF last THEN JsonlAppend(file, AnswersLine(left), write) ELSE file]
CountDown_Forgets(k, s, write) ==
    LET e == Enqueue(k, s)
    IN [ok |-> e.ok, state |-> e.state, tasks |-> e.tasks, file |-> file]

CountDown(k, s, write) ==
    LET e    == Enqueue(k, s)
        left == [e.state EXCEPT !.remaining = @ - 1]
        last == e.ok /\ left.remaining = 0
    IN [ok    |-> e.ok /\ (last => write = "ok"),
        state |-> IF last /\ write = "ok" THEN NoState ELSE IF e.ok THEN left ELSE e.state,
        tasks |-> e.tasks,
        file  |-> IF last THEN JsonlAppend(file, AnswersLine(left), write) ELSE file]

\* sample_states[task.sample_key] and its lists indexed with task.question_idx.
Found(t) == states[t.key] # NoState /\ t.q <= stream[states[t.key].src].n

Store(outcome, k) ==
    /\ states' = [states EXCEPT ![k] = outcome.state]
    /\ follow' = follow \o outcome.tasks
    /\ file' = outcome.file

NewState(i) == [src |-> i, preds |-> NoPredictions, errs |-> {},
                remaining |-> stream[i].n, next |-> 1]

-----------------------------------------------------------------------------
(* The for loop of evaluate_dataset. *)

Sample == stream[pos]
Reading == pc = "loop" /\ phase = "read" /\ pos <= N
New == Reading /\ Sample.key \notin completed /\ processed < MaxSamples

\* (SkipRecorded_Counts: a skipped sample counts as processed.)
SkipRecorded_Counts ==
    /\ Reading /\ Sample.key \in completed
    /\ skipped' = skipped + 1
    /\ processed' = processed + 1
    /\ pos' = pos + 1
    /\ UNCHANGED <<job, file, completed, phase, pc, states, queueVars, errors>>

SkipRecorded ==
    /\ Reading /\ Sample.key \in completed
    /\ skipped' = skipped + 1
    /\ pos' = pos + 1
    /\ UNCHANGED <<job, file, completed, phase, pc, states, queueVars, processed, errors>>

\* The for loop ends: at the cap, or with the dataset.
StopReading ==
    /\ pc = "loop" /\ phase = "read"
    /\ pos <= N => Sample.key \notin completed /\ processed >= MaxSamples
    /\ phase' = "drain"
    /\ UNCHANGED <<job, file, completed, pos, pc, states, queueVars, statVars>>

\* A sample without questions is recorded at once.
RecordEmpty ==
    /\ New /\ Sample.n = 0
    /\ \E write \in WriteOutcomes :
         /\ file' = JsonlAppend(file, AnswersLine(NewState(pos)), write)
         /\ IF write = "ok"
            THEN /\ completed' = completed \cup {Sample.key}
                 /\ processed' = processed + 1
                 /\ pos' = pos + 1
                 /\ pc' = pc
            ELSE pc' = "raised" /\ UNCHANGED <<completed, processed, pos>>
    /\ UNCHANGED <<job, phase, states, queueVars, skipped, errors>>

\* The except clause around loading and the first enqueue. What the enqueue
\* already put into sample_states and pending_questions stays there.
RecordLoadError ==
    \E write \in WriteOutcomes :
      /\ errors' = errors + 1
      /\ file' = JsonlAppend(file, LoadLine(pos), write)
      /\ IF write = "ok"
         THEN /\ completed' = completed \cup {Sample.key}
              /\ processed' = processed + 1
              /\ pos' = pos + 1
              /\ pc' = IF strict THEN "raised" ELSE pc
         ELSE pc' = "raised" /\ UNCHANGED <<completed, processed, pos>>

LoadFails ==
    /\ New /\ Sample.n > 0 /\ "load" \in Faults
    /\ RecordLoadError
    /\ UNCHANGED <<job, phase, states, queueVars, skipped>>

\* The image loads; the sample becomes an entry of sample_states (replacing one
\* with the same key) and its first questions are enqueued.
Admission == Enqueue(Sample.key, NewState(pos))

\* (Admit_NeverFlushes: no flush here.)
Admit_NeverFlushes ==
    /\ New /\ Sample.n > 0
    /\ Admission.ok
    /\ states' = [states EXCEPT ![Sample.key] = Admission.state]
    /\ pending' = pending \o Admission.tasks
    /\ processed' = processed + 1
    /\ pos' = pos + 1
    /\ UNCHANGED <<job, file, completed, phase, pc, follow, cursor, skipped, errors>>

Admit ==
    /\ New /\ Sample.n > 0
    /\ Admission.ok
    /\ states' = [states EXCEPT ![Sample.key] = Admission.state]
    /\ pending' = pending \o Admission.tasks
    /\ processed' = processed + 1
    /\ pos' = pos + 1
    /\ IF Len(pending') >= BatchSize
       THEN pc' = "flush" /\ cursor' = 1
       ELSE UNCHANGED <<pc, cursor>>
    /\ UNCHANGED <<job, file, completed, phase, follow, skipped, errors>>

AdmitFails ==
    /\ New /\ Sample.n > 0
    /\ ~Admission.ok
    /\ states' = [states EXCEPT ![Sample.key] = Admission.state]
    /\ pending' = pending \o Admission.tasks
    /\ RecordLoadError
    /\ UNCHANGED <<job, phase, follow, cursor, skipped>>

-----------------------------------------------------------------------------
(* After the loop: drain the queue, then the fallback, then return. *)

DrainFlush ==
    /\ pc = "loop" /\ phase = "drain" /\ pending # <<>>
    /\ pc' = "flush"
    /\ cursor' = 1
    /\ UNCHANGED <<job, file, completed, pos, phase, states, pending, follow, statVars>>

InFlight == {k \in Keys : states[k] # NoState}

\* "Defensive fallback": an entry left in sample_states is written as it stands.
Fallback(k) ==
    /\ pc = "loop" /\ phase = "drain" /\ pending = <<>>
    /\ states[k] # NoState
    /\ \E write \in WriteOutcomes :
         /\ file' = JsonlAppend(file, AnswersLine(states[k]), write)
         /\ IF write = "ok" THEN states' = [states EXCEPT ![k] = NoState] /\ pc' = pc
                            ELSE pc' = "raised" /\ UNCHANGED states
    /\ UNCHANGED <<job, completed, pos, phase, queueVars, statVars>>

Return ==
    /\ pc = "loop" /\ phase = "drain" /\ pending = <<>> /\ InFlight = {}
    /\ pc' = "done"
    /\ UNCHANGED <<job, file, completed, pos, phase, states, queueVars, statVars>>

-----------------------------------------------------------------------------
(* flush_question_batch. *)

CurrentTask == pending[cursor]
MoreTasks == cursor <= Len(pending)

\* llm.generate answers the whole batch (an answer is chosen when it is used).
Generate ==
    /\ pc = "flush"
    /\ pc' = "apply"
    /\ UNCHANGED <<job, file, completed, pos, phase, states, queueVars, statVars>>

\* An exception in the batch: re-raised, or every question of the batch is asked
\* again on its own, those already applied included.
RecoverOrRaise ==
    IF strict THEN pc' = "raised" /\ UNCHANGED cursor
              ELSE pc' = "single" /\ cursor' = 1

GenerateFails ==
    /\ pc = "flush" /\ "generate" \in Faults
    /\ RecoverOrRaise
    /\ UNCHANGED <<job, file, completed, pos, phase, states, pending, follow, statVars>>

\* update_success(t, answer): finding the entry, storing the answer, the tail.
Success(t, answer, write) ==
    IF Found(t)
    THEN CountDown(t.key, [states[t.key] EXCEPT !.preds[t.q] = answer], write)
    ELSE [ok |-> FALSE, state |-> states[t.key], tasks |-> <<>>, file |-> file]

\* update_error(t, exc).
\* (Failure_Silent: the error text is not stored.)
Failure_Silent(t, write) ==
    IF Found(t)
    THEN CountDown(t.key, states[t.key], write)
    ELSE [ok |-> FALSE, state |-> states[t.key], tasks |-> <<>>, file |-> file]
Failure(t, write) ==
    IF Found(t)
    THEN CountDown(t.key, [states[t.key] EXCEPT !.errs = @ \cup {t.q}], write)
    ELSE [ok |-> FALSE, state |-> states[t.key], tasks |-> <<>>, file |-> file]

ApplyOutput ==
    /\ pc = "apply" /\ MoreTasks
    /\ \E answer \in Answers, write \in WriteOutcomes :
         LET outcome == Success(CurrentTask, answer, write)
         IN /\ Store(outcome, CurrentTask.key)
            /\ IF outcome.ok THEN cursor' = cursor + 1 /\ pc' = pc ELSE RecoverOrRaise
    /\ UNCHANGED <<job, completed, pos, phase, pending, statVars>>

\* The recovery asks one question alone; an exception leads to update_error.
AskAlone ==
    /\ pc = "single" /\ MoreTasks
    /\ \E answer \in Answers, write \in WriteOutcomes :
         LET outcome == Success(CurrentTask, answer, write)
         IN /\ Store(outcome, CurrentTask.key)
            /\ IF outcome.ok THEN cursor' = cursor + 1 /\ pc' = pc
                             ELSE pc' = "except" /\ UNCHANGED cursor
    /\ UNCHANGED <<job, completed, pos, phase, pending, statVars>>

AskAloneFails ==
    /\ pc = "single" /\ MoreTasks /\ "generate" \in Faults
    /\ pc' = "except"
    /\ UNCHANGED <<job, file, completed, pos, phase, states, queueVars, statVars>>

\* update_error: an exception of its own leaves flush_question_batch.
RecordError ==
    /\ pc = "except"
    /\ \E write \in WriteOutcomes :
         LET outcome == Failure(CurrentTask, write)
         IN /\ Store(outcome, CurrentTask.key)
            /\ IF outcome.ok THEN cursor' = cursor + 1 /\ pc' = "single"
                             ELSE pc' = "raised" /\ UNCHANGED cursor
    /\ errors' = errors + 1
    /\ UNCHANGED <<job, completed, pos, phase, pending, processed, skipped>>

\* The flush returns; its follow-up questions are the new queue.
\* (EndFlush_KeepsQueue: the follow-ups are added to the old queue; EndFlush_DropsFollow: they
\* are not queued; EndFlush_Repeats: the next flush starts, empty queue or not.)
EndFlush_KeepsQueue ==
    /\ pc \in {"apply", "single"} /\ ~MoreTasks
    /\ pending' = pending \o follow
    /\ follow' = <<>>
    /\ cursor' = 0
    /\ pc' = "loop"
    /\ UNCHANGED <<job, file, completed, pos, phase, states, statVars>>
EndFlush_DropsFollow ==
    /\ pc \in {"apply", "single"} /\ ~MoreTasks
    /\ pending' = <<>>
    /\ follow' = <<>>
    /\ cursor' = 0
    /\ pc' = "loop"
    /\ UNCHANGED <<job, file, completed, pos, phase, states, statVars>>
EndFlush_Repeats ==
    /\ pc \in {"apply", "single"} /\ ~MoreTasks
    /\ pending' = follow
    /\ follow' = <<>>
    /\ cursor' = 1
    /\ pc' = "flush"
    /\ UNCHANGED <<job, file, completed, pos, phase, states, statVars>>

EndFlush ==
    /\ pc \in {"apply", "single"} /\ ~MoreTasks
    /\ pending' = follow
    /\ follow' = <<>>
    /\ cursor' = 0
    /\ pc' = "loop"
    /\ UNCHANGED <<job, file, completed, pos, phase, states, statVars>>

-----------------------------------------------------------------------------

Init ==
    /\ stream \in Streams /\ strict \in Stricts
    /\ runs = 1 /\ had = {}
    /\ file = <<>>
    /\ completed = {}
    /\ pos = 1 /\ phase = "read" /\ pc = "loop"
    /\ states = [k \in Keys |-> NoState]
    /\ pending = <<>> /\ follow = <<>> /\ cursor = 0
    /\ processed = 0 /\ skipped = 0 /\ errors = 0

Over == pc \in {"done", "raised"}
Finished == Over /\ UNCHANGED vars

ReadStep == SkipRecorded \/ StopReading \/ RecordEmpty \/ LoadFails \/ Admit \/ AdmitFails
DrainStep == DrainFlush \/ Return \/ \E k \in Keys : Fallback(k)
FlushStep == \/ Generate \/ GenerateFails \/ ApplyOutput
             \/ AskAlone \/ AskAloneFails \/ RecordError \/ EndFlush

Next == ReadStep \/ DrainStep \/ FlushStep \/ Finished

\* One thread, which keeps running; llm.generate returns or raises.
Spec == Init /\ [][Next]_vars /\ WF_vars(Next)

-----------------------------------------------------------------------------
(* Properties. *)

\* Every variable keeps its type (sample_states, the queues, the file, the counters).
TypeOK ==
    /\ stream \in Streams /\ strict \in BOOLEAN
    /\ runs \in Nat /\ had \subseteq Keys
    /\ file \in Seq(Line)
    /\ completed \subseteq Keys
    /\ pos \in 1 .. (N + 1)
    /\ phase \in {"read", "drain"}
    /\ pc \in {"loop", "flush", "apply", "single", "except", "done", "raised"}
    /\ states \in [Keys -> SampleState \cup {NoState}]
    /\ pending \in Seq(Task) /\ follow \in Seq(Task)
    /\ cursor \in Nat
    /\ pc \in {"flush", "apply", "single", "except"} => cursor > 0
    /\ pc = "except" => cursor <= Len(pending)
    /\ processed \in Nat /\ skipped \in Nat /\ errors \in Nat

\* The ids of the dataset are unambiguous: str(sample_id) is injective on it.
DistinctKeys == \A i, j \in 1 .. N : stream[i].key = stream[j].key => i = j

\* Two records of one sample in the output file can only be the record of its
\* failed admission followed by its (fallback) answers: whatever fails, however
\* often a batch is repeated, finalize_sample_state writes a sample at most once.
LoadThenAnswers(f) ==
    \A j, l \in 1 .. Len(f) :
      (j < l /\ IsRecord(f[j]) /\ IsRecord(f[l]) /\ f[j].src = f[l].src)
        => f[j].kind = "load" /\ f[l].kind = "answers"
DuplicateOnlyAfterLoadError == DistinctKeys => LoadThenAnswers(file)

\* A sample is recorded at most once.
OneRecord ==
    DistinctKeys =>
      \A j, l \in 1 .. Len(file) :
        (j # l /\ IsRecord(file[j]) /\ IsRecord(file[l])) => file[j].src # file[l].src

\* A record of answers holds, for each question, an answer or an error, not both:
\* no sample is finalized before its last question is settled.
RecordComplete ==
    \A j \in 1 .. Len(file) :
      file[j].kind = "answers" =>
        \A q \in 1 .. stream[file[j].src].n :
          (file[j].preds[q] # "none") <=> (q \notin file[j].errs)

\* The tasks whose outcome is still to be applied.
LiveTasks ==
    LET rest == IF pc \in {"flush", "apply", "single", "except"}
                THEN SubSeq(pending, cursor, Len(pending)) ELSE pending
    IN rest \o follow
Settled(s, q) == s.preds[q] # "none" \/ q \in s.errs
Unsettled(s) == {q \in 1 .. stream[s.src].n : ~Settled(s, q)}

\* The counter SampleState.remaining is the number of questions without outcome,
\* and each of them is either not scheduled yet or in exactly one live task: no
\* question is lost or asked twice, although a batch may be repeated.
Accounting ==
    (DistinctKeys /\ ~Over) =>
      \A k \in InFlight :
        LET s == states[k]
        IN /\ s.remaining = Cardinality(Unsettled(s)) /\ s.remaining > 0
           /\ \A q \in 1 .. stream[s.src].n :
                Cardinality({i \in 1 .. Len(LiveTasks) : LiveTasks[i].key = k /\ LiveTasks[i].q = q})
                  = IF q < s.next /\ ~Settled(s, q) THEN 1 ELSE 0

\* A conversational prompt waiting to be sent quotes every earlier turn that was
\* answered, and every earlier turn has its outcome: it is never built too early.
PromptsCurrent ==
    (DistinctKeys /\ ~Over) =>
      \A i \in 1 .. Len(LiveTasks) :
        LET t == LiveTasks[i]
            s == states[t.key]
        IN s # NoState /\ t.quotes = Quotes(s, t.q)
           /\ (stream[s.src].conv => \A p \in 1 .. (t.q - 1) : Settled(s, p))

\* Of the ids a returning call went past, each has a readable record in the file, but
\* for one id per unreadable line, and but for at most one id that the call found
\* recorded (in a last line without newline, which its first append made unreadable):
\* also where two samples have the same id, writes failed or earlier runs were killed.
Unreadable == {j \in 1 .. Len(file) : ~IsRecord(file[j])}
Passed == {stream[i].key : i \in 1 .. (pos - 1)}
NothingLost ==
    pc = "done" =>
      LET lost == Passed \ RecordedIds(file)
      IN /\ Cardinality(lost \ had) <= Cardinality(Unreadable)
         /\ Cardinality(lost \cap had) <= (IF Unreadable = {} THEN 0 ELSE 1)

\* The queue, which goes to one generate call as a whole, may pass --request-batch-size
\* but does not grow with the dataset: one flush per admission drains conversations
\* as fast as they start.
QueueBound == Len(pending) <= BatchSize + 2 * (MaxQ - 1)

\* An outcome stored for a question is not replaced, neither while its sample is in
\* flight nor by the step that writes the sample and drops its entry.
Outcome(s, q) == <<s.preds[q], q \in s.errs>>
OutcomesFinal ==
    [][\A k \in Keys :
         LET after == IF states'[k] # NoState THEN states'[k] ELSE file'[Len(file')]
         IN (states[k] # NoState /\ after.src = states[k].src) =>
              \A q \in Questions :
                Settled(states[k], q) => Outcome(after, q) = Outcome(states[k], q)]_vars

\* The help text of --continue-on-error: failures are recorded and the job goes on.
ContinueNeverRaises == ~strict => pc # "raised"

\* The help text of --continue-on-error: failures are recorded. A question of a
\* written sample without an answer has its error, or the sample its load error.
FailuresRecorded ==
    ~strict =>
      \A j \in 1 .. Len(file) :
        file[j].kind = "answers" =>
          \A q \in 1 .. stream[file[j].src].n :
            \/ file[j].preds[q] # "none" \/ q \in file[j].errs
            \/ \E l \in 1 .. Len(file) : LoadFailed(file[l], file[j].src)

\* The job ends.
Termination == <>Over

-----------------------------------------------------------------------------
(* The abstract ledger this module implements. *)

AnsweredLine(i) == \E j \in 1 .. Len(file) : file[j].kind = "answers" /\ file[j].src = i
Open(i) == states[stream[i].key] # NoState /\ states[stream[i].key].src = i

StatusOf(i) ==
    IF Open(i) THEN "open"
    ELSE IF AnsweredLine(i) THEN "recorded"
    ELSE IF \E j \in 1 .. Len(file) : LoadFailed(file[j], i) THEN "rejected"
    ELSE "unread"

\* While a sample is open its entry says what is settled, afterwards its record.
SettledOf(i) ==
    IF Open(i) THEN {q \in 1 .. stream[i].n : Settled(states[stream[i].key], q)}
    ELSE {q \in 1 .. stream[i].n :
            \E j \in 1 .. Len(file) : file[j].src = i /\ Settled(file[j], q)}

Ledger ==
    INSTANCE EvalLedger WITH
      Samples <- 1 .. N,
      size    <- [i \in 1 .. N |-> stream[i].n],
      inOrder <- {i \in 1 .. N : stream[i].conv},
      status  <- [i \in 1 .. N |-> StatusOf(i)],
      settled <- [i \in 1 .. N |-> SettledOf(i)],
      over    <- pc = "done"

\* Whatever batch boundaries, failing generate calls and recoveries do, the job
\* behaves as the ledger: nothing is settled twice or out of turn, every sample
\* read is settled completely and recorded once, and then the job ends.
ImplementsLedger == Ledger!LedgerSpec
=============================================================================
