------------------------- MODULE EvalSchedulerProofs -------------------------
(***************************************************************************)
(* What holds of EvalScheduler for every dataset, every batch size and     *)
(* every combination of faults.                                            *)
(***************************************************************************)
EXTENDS EvalScheduler, SequenceTheorems, FiniteSetTheorems, TLAPS

USE DEF job

-----------------------------------------------------------------------------
(* Lemmas about the operators. *)

\* The readable lines of g are those of f, and line if it was written; a last line
\* without newline is only left readable by a write that left nothing.
GrownBy(g, f, line, write) ==
    \A j \in 1 .. Len(g) :
      IsRecord(g[j]) =>
        \/ /\ j \in 1 .. Len(f) /\ g[j] = f[j]
           /\ j = Len(f) /\ ~f[j].ended => g = f
        \/ /\ write \in {"ok", "bare"} /\ ~Unended(f)
           /\ j = Len(f) + 1 /\ j = Len(g)
           /\ g[j] = IF write = "ok" THEN line ELSE Bare(line)

LEMMA BrokenLines ==
    /\ Torn \in Line /\ ~IsRecord(Torn) /\ ~Torn.ended
    /\ Junk \in Line /\ ~IsRecord(Junk) /\ Junk.ended
BY SchedulerAssumption DEF Torn, Junk, Line, IsRecord, NoPredictions, Predictions

LEMMA BareLine ==
    ASSUME NEW line \in Line
    PROVE  /\ Bare(line) \in Line /\ ~Bare(line).ended
           /\ Bare(line).kind = line.kind /\ Bare(line).src = line.src
BY DEF Bare, Line

\* What is appended goes to a line of its own, or to the last one.
GluedTo(g, f, line, both) ==
    /\ g \in Seq(Line) /\ Len(f) \in Nat
    /\ \A j \in 1 .. Len(f) : j # Len(f) \/ f[j].ended => g[j] = f[j]
    /\ ~Unended(f) => Len(g) = Len(f) + 1 /\ g[Len(f) + 1] = line
    /\ Unended(f) => Len(f) \in 1 .. Len(f) /\ Len(g) = Len(f) /\ g[Len(f)] = both

LEMMA GluedLines ==
    ASSUME NEW f \in Seq(Line), NEW line \in Line, NEW both \in Line
    PROVE  GluedTo(Glued(f, line, both), f, line, both)
<1> DEFINE g == Glued(f, line, both)
<1> SUFFICES GluedTo(g, f, line, both)
  OBVIOUS
<1> USE DEF GluedTo
<1>0. Len(f) \in Nat
  BY LenProperties
<1>1. CASE ~Unended(f)
  <2>1. g = Append(f, line)
    BY <1>1 DEF Glued
  <2>2. QED
    BY <2>1, <1>0, <1>1, AppendProperties
<1>2. CASE Unended(f)
  <2>1. g = [f EXCEPT ![Len(f)] = both] /\ Len(f) \in 1 .. Len(f) /\ ~f[Len(f)].ended
    BY <1>0, <1>2 DEF Glued, Unended
  <2>2. g \in Seq(Line) /\ Len(g) = Len(f)
    BY <2>1, ExceptSeq
  <2>3. \A j \in 1 .. Len(f) : g[j] = IF j = Len(f) THEN both ELSE f[j]
    BY <2>1
  <2>4. QED
    BY <2>1, <2>2, <2>3, <1>0, <1>2
<1>3. QED
  BY <1>1, <1>2

\* jsonl_append leaves a sequence of lines and makes up no record.
LEMMA JsonlAppendLines ==
    ASSUME NEW f \in Seq(Line), NEW line \in Line, NEW write \in {"ok", "lost", "torn", "bare"}
    PROVE  /\ JsonlAppend(f, line, write) \in Seq(Line)
           /\ GrownBy(JsonlAppend(f, line, write), f, line, write)
<1> DEFINE g == JsonlAppend(f, line, write)
<1> SUFFICES g \in Seq(Line) /\ GrownBy(g, f, line, write)
  OBVIOUS
<1>1. CASE write = "lost"
  BY <1>1 DEF JsonlAppend, GrownBy
<1>2. ASSUME NEW new \in Line, NEW both \in Line, ~IsRecord(both), g = Glued(f, new, both),
             IsRecord(new) => write \in {"ok", "bare"}
                              /\ new = IF write = "ok" THEN line ELSE Bare(line)
      PROVE  g \in Seq(Line) /\ GrownBy(g, f, line, write)
  <2>0. GluedTo(g, f, new, both)
    BY <1>2, GluedLines
  <2>1. /\ g \in Seq(Line) /\ Len(f) \in Nat
        /\ \A j \in 1 .. Len(f) : j # Len(f) \/ f[j].ended => g[j] = f[j]
        /\ ~Unended(f) => Len(g) = Len(f) + 1 /\ g[Len(f) + 1] = new
        /\ Unended(f) => Len(f) \in 1 .. Len(f) /\ Len(g) = Len(f) /\ g[Len(f)] = both
    BY <2>0 DEF GluedTo
  <2>2. Len(f) \in 1 .. Len(f) /\ ~f[Len(f)].ended => Unended(f)
    BY <2>1 DEF Unended
  <2> HIDE DEF g
  <2>3. CASE Unended(f)
    BY <1>2, <2>1, <2>2, <2>3 DEF GrownBy
  <2>4. CASE ~Unended(f)
    BY <1>2, <2>1, <2>2, <2>4 DEF GrownBy
  <2>5. QED
    BY <2>1, <2>3, <2>4
<1>3. CASE write = "ok"
  BY <1>2, <1>3, BrokenLines DEF JsonlAppend, Written
<1>4. CASE write = "torn"
  BY <1>2, <1>4, BrokenLines DEF JsonlAppend
<1>5. CASE write = "bare"
  BY <1>2, <1>5, BrokenLines, BareLine DEF JsonlAppend
<1>6. QED
  BY <1>1, <1>3, <1>4, <1>5

\* enqueue_ready_questions: it hands out well-formed tasks and touches nothing of
\* the entry but its next question.
LEMMA EnqueueType ==
    ASSUME stream \in Streams, NEW k \in Keys, NEW s \in SampleState
    PROVE  LET e == Enqueue(k, s)
           IN /\ e.ok \in BOOLEAN
              /\ e.state \in SampleState /\ e.state.src = s.src
              /\ e.tasks \in Seq(Task)
<1> DEFINE shape == stream[s.src]
           due   == {q \in s.next .. shape.n : shape.conv => q = s.next}
           built == {q \in due : \A p \in due : p <= q => Buildable(s, p)}
           count == Cardinality(built)
           task(i) == [key |-> k, q |-> s.next + i - 1, quotes |-> Quotes(s, s.next + i - 1)]
           tasks == [i \in 1 .. count |-> task(i)]
<1>1. shape.n \in 0 .. MaxQ /\ s.next \in Nat \ {0} /\ MaxQ \in Nat
  BY SchedulerAssumption DEF SampleShape, SampleState
<1>2. /\ built \in SUBSET (s.next .. shape.n)
      /\ IsFiniteSet(s.next .. shape.n)
      /\ Cardinality(s.next .. shape.n) = IF s.next > shape.n THEN 0 ELSE shape.n - s.next + 1
  <2>1. built \subseteq s.next .. shape.n
    OBVIOUS
  <2>2. s.next \in Int /\ shape.n \in Int
    BY <1>1
  <2> HIDE DEF built, shape
  <2>3. /\ IsFiniteSet(s.next .. shape.n)
        /\ Cardinality(s.next .. shape.n) = IF s.next > shape.n THEN 0 ELSE shape.n - s.next + 1
    BY <2>2, FS_Interval
  <2>4. QED
    BY <2>1, <2>3
<1> HIDE DEF built
<1>3. /\ count \in Nat
      /\ count > 0 => s.next + count - 1 <= shape.n
  <2>1. IsFiniteSet(built) /\ count <= Cardinality(s.next .. shape.n)
    BY <1>2, FS_Subset
  <2>2. count \in Nat
    BY <2>1, FS_CardinalityType
  <2>3. QED
    BY <1>1, <1>2, <2>1, <2>2
<1> HIDE DEF shape, count
<1>4. ASSUME NEW i \in 1 .. count PROVE task(i) \in Task
  <2>1. s.next + i - 1 \in Nat \ {0} /\ s.next + i - 1 <= MaxQ
    BY <1>1, <1>3
  <2>2. Quotes(s, s.next + i - 1) \subseteq Questions
    BY <2>1, <1>1 DEF Quotes, Questions
  <2>3. QED
    BY <2>1, <2>2 DEF Task
<1>5. tasks \in Seq(Task)
  BY <1>3, <1>4, IsASeq
<1>6. [s EXCEPT !.next = @ + count] \in SampleState
  BY <1>1, <1>3 DEF SampleState
<1>7. /\ Enqueue(k, s).ok = (built = due)
      /\ Enqueue(k, s).state = [s EXCEPT !.next = @ + count]
      /\ Enqueue(k, s).tasks = tasks
  BY DEF Enqueue, built, shape, count
<1>8. [s EXCEPT !.next = @ + count].src = s.src
  BY DEF SampleState
<1>9. (built = due) \in BOOLEAN
  OBVIOUS
<1> HIDE DEF due, tasks
<1>10. QED
  BY <1>5, <1>6, <1>7, <1>8, <1>9

-----------------------------------------------------------------------------
(* What update_success and update_error may do to the entry k, the queue and *)
(* the file, whatever they are called with.                                  *)

Effect(k, o, write) ==
    /\ o.ok \in BOOLEAN
    /\ o.state \in SampleState \cup {NoState}
    /\ o.tasks \in Seq(Task)
    /\ o.state # NoState => states[k] # NoState /\ o.state.src = states[k].src
    /\ \/ o.file = file /\ (o.state = NoState => states[k] = NoState)
       \/ \E line \in Line :
            /\ line.kind = "answers" /\ line.ended
            /\ states[k] # NoState /\ line.src = states[k].src
            /\ o.file = JsonlAppend(file, line, write)
            /\ write = "ok" <=> o.state = NoState

\* The tail keeps an entry of the same sample, or writes its record and drops it.
LEMMA CountDownEffect ==
    ASSUME TypeOK, NEW k \in Keys, NEW s \in SampleState, NEW write \in {"ok", "lost", "torn", "bare"},
           states[k] # NoState, s.src = states[k].src
    PROVE  Effect(k, CountDown(k, s, write), write)
<1> DEFINE e    == Enqueue(k, s)
           left == [e.state EXCEPT !.remaining = @ - 1]
           last == e.ok /\ left.remaining = 0
           o    == CountDown(k, s, write)
<1>1. /\ e.ok \in BOOLEAN
      /\ e.state \in SampleState /\ e.state.src = s.src
      /\ e.tasks \in Seq(Task)
  BY EnqueueType DEF TypeOK
<1>2. /\ o.ok = (e.ok /\ (last => write = "ok"))
      /\ o.state = IF last /\ write = "ok" THEN NoState ELSE IF e.ok THEN left ELSE e.state
      /\ o.tasks = e.tasks
      /\ o.file = IF last THEN JsonlAppend(file, AnswersLine(left), write) ELSE file
  BY DEF CountDown
<1> HIDE DEF e, o
<1>3. left \in SampleState /\ left.src = s.src
  BY <1>1 DEF SampleState
<1>4. /\ AnswersLine(left) \in Line /\ AnswersLine(left).kind = "answers"
      /\ AnswersLine(left).src = s.src /\ AnswersLine(left).ended
  BY <1>3 DEF AnswersLine, Line, SampleState
<1> HIDE DEF left, last
<1>5. o.ok \in BOOLEAN
  BY <1>2
<1>6. o.state \in SampleState \cup {NoState} /\ (o.state # NoState => o.state.src = s.src)
  BY <1>1, <1>2, <1>3
<1>7. ASSUME last PROVE Effect(k, o, write)
  <2>1. o.file = JsonlAppend(file, AnswersLine(left), write) /\ (write = "ok" <=> o.state = NoState)
    BY <1>1, <1>2, <1>3, <1>7, SchedulerAssumption
  <2>2. QED
    BY <1>1, <1>2, <1>4, <1>5, <1>6, <2>1 DEF Effect
<1>8. ASSUME ~last PROVE Effect(k, o, write)
  <2>1. o.file = file /\ o.state # NoState
    BY <1>1, <1>2, <1>3, <1>8, SchedulerAssumption
  <2>2. QED
    BY <1>1, <1>2, <1>5, <1>6, <2>1 DEF Effect
<1>9. QED
  BY <1>7, <1>8 DEF o

\* update_success.
LEMMA SuccessEffect ==
    ASSUME TypeOK, NEW t \in Task, NEW answer \in Answers, NEW write \in {"ok", "lost", "torn", "bare"}
    PROVE  Effect(t.key, Success(t, answer, write), write)
<1>1. t.key \in Keys /\ t.q \in Nat \ {0} /\ states[t.key] \in SampleState \cup {NoState}
  BY DEF TypeOK, Task
<1>2. CASE Found(t)
  <2> DEFINE s == [states[t.key] EXCEPT !.preds[t.q] = answer]
  <2>1. states[t.key] \in SampleState
    BY <1>1, <1>2 DEF Found
  <2>2. s \in SampleState /\ s.src = states[t.key].src
    BY <2>1, SchedulerAssumption DEF SampleState, Predictions
  <2>3. states[t.key] # NoState
    BY <1>2 DEF Found
  <2>4. Success(t, answer, write) = CountDown(t.key, s, write)
    BY <1>2 DEF Success
  <2> HIDE DEF s
  <2>5. QED
    BY <1>1, <2>2, <2>3, <2>4, CountDownEffect
<1>3. CASE ~Found(t)
  <2>1. Success(t, answer, write) = [ok |-> FALSE, state |-> states[t.key], tasks |-> <<>>, file |-> file]
    BY <1>3 DEF Success
  <2>2. <<>> \in Seq(Task)
    BY EmptySeq
  <2>3. QED
    BY <1>1, <2>1, <2>2 DEF Effect
<1>4. QED
  BY <1>2, <1>3

\* update_error.
LEMMA FailureEffect ==
    ASSUME TypeOK, NEW t \in Task, NEW write \in {"ok", "lost", "torn", "bare"}
    PROVE  Effect(t.key, Failure(t, write), write)
<1>1. t.key \in Keys /\ t.q \in Nat \ {0} /\ states[t.key] \in SampleState \cup {NoState}
  BY DEF TypeOK, Task
<1>2. CASE Found(t)
  <2> DEFINE s == [states[t.key] EXCEPT !.errs = @ \cup {t.q}]
  <2>1. states[t.key] \in SampleState /\ states[t.key] # NoState
    BY <1>1, <1>2 DEF Found
  <2>2. t.q \in Questions
    <3>1. states[t.key].src \in 1 .. N
      BY <2>1 DEF SampleState
    <3>2. stream[states[t.key].src] \in SampleShape
      BY <3>1, SchedulerAssumption DEF TypeOK
    <3>3. stream[states[t.key].src].n \in 0 .. MaxQ /\ t.q <= stream[states[t.key].src].n
      BY <3>2, <1>2 DEF Found, SampleShape
    <3>4. QED
      BY <3>3, <1>1, SchedulerAssumption DEF Questions
  <2>3. s \in SampleState /\ s.src = states[t.key].src
    BY <2>1, <2>2 DEF SampleState
  <2>4. Failure(t, write) = CountDown(t.key, s, write)
    BY <1>2 DEF Failure
  <2> HIDE DEF s
  <2>5. QED
    BY <1>1, <2>1, <2>3, <2>4, CountDownEffect
<1>3. CASE ~Found(t)
  <2>1. Failure(t, write) = [ok |-> FALSE, state |-> states[t.key], tasks |-> <<>>, file |-> file]
    BY <1>3 DEF Failure
  <2>2. <<>> \in Seq(Task)
    BY EmptySeq
  <2>3. QED
    BY <1>1, <2>1, <2>2 DEF Effect
<1>4. QED
  BY <1>2, <1>3

-----------------------------------------------------------------------------
(* Type correctness. *)

LEMMA WriteOutcomesType == WriteOutcomes \subseteq {"ok", "lost", "torn", "bare"}
BY DEF WriteOutcomes

\* The sample the loop is at is well formed, and so are the lines it may lead to.
LEMMA SampleType ==
    ASSUME TypeOK, Reading
    PROVE  /\ pos \in 1 .. N /\ pos + 1 \in 1 .. (N + 1)
           /\ Sample.key \in Keys /\ Sample.n \in Nat
           /\ NewState(pos) \in SampleState /\ NewState(pos).src = pos
           /\ AnswersLine(NewState(pos)) \in Line
           /\ AnswersLine(NewState(pos)).kind = "answers"
           /\ AnswersLine(NewState(pos)).src = pos
           /\ LoadLine(pos) \in Line
           /\ LoadLine(pos).kind = "load" /\ LoadLine(pos).src = pos
<1>1. pos \in 1 .. N /\ pos + 1 \in 1 .. (N + 1)
  BY SchedulerAssumption DEF TypeOK, Reading
<1>2. Sample \in SampleShape
  BY <1>1, SchedulerAssumption DEF TypeOK, Sample
<1>3. Sample.key \in Keys /\ Sample.n \in Nat
  BY <1>2, SchedulerAssumption DEF SampleShape
<1>4. NoPredictions \in Predictions
  BY DEF NoPredictions, Predictions
<1>5. NewState(pos) \in SampleState /\ NewState(pos).src = pos
  BY <1>1, <1>3, <1>4 DEF NewState, SampleState, Sample
<1>6. QED
  BY <1>1, <1>3, <1>4, <1>5 DEF AnswersLine, LoadLine, Line, SampleState

\* A task of the queue at a positive cursor is a task.
LEMMA CurrentTaskType ==
    ASSUME TypeOK, cursor > 0, cursor <= Len(pending)
    PROVE  CurrentTask \in Task
<1>1. cursor \in 1 .. Len(pending)
  BY DEF TypeOK
<1>2. QED
  BY <1>1, ElementOfSeq DEF TypeOK, CurrentTask

\* Applying an outcome keeps the types of the entries, the queue and the file.
LEMMA StoreType ==
    ASSUME TypeOK, NEW k \in Keys, NEW o, NEW write \in {"ok", "lost", "torn", "bare"},
           Effect(k, o, write), Store(o, k)
    PROVE  /\ states' \in [Keys -> SampleState \cup {NoState}]
           /\ follow' \in Seq(Task)
           /\ file' \in Seq(Line)
<1>1. states' \in [Keys -> SampleState \cup {NoState}]
  BY DEF TypeOK, Effect, Store
<1>2. follow' \in Seq(Task)
  BY ConcatProperties DEF TypeOK, Effect, Store
<1>3. file' \in Seq(Line)
  <2>1. CASE file' = file
    BY <2>1 DEF TypeOK
  <2>2. ASSUME NEW line \in Line, file' = JsonlAppend(file, line, write)
        PROVE  file' \in Seq(Line)
    BY <2>2, JsonlAppendLines DEF TypeOK
  <2>3. QED
    BY <2>1, <2>2 DEF Effect, Store
<1>4. QED
  BY <1>1, <1>2, <1>3

\* A call of evaluate_dataset starts well typed.
LEMMA TypeInit == Init => TypeOK
<1> SUFFICES ASSUME Init PROVE TypeOK
  OBVIOUS
<1>1. <<>> \in Seq(Line) /\ <<>> \in Seq(Task)
  BY EmptySeq
<1>2. pos \in 1 .. (N + 1) /\ strict \in BOOLEAN
  BY SchedulerAssumption DEF Init
<1>3. QED
  BY <1>1, <1>2 DEF Init, TypeOK

\* Every step of a call keeps the types.
LEMMA TypeStep ==
    ASSUME TypeOK, [Next]_vars
    PROVE  TypeOK'
<1> USE WriteOutcomesType
<1>1. CASE SkipRecorded
  BY <1>1, SampleType DEF SkipRecorded, TypeOK, queueVars
<1>2. CASE StopReading
  BY <1>2 DEF StopReading, TypeOK, queueVars, statVars
<1>3. CASE RecordEmpty
  <2>1. Reading
    BY <1>3 DEF RecordEmpty, New
  <2>2. file' \in Seq(Line)
    <3>1. PICK write \in WriteOutcomes : file' = JsonlAppend(file, AnswersLine(NewState(pos)), write)
      BY <1>3 DEF RecordEmpty
    <3>2. AnswersLine(NewState(pos)) \in Line /\ file \in Seq(Line)
      BY <2>1, SampleType DEF TypeOK
    <3>3. QED
      BY <3>1, <3>2, JsonlAppendLines
  <2>3. /\ completed' \subseteq Keys /\ processed' \in Nat /\ pos' \in 1 .. (N + 1)
        /\ pc' \in {"loop", "raised"}
    <3>1. /\ completed' \in {completed, completed \cup {Sample.key}}
          /\ processed' \in {processed, processed + 1} /\ pos' \in {pos, pos + 1}
          /\ pc' \in {"loop", "raised"}
      BY <1>3, <2>1 DEF RecordEmpty, Reading
    <3>2. QED
      BY <2>1, <3>1, SampleType DEF TypeOK
  <2>4. QED
    BY <1>3, <2>2, <2>3 DEF RecordEmpty, TypeOK, queueVars
<1>4. ASSUME RecordLoadError, Reading
      PROVE  /\ file' \in Seq(Line)
             /\ completed' \subseteq Keys /\ processed' \in Nat /\ errors' \in Nat
             /\ pos' \in 1 .. (N + 1) /\ pc' \in {"loop", "raised"}
  <2>1. file' \in Seq(Line)
    <3>1. PICK write \in WriteOutcomes : file' = JsonlAppend(file, LoadLine(pos), write)
      BY <1>4 DEF RecordLoadError
    <3>2. LoadLine(pos) \in Line /\ file \in Seq(Line)
      BY <1>4, SampleType DEF TypeOK
    <3>3. QED
      BY <3>1, <3>2, JsonlAppendLines
  <2>2. pc = "loop"
    BY <1>4 DEF Reading
  <2>3. /\ completed' \in {completed, completed \cup {Sample.key}}
        /\ processed' \in {processed, processed + 1} /\ pos' \in {pos, pos + 1}
        /\ pc' \in {"loop", "raised"} /\ errors' = errors + 1
    BY <1>4, <2>2 DEF RecordLoadError
  <2>4. QED
    BY <1>4, <2>1, <2>3, SampleType DEF TypeOK
<1>5. CASE LoadFails
  <2>1. Reading /\ RecordLoadError
    BY <1>5 DEF LoadFails, New
  <2>2. QED
    BY <1>5, <1>4, <2>1 DEF LoadFails, TypeOK, queueVars
<1>6. ASSUME Reading
      PROVE  /\ [states EXCEPT ![Sample.key] = Admission.state]
                  \in [Keys -> SampleState \cup {NoState}]
             /\ pending \o Admission.tasks \in Seq(Task)
  <2>1. Admission.state \in SampleState /\ Admission.tasks \in Seq(Task)
    BY <1>6, SampleType, EnqueueType DEF Admission, TypeOK
  <2>2. QED
    BY <1>6, <2>1, SampleType, ConcatProperties DEF TypeOK
<1>7. CASE Admit
  <2>1. Reading
    BY <1>7 DEF Admit, New
  <2>2. states' \in [Keys -> SampleState \cup {NoState}] /\ pending' \in Seq(Task)
    BY <1>6, <1>7, <2>1 DEF Admit
  <2>3. QED
    BY <1>7, <2>1, <2>2, SampleType DEF Admit, Reading, TypeOK
<1>8. CASE AdmitFails
  <2>1. Reading /\ RecordLoadError
    BY <1>8 DEF AdmitFails, New
  <2>2. states' \in [Keys -> SampleState \cup {NoState}] /\ pending' \in Seq(Task)
    BY <1>6, <1>8, <2>1 DEF AdmitFails
  <2>3. QED
    BY <1>8, <1>4, <2>1, <2>2 DEF AdmitFails, TypeOK
<1>9. CASE DrainFlush
  BY <1>9 DEF DrainFlush, TypeOK, statVars
<1>10. ASSUME NEW k \in Keys, Fallback(k) PROVE TypeOK'
  <2>1. AnswersLine(states[k]) \in Line
    BY <1>10 DEF Fallback, TypeOK, AnswersLine, Line, SampleState
  <2>2. file' \in Seq(Line)
    BY <1>10, <2>1, JsonlAppendLines DEF Fallback, TypeOK
  <2>3. states' \in [Keys -> SampleState \cup {NoState}]
    BY <1>10 DEF Fallback, TypeOK
  <2>4. QED
    BY <1>10, <2>2, <2>3 DEF Fallback, TypeOK, queueVars, statVars
<1>11. CASE Return
  BY <1>11 DEF Return, TypeOK, queueVars, statVars
<1>12. CASE Generate
  BY <1>12 DEF Generate, TypeOK, queueVars, statVars
<1>13. CASE GenerateFails
  BY <1>13 DEF GenerateFails, RecoverOrRaise, TypeOK, statVars
<1>14. CASE ApplyOutput
  <2>1. cursor > 0 /\ cursor <= Len(pending)
    BY <1>14 DEF ApplyOutput, MoreTasks, TypeOK
  <2>2. CurrentTask \in Task /\ CurrentTask.key \in Keys
    BY <2>1, CurrentTaskType DEF Task
  <2>3. PICK answer \in Answers, write \in WriteOutcomes :
          /\ Store(Success(CurrentTask, answer, write), CurrentTask.key)
          /\ IF Success(CurrentTask, answer, write).ok THEN cursor' = cursor + 1 /\ pc' = pc
                                                       ELSE RecoverOrRaise
    BY <1>14 DEF ApplyOutput
  <2>4. Effect(CurrentTask.key, Success(CurrentTask, answer, write), write)
    BY <2>2, SuccessEffect
  <2>5. /\ states' \in [Keys -> SampleState \cup {NoState}]
        /\ follow' \in Seq(Task) /\ file' \in Seq(Line)
    BY <2>2, <2>3, <2>4, StoreType
  <2>6. /\ cursor' \in Nat /\ cursor' > 0
        /\ pc' \in {"apply", "single", "raised"}
    BY <1>14, <2>1, <2>3 DEF ApplyOutput, RecoverOrRaise, TypeOK
  <2>7. QED
    BY <1>14, <2>5, <2>6 DEF ApplyOutput, TypeOK, statVars
<1>15. CASE AskAlone
  <2>1. cursor > 0 /\ cursor <= Len(pending)
    BY <1>15 DEF AskAlone, MoreTasks, TypeOK
  <2>2. CurrentTask \in Task /\ CurrentTask.key \in Keys
    BY <2>1, CurrentTaskType DEF Task
  <2>3. PICK answer \in Answers, write \in WriteOutcomes :
          /\ Store(Success(CurrentTask, answer, write), CurrentTask.key)
          /\ IF Success(CurrentTask, answer, write).ok
             THEN cursor' = cursor + 1 /\ pc' = pc
             ELSE pc' = "except" /\ UNCHANGED cursor
    BY <1>15 DEF AskAlone
  <2>4. Effect(CurrentTask.key, Success(CurrentTask, answer, write), write)
    BY <2>2, SuccessEffect
  <2>5. /\ states' \in [Keys -> SampleState \cup {NoState}]
        /\ follow' \in Seq(Task) /\ file' \in Seq(Line)
    BY <2>2, <2>3, <2>4, StoreType
  <2>6. /\ cursor' \in Nat /\ cursor' > 0
        /\ pc' \in {"single", "except"}
        /\ pc' = "except" => cursor' <= Len(pending)
    BY <1>15, <2>1, <2>3 DEF AskAlone, TypeOK
  <2>7. QED
    BY <1>15, <2>5, <2>6 DEF AskAlone, TypeOK, statVars
<1>16. CASE AskAloneFails
  BY <1>16 DEF AskAloneFails, MoreTasks, TypeOK, queueVars, statVars
<1>17. CASE RecordError
  <2>1. cursor > 0 /\ cursor <= Len(pending)
    BY <1>17 DEF RecordError, TypeOK
  <2>2. CurrentTask \in Task /\ CurrentTask.key \in Keys
    BY <2>1, CurrentTaskType DEF Task
  <2>3. PICK write \in WriteOutcomes :
          /\ Store(Failure(CurrentTask, write), CurrentTask.key)
          /\ IF Failure(CurrentTask, write).ok
             THEN cursor' = cursor + 1 /\ pc' = "single"
             ELSE pc' = "raised" /\ UNCHANGED cursor
    BY <1>17 DEF RecordError
  <2>4. Effect(CurrentTask.key, Failure(CurrentTask, write), write)
    BY <2>2, FailureEffect
  <2>5. /\ states' \in [Keys -> SampleState \cup {NoState}]
        /\ follow' \in Seq(Task) /\ file' \in Seq(Line)
    BY <2>2, <2>3, <2>4, StoreType
  <2>6. cursor' \in Nat /\ cursor' > 0 /\ pc' \in {"single", "raised"}
    BY <2>1, <2>3 DEF TypeOK
  <2>7. QED
    BY <1>17, <2>5, <2>6 DEF RecordError, TypeOK
<1>18. CASE EndFlush
  <2>1. <<>> \in Seq(Task)
    BY EmptySeq
  <2>2. QED
    BY <1>18, <2>1 DEF EndFlush, TypeOK, statVars
<1>19. CASE UNCHANGED vars
  BY <1>19 DEF vars, TypeOK
<1>20. QED
  BY <1>1, <1>2, <1>3, <1>5, <1>7, <1>8, <1>9, <1>10, <1>11, <1>12, <1>13, <1>14,
     <1>15, <1>16, <1>17, <1>18, <1>19
     DEF Next, ReadStep, DrainStep, FlushStep, Finished

\* Every variable of the scheduler keeps its type, for every dataset and every fault.
THEOREM TypeCorrect == Spec => []TypeOK
BY TypeInit, TypeStep, PTL DEF Spec

-----------------------------------------------------------------------------
(* finalize_sample_state writes a sample at most once.                       *)
(*                                                                           *)
(* DuplicateOnlyAfterLoadError is not inductive: that the record of a sample *)
(* still in flight is not in the file, but for a last line without newline   *)
(* which the next append destroys, has to be known, and for that, that an    *)
(* entry belongs to its own key and to a sample the loop is past.  After an  *)
(* exception left evaluate_dataset nothing is known, and nothing needed.     *)

InFlightUnwritten ==
    \A k \in Keys :
      states[k] # NoState =>
        /\ stream[states[k].src].key = k
        /\ states[k].src < pos
        /\ \A j \in 1 .. Len(file) :
             file[j].kind = "answers" /\ file[j].src = states[k].src
               => j = Len(file) /\ ~file[j].ended

\* A record is of a sample the loop is past, or was found when the run started.
RecordsBehind ==
    \A j \in 1 .. Len(file) :
      IsRecord(file[j]) => file[j].src < pos \/ stream[file[j].src].key \in completed

OnceInv ==
    DistinctKeys =>
      /\ LoadThenAnswers(file)
      /\ pc # "raised" => InFlightUnwritten /\ RecordsBehind

\* A write of a first record, or of answers after a load record, keeps the order.
LEMMA LoadThenAnswersKept ==
    ASSUME NEW f \in Seq(Line), NEW line \in Line, NEW write \in {"ok", "lost", "torn", "bare"},
           LoadThenAnswers(f),
           \A j \in 1 .. Len(f) :
             IsRecord(f[j]) /\ f[j].src = line.src /\ (j # Len(f) \/ f[j].ended)
               => f[j].kind = "load" /\ line.kind = "answers"
    PROVE  LoadThenAnswers(JsonlAppend(f, line, write))
<1> DEFINE g == JsonlAppend(f, line, write)
<1>0. g \in Seq(Line) /\ GrownBy(g, f, line, write)
  BY JsonlAppendLines
<1> HIDE DEF g
<1>1. \A j \in 1 .. Len(g) :
        IsRecord(g[j]) =>
          \/ j \in 1 .. Len(f) /\ g[j] = f[j]
          \/ /\ j = Len(f) + 1 /\ j = Len(g) /\ g[j].kind = line.kind /\ g[j].src = line.src
             /\ ~Unended(f)
  BY <1>0, BareLine DEF GrownBy
<1>2. SUFFICES ASSUME NEW j \in 1 .. Len(g), NEW l \in 1 .. Len(g),
                      j < l, IsRecord(g[j]), IsRecord(g[l]), g[j].src = g[l].src
               PROVE  g[j].kind = "load" /\ g[l].kind = "answers"
  BY DEF LoadThenAnswers, g
<1>3. Len(f) \in Nat /\ Len(g) \in Nat
  BY <1>0, LenProperties
<1>4. j \in 1 .. Len(f) /\ g[j] = f[j]
  BY <1>1, <1>2, <1>3
<1>5. CASE l \in 1 .. Len(f) /\ g[l] = f[l]
  BY <1>2, <1>4, <1>5 DEF LoadThenAnswers
<1>6. CASE g[l].kind = line.kind /\ g[l].src = line.src /\ ~Unended(f)
  <2>1. j # Len(f) \/ f[j].ended
    BY <1>3, <1>4, <1>6 DEF Unended
  <2>2. QED
    BY <1>2, <1>4, <1>6, <2>1
<1>7. QED
  BY <1>1, <1>2, <1>5, <1>6

\* A step that leaves the file and the entries alone, and goes no sample back.
LEMMA OnceInvFrame ==
    ASSUME OnceInv, TypeOK, UNCHANGED <<stream, file, states, completed>>,
           pos' \in Nat, pos' >= pos, pc = "raised" => pc' = "raised"
    PROVE  OnceInv'
<1>1. \A k \in Keys : states[k] # NoState => states[k].src \in Nat
  BY SchedulerAssumption DEF TypeOK, SampleState
<1>2. \A j \in 1 .. Len(file) : file[j] \in Line
  BY ElementOfSeq DEF TypeOK
<1>3. \A j \in 1 .. Len(file) : file[j].src \in Nat
  BY <1>2, SchedulerAssumption DEF Line
<1>4. pos \in Nat
  BY SchedulerAssumption DEF TypeOK
<1>5. InFlightUnwritten => InFlightUnwritten'
  BY <1>1, <1>4 DEF InFlightUnwritten
<1>6. RecordsBehind => RecordsBehind'
  BY <1>3, <1>4 DEF RecordsBehind, IsRecord
<1>7. QED
  BY <1>5, <1>6 DEF OnceInv, DistinctKeys, LoadThenAnswers

\* Applying an outcome of update_success or update_error.
LEMMA OnceInvStore ==
    ASSUME OnceInv, TypeOK, pc # "raised", UNCHANGED <<stream, pos, completed>>,
           NEW k \in Keys, NEW o, NEW write \in {"ok", "lost", "torn", "bare"},
           Effect(k, o, write), Store(o, k)
    PROVE  OnceInv'
<1> SUFFICES ASSUME DistinctKeys
             PROVE  LoadThenAnswers(file') /\ InFlightUnwritten' /\ RecordsBehind'
  BY DEF OnceInv, DistinctKeys, LoadThenAnswers
<1>1. LoadThenAnswers(file) /\ InFlightUnwritten /\ RecordsBehind
  BY DEF OnceInv
<1>2. /\ file' = o.file
      /\ \A m \in Keys : states'[m] = IF m = k THEN o.state ELSE states[m]
  BY DEF Store, TypeOK
<1>3. o.state # NoState => states[k] # NoState /\ o.state.src = states[k].src
  BY DEF Effect
<1>4. \A m \in Keys : states'[m] # NoState =>
        states[m] # NoState /\ states'[m].src = states[m].src
  BY <1>2, <1>3
<1>5. CASE o.file = file
  BY <1>1, <1>2, <1>4, <1>5 DEF InFlightUnwritten, RecordsBehind
<1>6. ASSUME NEW line \in Line, line.kind = "answers", states[k] # NoState,
             line.src = states[k].src, o.file = JsonlAppend(file, line, write),
             write = "ok" => o.state = NoState
      PROVE  LoadThenAnswers(file') /\ InFlightUnwritten' /\ RecordsBehind'
  <2>1. \A j \in 1 .. Len(file) :
          IsRecord(file[j]) /\ file[j].src = line.src /\ (j # Len(file) \/ file[j].ended)
            => file[j].kind = "load"
    BY <1>1, <1>6 DEF InFlightUnwritten, IsRecord
  <2>2. LoadThenAnswers(file')
    BY <1>1, <1>2, <1>6, <2>1, LoadThenAnswersKept DEF TypeOK
  <2>3. \A j \in 1 .. Len(file') :
          IsRecord(file'[j]) =>
            \/ /\ j \in 1 .. Len(file) /\ file'[j] = file[j]
               /\ j = Len(file) /\ ~file[j].ended => j = Len(file')
            \/ /\ file'[j].src = line.src /\ j = Len(file')
               /\ write # "ok" => write = "bare" /\ ~file'[j].ended
    <3>1. GrownBy(file', file, line, write)
      BY <1>2, <1>6, JsonlAppendLines DEF TypeOK
    <3>2. QED
      BY <3>1, BareLine DEF GrownBy
  <2>4. RecordsBehind'
    BY <1>1, <1>6, <2>3 DEF RecordsBehind, InFlightUnwritten
  <2>5. ASSUME NEW m \in Keys, states'[m] # NoState, write = "ok"
        PROVE  states'[m].src # line.src
    <3>1. m # k
      BY <2>5, <1>2, <1>6
    <3>2. QED
      BY <3>1, <1>1, <1>4, <1>6, <2>5 DEF InFlightUnwritten
  <2>6. InFlightUnwritten'
    <3>1. SUFFICES ASSUME NEW m \in Keys, states'[m] # NoState
                   PROVE  /\ stream[states'[m].src].key = m
                          /\ states'[m].src < pos
                          /\ \A j \in 1 .. Len(file') :
                               file'[j].kind = "answers" /\ file'[j].src = states'[m].src
                                 => j = Len(file') /\ ~file'[j].ended
      BY DEF InFlightUnwritten
    <3>2. states[m] # NoState /\ states'[m].src = states[m].src
      BY <3>1, <1>4
    <3>3. ASSUME NEW j \in 1 .. Len(file'), file'[j].kind = "answers",
                 file'[j].src = states'[m].src
          PROVE  j = Len(file') /\ ~file'[j].ended
      <4>1. CASE j \in 1 .. Len(file) /\ file'[j] = file[j]
                 /\ (j = Len(file) /\ ~file[j].ended => j = Len(file'))
        BY <4>1, <3>2, <3>3, <1>1 DEF InFlightUnwritten
      <4>2. CASE file'[j].src = line.src /\ j = Len(file')
                 /\ (write # "ok" => write = "bare" /\ ~file'[j].ended)
        BY <4>2, <3>1, <3>3, <2>5
      <4>3. QED
        BY <4>1, <4>2, <3>3, <2>3 DEF IsRecord
    <3>4. QED
      BY <3>2, <3>3, <1>1 DEF InFlightUnwritten
  <2>7. QED
    BY <2>2, <2>4, <2>6
<1>7. QED
  BY <1>5, <1>6 DEF Effect

\* A record of the sample the loop is at, and then the loop goes on or raises.
LEMMA OnceInvWriteHere ==
    ASSUME OnceInv, TypeOK, New, UNCHANGED stream, completed \subseteq completed',
           NEW line \in Line, NEW write \in {"ok", "lost", "torn", "bare"},
           line.src = pos, file' = JsonlAppend(file, line, write),
           pos' = IF write = "ok" THEN pos + 1 ELSE pos,
           write # "ok" => pc' = "raised",
           \A k \in Keys :
             \/ states'[k] = states[k]
             \/ /\ k = Sample.key /\ states'[k].src = pos /\ line.kind = "load"
    PROVE  OnceInv'
<1> SUFFICES ASSUME DistinctKeys
             PROVE  /\ LoadThenAnswers(file')
                    /\ pc' # "raised" => InFlightUnwritten' /\ RecordsBehind'
  BY DEF OnceInv, DistinctKeys, LoadThenAnswers
<1>1. LoadThenAnswers(file) /\ InFlightUnwritten /\ RecordsBehind
  BY DEF OnceInv, New, Reading
<1>2. pos \in 1 .. N /\ pos \in Nat
  BY SampleType, SchedulerAssumption DEF New
<1>3. \A j \in 1 .. Len(file) : file[j] \in Line
  BY ElementOfSeq DEF TypeOK
<1>4. \A j \in 1 .. Len(file) : IsRecord(file[j]) => file[j].src \in Nat /\ file[j].src # pos
  BY <1>1, <1>2, <1>3, SchedulerAssumption DEF RecordsBehind, Line, New, Sample
<1>5. LoadThenAnswers(file')
  <2>1. \A j \in 1 .. Len(file) : IsRecord(file[j]) => file[j].src # line.src
    BY <1>2, <1>4
  <2>2. QED
    BY <1>1, <2>1, LoadThenAnswersKept DEF TypeOK
<1>6. ASSUME write = "ok" PROVE InFlightUnwritten' /\ RecordsBehind'
  <2>1. GrownBy(file', file, line, write)
    BY JsonlAppendLines DEF TypeOK
  <2>2. \A j \in 1 .. Len(file') :
          IsRecord(file'[j]) =>
            \/ /\ j \in 1 .. Len(file) /\ file'[j] = file[j]
               /\ j = Len(file) /\ ~file[j].ended => j = Len(file')
            \/ file'[j] = line
    BY <1>6, <2>1 DEF GrownBy
  <2>3. pos' = pos + 1
    BY <1>6
  <2>4. RecordsBehind'
    BY <1>1, <1>2, <1>4, <2>2, <2>3 DEF RecordsBehind
  <2>5. \A k \in Keys : states[k] # NoState => states[k].src \in Nat
    BY SchedulerAssumption DEF TypeOK, SampleState
  <2>6. ASSUME NEW k \in Keys, states'[k] # NoState
        PROVE  /\ stream[states'[k].src].key = k
               /\ states'[k].src < pos + 1
               /\ \A j \in 1 .. Len(file') :
                    file'[j].kind = "answers" /\ file'[j].src = states'[k].src
                      => j = Len(file') /\ ~file'[j].ended
    <3>1. CASE states'[k] = states[k]
      <4>1. /\ states[k] # NoState
            /\ stream[states[k].src].key = k /\ states[k].src < pos /\ states[k].src \in Nat
            /\ \A j \in 1 .. Len(file) :
                 file[j].kind = "answers" /\ file[j].src = states[k].src
                   => j = Len(file) /\ ~file[j].ended
        BY <3>1, <2>6, <1>1, <2>5 DEF InFlightUnwritten
      <4>2. \A j \in 1 .. Len(file') :
               file'[j].kind = "answers" /\ file'[j].src = states'[k].src
                 => j = Len(file') /\ ~file'[j].ended
        BY <4>1, <3>1, <2>2, <1>2 DEF IsRecord
      <4>3. QED
        BY <4>1, <4>2, <3>1, <1>2
    <3>2. CASE k = Sample.key /\ states'[k].src = pos /\ line.kind = "load"
      <4>1. \A j \in 1 .. Len(file') :
               file'[j].kind = "answers" => file'[j].src # pos
        BY <3>2, <2>2, <1>2, <1>4 DEF IsRecord
      <4>2. QED
        BY <4>1, <3>2, <1>2 DEF Sample
    <3>3. QED
      BY <3>1, <3>2
  <2>7. QED
    BY <2>3, <2>4, <2>6 DEF InFlightUnwritten
<1>7. QED
  BY <1>5, <1>6

\* Before the first sample nothing is written or in flight.
LEMMA OnceInit == Init => OnceInv
<1> SUFFICES ASSUME Init PROVE OnceInv
  OBVIOUS
<1>1. Len(file) = 0 /\ \A k \in Keys : states[k] = NoState
  BY DEF Init
<1>2. QED
  BY <1>1 DEF OnceInv, LoadThenAnswers, InFlightUnwritten, RecordsBehind

\* Every step of a call keeps the order of a sample's records.
LEMMA OnceStep ==
    ASSUME TypeOK, OnceInv, [Next]_vars
    PROVE  OnceInv'
<1> USE WriteOutcomesType
<1>0. pos \in Nat /\ pos + 1 \in Nat
  BY SchedulerAssumption DEF TypeOK
<1>1. CASE SkipRecorded
  BY <1>0, <1>1, OnceInvFrame DEF SkipRecorded, Reading
<1>2. CASE StopReading
  BY <1>0, <1>2, OnceInvFrame DEF StopReading
<1>3. CASE RecordEmpty
  <2>1. New /\ Reading /\ UNCHANGED <<stream, states>>
    BY <1>3 DEF RecordEmpty, New
  <2>2. PICK write \in WriteOutcomes :
          /\ file' = JsonlAppend(file, AnswersLine(NewState(pos)), write)
          /\ pos' = IF write = "ok" THEN pos + 1 ELSE pos
          /\ write # "ok" => pc' = "raised"
          /\ completed \subseteq completed'
    BY <1>3 DEF RecordEmpty
  <2>3. AnswersLine(NewState(pos)) \in Line /\ AnswersLine(NewState(pos)).src = pos
    BY <2>1, SampleType
  <2> HIDE DEF AnswersLine, NewState
  <2>4. QED
    BY <2>1, <2>2, <2>3, OnceInvWriteHere
<1>4. ASSUME RecordLoadError, New, UNCHANGED stream,
             \A k \in Keys : \/ states'[k] = states[k]
                             \/ k = Sample.key /\ states'[k].src = pos
      PROVE  OnceInv'
  <2>1. PICK write \in WriteOutcomes :
          /\ file' = JsonlAppend(file, LoadLine(pos), write)
          /\ pos' = IF write = "ok" THEN pos + 1 ELSE pos
          /\ write # "ok" => pc' = "raised"
          /\ completed \subseteq completed'
    BY <1>4 DEF RecordLoadError
  <2>2. LoadLine(pos) \in Line /\ LoadLine(pos).src = pos /\ LoadLine(pos).kind = "load"
    BY <1>4, SampleType DEF New
  <2>3. QED
    BY <1>4, <2>1, <2>2, OnceInvWriteHere
<1>5. CASE LoadFails
  BY <1>4, <1>5 DEF LoadFails, New
<1>6. ASSUME Reading, states' = [states EXCEPT ![Sample.key] = Admission.state]
      PROVE  \A k \in Keys : states'[k] = IF k = Sample.key THEN Admission.state ELSE states[k]
  BY <1>6 DEF TypeOK
<1>7. Reading => Admission.state.src = pos
  BY SampleType, EnqueueType DEF Admission, TypeOK
<1>8. CASE Admit
  <2>1. /\ Reading /\ UNCHANGED <<stream, file, completed>> /\ pos' = pos + 1
        /\ \A k \in Keys : states'[k] = IF k = Sample.key THEN Admission.state ELSE states[k]
    BY <1>6, <1>8 DEF Admit, New
  <2>2. SUFFICES ASSUME DistinctKeys
                 PROVE  LoadThenAnswers(file) /\ InFlightUnwritten' /\ RecordsBehind'
    BY <2>1 DEF OnceInv, DistinctKeys, LoadThenAnswers
  <2>3. LoadThenAnswers(file) /\ InFlightUnwritten /\ RecordsBehind
    BY <2>1, <2>2 DEF OnceInv, Reading
  <2>4. \A j \in 1 .. Len(file) : file[j] \in Line
    BY ElementOfSeq DEF TypeOK
  <2>5. \A j \in 1 .. Len(file) : IsRecord(file[j]) => file[j].src \in Nat /\ file[j].src # pos
    <3>1. stream[pos].key \notin completed
      BY <1>8 DEF Admit, New, Sample
    <3>2. \A j \in 1 .. Len(file) : file[j].src \in Nat
      BY <2>4, SchedulerAssumption DEF Line
    <3>3. QED
      BY <1>0, <2>3, <3>1, <3>2 DEF RecordsBehind
  <2>6. RecordsBehind'
    BY <1>0, <2>1, <2>3, <2>5 DEF RecordsBehind
  <2>7. \A k \in Keys : states[k] # NoState => states[k].src \in Nat
    BY SchedulerAssumption DEF TypeOK, SampleState
  <2>8. ASSUME NEW k \in Keys, states'[k] # NoState
        PROVE  /\ stream[states'[k].src].key = k
               /\ states'[k].src < pos + 1
               /\ \A j \in 1 .. Len(file) :
                    file[j].kind = "answers" /\ file[j].src = states'[k].src
                      => j = Len(file) /\ ~file[j].ended
    <3>1. CASE k = Sample.key
      BY <3>1, <1>0, <1>7, <2>1, <2>5 DEF Sample, IsRecord
    <3>2. CASE k # Sample.key
      BY <3>2, <1>0, <2>1, <2>3, <2>7, <2>8 DEF InFlightUnwritten
    <3>3. QED
      BY <3>1, <3>2
  <2>9. QED
    BY <2>1, <2>3, <2>6, <2>8 DEF InFlightUnwritten
<1>9. CASE AdmitFails
  BY <1>4, <1>6, <1>7, <1>9 DEF AdmitFails, New
<1>10. CASE DrainFlush
  BY <1>0, <1>10, OnceInvFrame DEF DrainFlush
<1>11. ASSUME NEW k \in Keys, Fallback(k) PROVE OnceInv'
  <2>1. states[k] # NoState /\ states[k] \in SampleState /\ pc # "raised"
    BY <1>11 DEF Fallback, TypeOK
  <2>2. PICK write \in WriteOutcomes :
           /\ file' = JsonlAppend(file, AnswersLine(states[k]), write)
           /\ states' = [states EXCEPT ![k] = IF write = "ok" THEN NoState ELSE states[k]]
    BY <1>11 DEF Fallback, TypeOK
  <2> DEFINE o == [ok |-> TRUE, state |-> IF write = "ok" THEN NoState ELSE states[k],
                   tasks |-> <<>>, file |-> file']
  <2>3. AnswersLine(states[k]) \in Line /\ AnswersLine(states[k]).kind = "answers"
        /\ AnswersLine(states[k]).src = states[k].src /\ AnswersLine(states[k]).ended
    BY <2>1 DEF AnswersLine, Line, SampleState
  <2>4. <<>> \in Seq(Task) /\ follow \o <<>> = follow
    BY EmptySeq, ConcatEmptySeq DEF TypeOK
  <2>5. Effect(k, o, write)
    BY <2>1, <2>2, <2>3, <2>4 DEF Effect
  <2>6. Store(o, k)
    BY <1>11, <2>2, <2>4 DEF Store, Fallback, queueVars
  <2> HIDE DEF o
  <2>7. UNCHANGED <<stream, pos, completed>>
    BY <1>11 DEF Fallback
  <2>8. QED
    BY <2>1, <2>5, <2>6, <2>7, OnceInvStore
<1>12. CASE Return
  BY <1>0, <1>12, OnceInvFrame DEF Return
<1>13. CASE Generate
  BY <1>0, <1>13, OnceInvFrame DEF Generate
<1>14. CASE GenerateFails
  BY <1>0, <1>14, OnceInvFrame DEF GenerateFails
<1>15. ASSUME pc \in {"apply", "single"}, MoreTasks, UNCHANGED <<stream, pos, completed>>,
              NEW answer \in Answers, NEW write \in WriteOutcomes,
              Store(Success(CurrentTask, answer, write), CurrentTask.key)
       PROVE  OnceInv'
  <2>1. CurrentTask \in Task /\ CurrentTask.key \in Keys
    BY <1>15, CurrentTaskType DEF TypeOK, MoreTasks, Task
  <2>2. Effect(CurrentTask.key, Success(CurrentTask, answer, write), write)
    BY <2>1, SuccessEffect
  <2>3. QED
    BY <1>15, <2>1, <2>2, OnceInvStore
<1>16. CASE ApplyOutput
  BY <1>15, <1>16 DEF ApplyOutput
<1>17. CASE AskAlone
  BY <1>15, <1>17 DEF AskAlone
<1>18. CASE AskAloneFails
  BY <1>0, <1>18, OnceInvFrame DEF AskAloneFails
<1>19. CASE RecordError
  <2>1. CurrentTask \in Task /\ CurrentTask.key \in Keys
    BY <1>19, CurrentTaskType DEF RecordError, TypeOK, Task
  <2>2. PICK write \in WriteOutcomes : Store(Failure(CurrentTask, write), CurrentTask.key)
    BY <1>19 DEF RecordError
  <2>3. Effect(CurrentTask.key, Failure(CurrentTask, write), write)
    BY <2>1, FailureEffect
  <2>4. pc # "raised" /\ UNCHANGED <<stream, pos, completed>>
    BY <1>19 DEF RecordError
  <2>5. QED
    BY <2>1, <2>2, <2>3, <2>4, OnceInvStore
<1>20. CASE EndFlush
  BY <1>0, <1>20, OnceInvFrame DEF EndFlush
<1>21. CASE UNCHANGED vars
  BY <1>0, <1>21, OnceInvFrame DEF vars
<1>22. QED
  BY <1>1, <1>2, <1>3, <1>5, <1>8, <1>9, <1>10, <1>11, <1>12, <1>13, <1>14, <1>16,
     <1>17, <1>18, <1>19, <1>20, <1>21
     DEF Next, ReadStep, DrainStep, FlushStep, Finished

\* Two records of one sample can only be a load error and its later answers: with
\* unambiguous ids, no recovery, repetition or fallback writes answers twice.
THEOREM WrittenAtMostOnce == Spec => []DuplicateOnlyAfterLoadError
<1>1. OnceInv => DuplicateOnlyAfterLoadError
  BY DEF OnceInv, DuplicateOnlyAfterLoadError
<1>2. QED
  BY <1>1, OnceInit, OnceStep, TypeInit, TypeStep, PTL DEF Spec
=============================================================================
