--------------------------- MODULE EvalResumeProofs ---------------------------
(***************************************************************************)
(* What survives killed, resumed and overwritten runs, for every dataset,  *)
(* every number of runs and every combination of faults.                   *)
(***************************************************************************)
EXTENDS EvalResume, EvalSchedulerProofs

USE DEF job

-----------------------------------------------------------------------------
(* The file of a step. *)

Writes(line, write) ==
    line \in Line /\ write \in {"ok", "lost", "torn", "bare"} /\ file' = JsonlAppend(file, line, write)

\* jsonl_append leaves the lines there are, but for a last one without newline.
Shaped(g, f, line, write) ==
    /\ write = "lost" => g = f
    /\ \A j \in 1 .. Len(f) : j # Len(f) \/ f[j].ended => j \in 1 .. Len(g) /\ g[j] = f[j]
    /\ write # "lost" /\ ~Unended(f) =>
         /\ Len(g) = Len(f) + 1
         /\ write = "ok" => g[Len(g)] = line
         /\ write = "torn" => g[Len(g)] = Torn
         /\ write = "bare" => g[Len(g)] = Bare(line)
    /\ write # "lost" /\ Unended(f) =>
         /\ Len(f) \in 1 .. Len(f) /\ Len(g) = Len(f)
         /\ ~IsRecord(g[Len(f)]) /\ (g[Len(f)].ended <=> write = "ok")

LEMMA JsonlAppendShape ==
    ASSUME NEW f \in Seq(Line), NEW line \in Line, NEW write \in {"ok", "lost", "torn", "bare"}
    PROVE  Shaped(JsonlAppend(f, line, write), f, line, write)
<1> DEFINE g == JsonlAppend(f, line, write)
<1> SUFFICES Shaped(g, f, line, write)
  OBVIOUS
<1>1. CASE write = "lost"
  BY <1>1 DEF JsonlAppend, Shaped
<1>2. ASSUME NEW new \in Line, NEW both \in Line, ~IsRecord(both), g = Glued(f, new, both),
             write # "lost", both.ended <=> write = "ok",
             new = IF write = "ok" THEN line ELSE IF write = "torn" THEN Torn ELSE Bare(line)
      PROVE  Shaped(g, f, line, write)
  <2>0. GluedTo(g, f, new, both)
    BY <1>2, GluedLines
  <2>1. /\ g \in Seq(Line) /\ Len(f) \in Nat
        /\ \A j \in 1 .. Len(f) : j # Len(f) \/ f[j].ended => g[j] = f[j]
        /\ ~Unended(f) => Len(g) = Len(f) + 1 /\ g[Len(f) + 1] = new
        /\ Unended(f) => Len(f) \in 1 .. Len(f) /\ Len(g) = Len(f) /\ g[Len(f)] = both
    BY <2>0 DEF GluedTo
  <2> HIDE DEF g
  <2>2. 1 .. Len(f) \subseteq 1 .. Len(g)
    BY <2>1
  <2>3. QED
    BY <1>2, <2>1, <2>2 DEF Shaped
<1>3. CASE write = "ok"
  BY <1>2, <1>3, BrokenLines DEF JsonlAppend, Written
<1>4. CASE write = "torn"
  BY <1>2, <1>4, BrokenLines DEF JsonlAppend
<1>5. CASE write = "bare"
  BY <1>2, <1>5, BrokenLines, BareLine DEF JsonlAppend
<1>6. QED
  BY <1>1, <1>3, <1>4, <1>5

\* A step of a call leaves the file alone or is one jsonl_append.
LEMMA StepWrites ==
    ASSUME TypeOK, [Next]_vars
    PROVE  file' = file \/ \E line, write : Writes(line, write)
<1> USE WriteOutcomesType DEF Writes
<1>1. CASE RecordEmpty
  BY <1>1, SampleType DEF RecordEmpty, New
<1>2. ASSUME RecordLoadError, Reading
      PROVE  \E line, write : Writes(line, write)
  BY <1>2, SampleType DEF RecordLoadError
<1>3. CASE LoadFails \/ AdmitFails
  BY <1>2, <1>3 DEF LoadFails, AdmitFails, New
<1>4. ASSUME NEW k \in Keys, Fallback(k)
      PROVE  \E line, write : Writes(line, write)
  <2>1. AnswersLine(states[k]) \in Line
    BY <1>4 DEF Fallback, TypeOK, AnswersLine, Line, SampleState
  <2>2. QED
    BY <1>4, <2>1 DEF Fallback
<1>5. ASSUME NEW k \in Keys, NEW o, NEW write \in {"ok", "lost", "torn", "bare"},
             Effect(k, o, write), Store(o, k)
      PROVE  file' = file \/ \E line, w : Writes(line, w)
  BY <1>5 DEF Effect, Store
<1>6. CASE ApplyOutput \/ AskAlone
  <2>1. CurrentTask \in Task /\ CurrentTask.key \in Keys
    BY <1>6, CurrentTaskType DEF ApplyOutput, AskAlone, TypeOK, MoreTasks, Task
  <2>2. PICK answer \in Answers, write \in WriteOutcomes :
          Store(Success(CurrentTask, answer, write), CurrentTask.key)
    BY <1>6 DEF ApplyOutput, AskAlone
  <2>3. Effect(CurrentTask.key, Success(CurrentTask, answer, write), write)
    BY <2>1, SuccessEffect
  <2>4. QED
    BY <1>5, <2>1, <2>2, <2>3
<1>7. CASE RecordError
  <2>1. CurrentTask \in Task /\ CurrentTask.key \in Keys
    BY <1>7, CurrentTaskType DEF RecordError, TypeOK, Task
  <2>2. PICK write \in WriteOutcomes : Store(Failure(CurrentTask, write), CurrentTask.key)
    BY <1>7 DEF RecordError
  <2>3. Effect(CurrentTask.key, Failure(CurrentTask, write), write)
    BY <2>1, FailureEffect
  <2>4. QED
    BY <1>5, <2>1, <2>2, <2>3
<1>8. CASE SkipRecorded \/ StopReading \/ Admit \/ DrainFlush \/ Return
  BY <1>8 DEF SkipRecorded, StopReading, Admit, DrainFlush, Return
<1>9. CASE Generate \/ GenerateFails \/ AskAloneFails \/ EndFlush \/ UNCHANGED vars
  BY <1>9 DEF Generate, GenerateFails, AskAloneFails, EndFlush, vars
<1>10. QED
  BY <1>1, <1>3, <1>4, <1>6, <1>7, <1>8, <1>9
     DEF Next, ReadStep, DrainStep, FlushStep, Finished

\* What a killed write may be of: the sample the loop is at, or one in flight.
Due(line) ==
    /\ line \in Line
    /\ \/ New /\ line.src = pos
       \/ /\ line.kind = "answers"
          /\ \E k \in Keys : states[k] # NoState /\ line.src = states[k].src

LEMMA DueLinesType ==
    ASSUME TypeOK, NEW line \in DueLines
    PROVE  Due(line)
<1>1. ASSUME NEW k \in Keys, NEW s \in SampleState, states[k] # NoState, s.src = states[k].src,
             line = AnswersLine(s)
      PROVE  Due(line)
  <2>1. line \in Line /\ line.kind = "answers" /\ line.src = s.src
    BY <1>1 DEF AnswersLine, Line, SampleState
  <2>2. QED
    BY <1>1, <2>1 DEF Due
<1>2. CASE New /\ line \in {AnswersLine(NewState(pos)), LoadLine(pos)}
  BY <1>2, SampleType DEF Due, New
<1>3. CASE line \in {AnswersLine(states[k]) : k \in InFlight}
  BY <1>1, <1>3 DEF InFlight, TypeOK
<1>4. CASE /\ pc \in {"apply", "single", "except"} /\ MoreTasks /\ Found(CurrentTask)
           /\ line \in {AnswersLine(s) : s \in Settlings(CurrentTask)}
  <2> DEFINE t == CurrentTask
             k == CurrentTask.key
  <2>1. t \in Task /\ k \in Keys /\ t.q \in Nat \ {0}
    BY <1>4, CurrentTaskType DEF TypeOK, MoreTasks, Task
  <2>2. states[k] # NoState /\ states[k] \in SampleState /\ t.q \in Questions
    <3>1. states[k] # NoState /\ states[k] \in SampleState /\ t.q <= stream[states[k].src].n
      BY <1>4, <2>1 DEF Found, TypeOK
    <3>2. states[k].src \in 1 .. N
      BY <3>1 DEF SampleState
    <3>3. stream[states[k].src] \in SampleShape
      BY <3>2, SchedulerAssumption DEF TypeOK
    <3>4. stream[states[k].src].n \in 0 .. MaxQ
      BY <3>3 DEF SampleShape
    <3>5. QED
      BY <2>1, <3>1, <3>4, SchedulerAssumption DEF Questions
  <2>3. PICK s \in Settlings(CurrentTask) : line = AnswersLine(s)
    BY <1>4
  <2>4. s \in SampleState /\ s.src = states[k].src
    <3>1. CASE s = [states[k] EXCEPT !.errs = @ \cup {t.q}]
      BY <3>1, <2>2 DEF SampleState
    <3>2. ASSUME NEW answer \in Answers, s = [states[k] EXCEPT !.preds[t.q] = answer]
          PROVE  s \in SampleState /\ s.src = states[k].src
      BY <3>2, <2>2, SchedulerAssumption DEF SampleState, Predictions
    <3>3. QED
      BY <2>3, <3>1, <3>2 DEF Settlings
  <2>5. QED
    BY <1>1, <2>1, <2>2, <2>3, <2>4
<1>5. QED
  BY <1>2, <1>3, <1>4 DEF DueLines

-----------------------------------------------------------------------------
(* Type correctness over the runs. *)

LEMMA KillStep ==
    ASSUME TypeOK, Kill
    PROVE  /\ TypeOK'
           /\ \/ file' = file
              \/ \E line, write : Due(line) /\ write # "ok" /\ Writes(line, write)
<1>1. file' = file \/ \E line, write : Due(line) /\ write # "ok" /\ Writes(line, write)
  BY DueLinesType DEF Kill, Writes, Due
<1>2. file' \in Seq(Line)
  BY <1>1, JsonlAppendLines DEF TypeOK, Writes
<1>3. QED
  BY <1>1, <1>2 DEF Kill, TypeOK, queueVars, statVars

\* load_existing_sample_ids finds ids of the dataset.
LEMMA RecordedIdsType ==
    ASSUME TypeOK, NEW f \in Seq(Line)
    PROVE  RecordedIds(f) \subseteq Keys
<1>1. \A i \in 1 .. N : stream[i].key \in Keys
  BY SchedulerAssumption DEF TypeOK, SampleShape
<1>2. \A j \in 1 .. Len(f) : IsRecord(f[j]) => f[j].src \in 1 .. N
  <2>1. \A j \in 1 .. Len(f) : f[j] \in Line
    BY ElementOfSeq
  <2>2. QED
    BY <2>1 DEF Line, IsRecord
<1>3. QED
  BY <1>1, <1>2 DEF RecordedIds

LEMMA RestartStep ==
    ASSUME TypeOK, NEW overwrite \in BOOLEAN, Restart(overwrite)
    PROVE  TypeOK'
<1>1. file' \in Seq(Line) /\ <<>> \in Seq(Task) /\ stream' = stream
  BY EmptySeq DEF Restart, TypeOK
<1>2. completed' \subseteq Keys
  BY <1>1, RecordedIdsType DEF Restart, RecordedIds
<1>3. 1 \in 1 .. (N + 1) /\ runs' \in Nat
  BY SchedulerAssumption DEF Restart, TypeOK
<1>4. QED
  BY <1>1, <1>2, <1>3 DEF Restart, TypeOK

\* Every variable keeps its type over all runs.
LEMMA ResumeTypeStep ==
    ASSUME TypeOK, [ResumeNext]_vars
    PROVE  TypeOK'
BY TypeStep, KillStep, RestartStep, ResumeAssumption DEF ResumeNext

THEOREM RunsTypeCorrect == ResumeSpec => []TypeOK
BY TypeInit, ResumeTypeStep, PTL DEF ResumeSpec

-----------------------------------------------------------------------------
(* Records stay. *)

\* A readable record survives every step but the deletion of the file by a run that
\* was started with --overwrite: write failures, recoveries and kills included. The
\* exception is the last line, when its newline is missing: the next append ends up
\* on it, and it can no longer be read.
THEOREM RecordsAreKept == ResumeSpec => RecordsPersist
<1> DEFINE Kept ==
      \A j \in 1 .. Len(file) :
        IsRecord(file[j]) =>
          \/ j <= Len(file') /\ file'[j] = file[j]
          \/ Unended(file) /\ j = Len(file) /\ j = Len(file') /\ ~IsRecord(file'[j])
          \/ TRUE \in Overwrites /\ runs' = runs + 1 /\ file' = <<>>
<1>1. ASSUME TypeOK, [ResumeNext]_vars PROVE Kept
  <2>0. Len(file) \in Nat
    BY <1>1, LenProperties DEF TypeOK
  <2>1. ASSUME file' = file PROVE Kept
    <3>1. \A j \in 1 .. Len(file) : j <= Len(file)
      BY <2>0
    <3>2. QED
      BY <2>1, <3>1
  <2>2. ASSUME NEW line, NEW write, Writes(line, write) PROVE Kept
    <3>1. SUFFICES ASSUME NEW j \in 1 .. Len(file), IsRecord(file[j])
                   PROVE  \/ j <= Len(file') /\ file'[j] = file[j]
                          \/ Unended(file) /\ j = Len(file) /\ j = Len(file') /\ ~IsRecord(file'[j])
      OBVIOUS
    <3>2. Shaped(file', file, line, write)
      BY <1>1, <2>2, JsonlAppendShape DEF TypeOK, Writes
    <3>3. CASE write = "lost" \/ j # Len(file) \/ file[j].ended
      BY <2>0, <3>1, <3>2, <3>3 DEF Shaped
    <3>4. CASE write # "lost" /\ j = Len(file) /\ ~file[j].ended
      <4>1. Unended(file)
        BY <2>0, <3>4 DEF Unended
      <4>2. QED
        BY <3>2, <3>4, <4>1 DEF Shaped
    <3>5. QED
      BY <3>3, <3>4
  <2>3. ASSUME NEW overwrite \in Overwrites, Restart(overwrite) PROVE Kept
    <3>1. CASE overwrite
      BY <2>3, <3>1, ResumeAssumption DEF Restart
    <3>2. CASE ~overwrite
      BY <2>1, <2>3, <3>2 DEF Restart
    <3>3. QED
      BY <3>1, <3>2, ResumeAssumption
  <2>4. CASE [Next]_vars
    <3>1. file' = file \/ \E line, write : Writes(line, write)
      BY <1>1, <2>4, StepWrites
    <3>2. QED
      BY <3>1, <2>1, <2>2
  <2>5. CASE Kill
    BY <1>1, <2>1, <2>2, <2>5, KillStep
  <2>6. QED
    BY <1>1, <2>3, <2>4, <2>5 DEF ResumeNext
<1>2. QED
  BY <1>1, TypeInit, ResumeTypeStep, PTL DEF ResumeSpec, RecordsPersist

-----------------------------------------------------------------------------
(* Over all runs a sample's answers are written at most once. *)

LEMMA KillOnce ==
    ASSUME TypeOK, OnceInv, Kill
    PROVE  OnceInv'
<1> SUFFICES ASSUME DistinctKeys PROVE LoadThenAnswers(file')
  BY DEF OnceInv, DistinctKeys, LoadThenAnswers, Kill
<1>1. LoadThenAnswers(file)
  BY DEF OnceInv
<1>2. CASE file' = file
  BY <1>1, <1>2
<1>3. ASSUME NEW line, NEW write, Due(line), Writes(line, write) PROVE LoadThenAnswers(file')
  <2>1. InFlightUnwritten /\ RecordsBehind
    BY DEF OnceInv, Kill, Over
  <2>2. \A j \in 1 .. Len(file) :
          IsRecord(file[j]) /\ file[j].src = line.src /\ (j # Len(file) \/ file[j].ended)
            => file[j].kind = "load" /\ line.kind = "answers"
    <3>1. CASE New /\ line.src = pos
      <4>1. pos \in Nat
        BY SchedulerAssumption DEF TypeOK
      <4>2. QED
        BY <2>1, <3>1, <4>1 DEF RecordsBehind, New, Sample
    <3>2. CASE /\ line.kind = "answers"
               /\ \E k \in Keys : states[k] # NoState /\ line.src = states[k].src
      BY <2>1, <3>2 DEF InFlightUnwritten, IsRecord
    <3>3. QED
      BY <1>3, <3>1, <3>2 DEF Due
  <2>3. QED
    BY <1>1, <1>3, <2>2, LoadThenAnswersKept DEF Writes, TypeOK
<1>4. QED
  BY <1>2, <1>3, KillStep

\* What was in flight is forgotten, and what was recorded is read back.
LEMMA RestartOnce ==
    ASSUME TypeOK, OnceInv, NEW overwrite \in BOOLEAN, Restart(overwrite)
    PROVE  OnceInv'
<1>1. stream' = stream /\ \A k \in Keys : states'[k] = NoState
  BY DEF Restart
<1>2. file' = file \/ file' = <<>>
  BY DEF Restart
<1>3. DistinctKeys => LoadThenAnswers(file')
  <2>1. Len(<<>>) = 0
    OBVIOUS
  <2>2. QED
    BY <1>2, <2>1 DEF OnceInv, LoadThenAnswers
<1>4. RecordsBehind'
  <2>1. completed' = {stream[file'[j].src].key : j \in {l \in 1 .. Len(file') : IsRecord(file'[l])}}
    BY <1>1 DEF Restart, RecordedIds
  <2>2. QED
    BY <1>1, <2>1 DEF RecordsBehind
<1>5. InFlightUnwritten'
  BY <1>1 DEF InFlightUnwritten
<1>6. QED
  BY <1>1, <1>3, <1>4, <1>5 DEF OnceInv, DistinctKeys

LEMMA ResumeOnceStep ==
    ASSUME TypeOK, OnceInv, [ResumeNext]_vars
    PROVE  OnceInv'
BY OnceStep, KillOnce, RestartOnce, ResumeAssumption DEF ResumeNext

\* However often the program is killed and started again, two records of one sample
\* can only be a load error and its later answers.
THEOREM RunsWriteAtMostOnce == ResumeSpec => []DuplicateOnlyAfterLoadError
<1>1. OnceInv => DuplicateOnlyAfterLoadError
  BY DEF OnceInv, DuplicateOnlyAfterLoadError
<1>2. QED
  BY <1>1, OnceInit, TypeInit, ResumeOnceStep, ResumeTypeStep, PTL DEF ResumeSpec

-----------------------------------------------------------------------------
(* No sample is lost but by an unreadable line.                              *)
(*                                                                           *)
(* NothingLost speaks of a call that returns.  While it runs, an id the loop *)
(* went past may also be in flight; and a part of a line counts one          *)
(* unreadable line before its record is lost, which happens when the next    *)
(* record is appended to it.  A whole line without newline is one the call   *)
(* found (its id is in had) or of a sample in flight, which is written again. *)

EndsTorn(f) == Unended(f) /\ ~IsRecord(f[Len(f)])
EndsBare(f) == Unended(f) /\ IsRecord(f[Len(f)])
KeyOf(line) == stream[line.src].key

Missing == Passed \ (RecordedIds(file) \cup InFlight \cup had)
LostHad == had \ RecordedIds(file)
Allowance == IF EndsTorn(file) THEN 1 ELSE 0
CountInv == Cardinality(Missing) + Allowance <= Cardinality(Unreadable)
OwnKeys == \A k \in Keys : states[k] # NoState => stream[states[k].src].key = k
CompletedKnown == completed \subseteq had \cup Passed

HadInv ==
    /\ had \subseteq completed /\ InFlight \cap had = {}
    /\ \A k, m \in LostHad : k = m
    /\ LostHad # {} => Unreadable # {}
    /\ EndsBare(file) =>
         /\ KeyOf(file[Len(file)]) \in InFlight \cup had
         /\ KeyOf(file[Len(file)]) \in had => LostHad = {}

LostInv ==
    pc # "raised" =>
      /\ OwnKeys /\ CompletedKnown /\ HadInv /\ CountInv
      /\ pc = "done" => InFlight = {}

Finite ==
    /\ IsFiniteSet(Missing) /\ Cardinality(Missing) \in Nat
    /\ IsFiniteSet(Unreadable) /\ Cardinality(Unreadable) \in Nat

LEMMA CountsFinite == TypeOK => Finite
<1> SUFFICES ASSUME TypeOK PROVE Finite
  OBVIOUS
<1>1. IsFiniteSet(1 .. (pos - 1)) /\ IsFiniteSet(1 .. Len(file))
  <2>1. pos - 1 \in Int /\ 1 \in Int /\ Len(file) \in Int
    BY LenProperties, SchedulerAssumption DEF TypeOK
  <2>2. QED
    BY <2>1, FS_Interval
<1>2. IsFiniteSet(Passed)
  <2> DEFINE key(i) == stream[i].key
  <2>1. Passed = {key(i) : i \in 1 .. (pos - 1)}
    BY DEF Passed
  <2> DEFINE f == [i \in 1 .. (pos - 1) |-> key(i)]
  <2>2. f \in Surjection(1 .. (pos - 1), Passed)
    BY <2>1 DEF Surjection
  <2>3. QED
    BY <1>1, <2>2, FS_Surjection
<1>3. IsFiniteSet(Missing)
  BY <1>2, FS_Subset DEF Missing
<1>4. IsFiniteSet(Unreadable)
  BY <1>1, FS_Subset DEF Unreadable
<1>5. QED
  BY <1>3, <1>4, FS_CardinalityType DEF Finite

LEMMA CountsFiniteNext == TypeOK' => Finite'
BY CountsFinite, PTL

Unread(f) == {j \in 1 .. Len(f) : ~IsRecord(f[j])}

\* What appending a record does to the ids that can be read and to the lines that cannot.
Counted(g, f, line, write) ==
    /\ write = "lost" => g = f
    /\ \A k \in RecordedIds(f) :
         k \in RecordedIds(g) \/ (write # "lost" /\ EndsBare(f) /\ k = KeyOf(f[Len(f)]))
    /\ Unread(f) \subseteq Unread(g)
    /\ write # "lost" /\ EndsBare(f) => Len(f) \in Unread(g) \ Unread(f)
    /\ write = "ok" => ~Unended(g) /\ (~Unended(f) => KeyOf(line) \in RecordedIds(g))
    /\ write \in {"torn", "bare"} /\ Unended(f) => EndsTorn(g)
    /\ write = "torn" /\ ~Unended(f) => EndsTorn(g) /\ Len(g) \in Unread(g) \ Unread(f)
    /\ write = "bare" /\ ~Unended(f) => EndsBare(g) /\ KeyOf(g[Len(g)]) = KeyOf(line)

LEMMA AppendCounts ==
    ASSUME NEW f \in Seq(Line), NEW line \in Line, IsRecord(line), line.ended,
           NEW write \in {"ok", "lost", "torn", "bare"}
    PROVE  Counted(JsonlAppend(f, line, write), f, line, write)
<1> DEFINE g == JsonlAppend(f, line, write)
<1> SUFFICES Counted(g, f, line, write)
  OBVIOUS
<1>0. /\ Shaped(g, f, line, write) /\ Len(f) \in Nat /\ Len(g) \in Nat
      /\ \A j \in 1 .. Len(f) : f[j] \in Line
  BY JsonlAppendShape, JsonlAppendLines, LenProperties, ElementOfSeq
<1> HIDE DEF g
<1>1. CASE write = "lost"
  BY <1>0, <1>1 DEF Counted, Shaped
<1>2. ASSUME NEW k \in RecordedIds(f)
      PROVE  k \in RecordedIds(g) \/ (write # "lost" /\ EndsBare(f) /\ k = KeyOf(f[Len(f)]))
  <2>1. PICK j \in 1 .. Len(f) : IsRecord(f[j]) /\ k = KeyOf(f[j])
    BY <1>2 DEF RecordedIds, KeyOf
  <2>2. CASE j # Len(f) \/ f[j].ended \/ write = "lost"
    <3>1. j \in 1 .. Len(g) /\ g[j] = f[j]
      BY <1>0, <2>2 DEF Shaped
    <3>2. QED
      BY <2>1, <3>1 DEF RecordedIds, KeyOf
  <2>3. CASE j = Len(f) /\ ~f[j].ended /\ write # "lost"
    BY <1>0, <2>1, <2>3 DEF EndsBare, Unended
  <2>4. QED
    BY <2>2, <2>3
<1>3. CASE write # "lost" /\ Unended(f)
  <2>1. /\ Len(f) \in 1 .. Len(f) /\ Len(g) = Len(f) /\ ~f[Len(f)].ended
        /\ ~IsRecord(g[Len(f)]) /\ (g[Len(f)].ended <=> write = "ok")
    BY <1>0, <1>3 DEF Shaped, Unended
  <2>2. Unread(f) \subseteq Unread(g)
    BY <1>0, <2>1 DEF Shaped, Unread
  <2>3. EndsBare(f) => Len(f) \in Unread(g) \ Unread(f)
    BY <2>1 DEF EndsBare, Unread
  <2>4. write = "ok" => ~Unended(g)
    BY <2>1 DEF Unended
  <2>5. write # "ok" => EndsTorn(g)
    BY <2>1, <1>0 DEF EndsTorn, Unended
  <2>6. QED
    BY <1>2, <1>3, <2>2, <2>3, <2>4, <2>5 DEF Counted
<1>4. CASE write # "lost" /\ ~Unended(f)
  <2>1. /\ Len(g) = Len(f) + 1 /\ Len(g) \in 1 .. Len(g) /\ ~EndsBare(f)
        /\ \A j \in 1 .. Len(f) : j \in 1 .. Len(g) /\ g[j] = f[j]
        /\ Len(g) \notin 1 .. Len(f)
    <3>1. \A j \in 1 .. Len(f) : j # Len(f) \/ f[j].ended
      BY <1>0, <1>4 DEF Unended
    <3>2. QED
      BY <1>0, <1>4, <3>1 DEF Shaped, EndsBare
  <2>2. Unread(f) \subseteq Unread(g)
    BY <2>1 DEF Unread
  <2>3. CASE write = "ok"
    <3>1. g[Len(g)] = line
      BY <1>0, <1>4, <2>3 DEF Shaped
    <3>2. ~Unended(g) /\ KeyOf(line) \in RecordedIds(g)
      BY <2>1, <3>1 DEF Unended, RecordedIds, KeyOf
    <3>3. QED
      BY <1>2, <2>1, <2>2, <2>3, <3>2 DEF Counted
  <2>4. CASE write = "torn"
    <3>1. g[Len(g)] = Torn
      BY <1>0, <1>4, <2>4 DEF Shaped
    <3>2. EndsTorn(g) /\ Len(g) \in Unread(g) \ Unread(f)
      BY <1>0, <2>1, <3>1, BrokenLines DEF EndsTorn, Unended, Unread
    <3>3. QED
      BY <1>2, <1>4, <2>1, <2>2, <2>4, <3>2 DEF Counted
  <2>5. CASE write = "bare"
    <3>1. g[Len(g)] = Bare(line)
      BY <1>0, <1>4, <2>5 DEF Shaped
    <3>2. EndsBare(g) /\ KeyOf(g[Len(g)]) = KeyOf(line)
      BY <1>0, <2>1, <3>1, BareLine DEF EndsBare, Unended, IsRecord, KeyOf
    <3>3. QED
      BY <1>2, <1>4, <2>1, <2>2, <2>5, <3>2 DEF Counted
  <2>6. QED
    BY <1>4, <2>3, <2>4, <2>5
<1>5. QED
  BY <1>1, <1>3, <1>4

\* A step without a write that leaves no further id behind.
LEMMA CountKept ==
    ASSUME TypeOK, CountInv, file' = file, Missing' \subseteq Missing
    PROVE  CountInv'
<1>1. Cardinality(Missing') <= Cardinality(Missing)
  BY CountsFinite, FS_Subset DEF Finite
<1>2. Cardinality(Missing') \in Nat
  BY CountsFinite, FS_Subset, FS_CardinalityType DEF Finite
<1>3. Unreadable' = Unreadable /\ Allowance' = Allowance
  BY DEF Unreadable, Allowance, EndsTorn
<1>4. QED
  BY <1>1, <1>2, <1>3, CountsFinite DEF CountInv, Allowance, Finite

\* A jsonl_append of the record of one id, which may leave that id behind.
LEMMA CountWritten ==
    ASSUME TypeOK, TypeOK', HadInv, CountInv, stream' = stream, had' = had,
           NEW line \in Line, IsRecord(line), line.ended,
           NEW write \in {"ok", "lost", "torn", "bare"},
           file' = JsonlAppend(file, line, write),
           Passed' \ InFlight' \subseteq (Passed \ InFlight) \cup {KeyOf(line)},
           write # "ok" => Passed' \ InFlight' \subseteq Passed \ InFlight
    PROVE  CountInv'
<1>0. file \in Seq(Line)
  BY DEF TypeOK
<1>1. Counted(file', file, line, write)
  BY <1>0, AppendCounts
<1>2. Unread(file) = Unreadable /\ Unread(file') = Unreadable'
  BY DEF Unread, Unreadable
<1>3. Missing' = Passed' \ (RecordedIds(file') \cup InFlight' \cup had)
  BY DEF Missing, RecordedIds
<1>4. Allowance' = IF EndsTorn(file') THEN 1 ELSE 0
  BY DEF Allowance, EndsTorn
<1> DEFINE m == Cardinality(Missing)
           n == Cardinality(Missing')
           u == Cardinality(Unreadable)
           v == Cardinality(Unreadable')
           key == KeyOf(line)
<1>5. /\ IsFiniteSet(Missing) /\ IsFiniteSet(Missing') /\ m \in Nat /\ n \in Nat
      /\ IsFiniteSet(Unreadable) /\ IsFiniteSet(Unreadable') /\ u \in Nat /\ v \in Nat
  BY CountsFinite, CountsFiniteNext DEF Finite
<1>6. u <= v
  BY <1>1, <1>2, <1>5, FS_Subset DEF Counted
<1>7. ASSUME NEW l, l \in Unreadable' \ Unreadable PROVE u + 1 <= v
  <2>1. Cardinality(Unreadable \cup {l}) = u + 1
    BY <1>5, <1>7, FS_AddElement
  <2>2. Unreadable \cup {l} \subseteq Unreadable'
    BY <1>1, <1>2, <1>7 DEF Counted
  <2>3. Cardinality(Unreadable \cup {l}) <= Cardinality(Unreadable')
    BY <1>5, <2>2, FS_Subset
  <2>4. QED
    BY <2>1, <2>3
<1> HIDE DEF key
<1>8. Missing' \subseteq Missing \cup {key}
  <2> SUFFICES ASSUME NEW k, k \in Missing', k # key PROVE k \in Missing
    OBVIOUS
  <2>1. k \in Passed /\ k \notin InFlight /\ k \notin had /\ k \notin RecordedIds(file')
    BY <1>3 DEF key
  <2>2. k \notin RecordedIds(file)
    BY <1>1, <2>1 DEF Counted, HadInv
  <2>3. QED
    BY <2>1, <2>2 DEF Missing
<1>9. n <= m + 1
  <2>1. /\ IsFiniteSet(Missing \cup {key})
        /\ Cardinality(Missing \cup {key}) = IF key \in Missing THEN m ELSE m + 1
    BY <1>5, FS_AddElement
  <2>2. n <= Cardinality(Missing \cup {key})
    BY <1>8, <2>1, FS_Subset
  <2> HIDE DEF m, n
  <2>3. QED
    BY <1>5, <2>1, <2>2
<1>10. (write = "ok" => ~Unended(file)) => n <= m
  <2> SUFFICES ASSUME write = "ok" => ~Unended(file) PROVE n <= m
    OBVIOUS
  <2>1. Missing' \subseteq Missing
    <3> SUFFICES ASSUME NEW k, k \in Missing' PROVE k \in Missing
      OBVIOUS
    <3>1. CASE k # key
      BY <1>8, <3>1
    <3>2. CASE k = key /\ write = "ok"
      BY <1>1, <1>3, <3>2 DEF Counted, key
    <3>3. CASE k = key /\ write # "ok"
      <4>1. k \in Passed /\ k \notin InFlight /\ k \notin had /\ k \notin RecordedIds(file')
        BY <1>3, <3>3
      <4>2. k \notin RecordedIds(file)
        BY <1>1, <4>1 DEF Counted, HadInv
      <4>3. QED
        BY <4>1, <4>2 DEF Missing
    <3>4. QED
      BY <3>1, <3>2, <3>3
  <2>2. QED
    BY <1>5, <2>1, FS_Subset
<1>11. m + (IF EndsTorn(file) THEN 1 ELSE 0) <= u
  BY DEF CountInv, Allowance
<1>12. SUFFICES n + (IF EndsTorn(file') THEN 1 ELSE 0) <= v
  BY <1>4 DEF CountInv
<1> HIDE DEF m, n, u, v
<1>13. CASE write = "lost"
  <2>1. file' = file
    BY <1>1, <1>13 DEF Counted
  <2>2. QED
    BY <1>5, <1>6, <1>10, <1>11, <1>13, <2>1
<1>14. CASE write # "lost" /\ EndsBare(file)
  <2>1. u + 1 <= v
    BY <1>1, <1>2, <1>7, <1>14 DEF Counted
  <2>2. ~EndsTorn(file) /\ Unended(file)
    BY <1>14 DEF EndsBare, EndsTorn
  <2>3. write = "ok" => ~EndsTorn(file')
    BY <1>1 DEF Counted, EndsTorn
  <2>4. CASE write = "ok"
    BY <1>5, <1>9, <1>11, <2>1, <2>2, <2>3, <2>4
  <2>5. CASE write # "ok"
    BY <1>5, <1>10, <1>11, <2>1, <2>2, <2>5
  <2>6. QED
    BY <2>4, <2>5
<1>15. CASE write # "lost" /\ EndsTorn(file)
  <2>1. write = "ok" => ~EndsTorn(file')
    BY <1>1 DEF Counted, EndsTorn
  <2>2. CASE write = "ok"
    BY <1>5, <1>6, <1>9, <1>11, <1>15, <2>1, <2>2
  <2>3. CASE write # "ok"
    BY <1>5, <1>6, <1>10, <1>11, <1>15, <2>3
  <2>4. QED
    BY <2>2, <2>3
<1>16. CASE write # "lost" /\ ~Unended(file)
  <2>1. ~EndsTorn(file) /\ n <= m
    BY <1>10, <1>16 DEF EndsTorn
  <2>2. CASE write = "torn"
    <3>1. u + 1 <= v
      BY <1>1, <1>2, <1>7, <1>16, <2>2 DEF Counted
    <3>2. QED
      BY <1>5, <1>11, <2>1, <3>1
  <2>3. CASE write # "torn"
    <3>1. ~EndsTorn(file')
      BY <1>1, <1>16, <2>3 DEF Counted, EndsTorn, EndsBare
    <3>2. QED
      BY <1>5, <1>6, <1>11, <2>1, <3>1
  <2>4. QED
    BY <2>2, <2>3
<1>17. QED
  BY <1>13, <1>14, <1>15, <1>16 DEF EndsBare, EndsTorn

\* A step without a write that drops no entry, and adds none of an id found recorded.
LEMMA HadKept ==
    ASSUME HadInv, UNCHANGED <<stream, file, had>>, completed \subseteq completed',
           InFlight \subseteq InFlight', InFlight' \cap had = {}
    PROVE  HadInv'
<1>1. RecordedIds(file)' = RecordedIds(file) /\ LostHad' = LostHad /\ Unreadable' = Unreadable
  BY DEF RecordedIds, LostHad, Unreadable
<1>2. (EndsBare(file)' <=> EndsBare(file)) /\ KeyOf(file[Len(file)])' = KeyOf(file[Len(file)])
  BY DEF EndsBare, Unended, KeyOf
<1>3. had' = had /\ InFlight \cup had \subseteq InFlight' \cup had'
  OBVIOUS
<1>4. QED
  BY <1>1, <1>2, <1>3 DEF HadInv

\* A jsonl_append spoils at most the last line the call found.
LEMMA HadWritten ==
    ASSUME TypeOK, HadInv, stream' = stream, had' = had, completed \subseteq completed',
           InFlight' \cap had = {},
           NEW line \in Line, IsRecord(line), line.ended,
           NEW write \in {"ok", "lost", "torn", "bare"},
           file' = JsonlAppend(file, line, write),
           write # "ok" => InFlight \subseteq InFlight' /\ KeyOf(line) \in InFlight'
    PROVE  HadInv'
<1>1. Counted(file', file, line, write)
  BY AppendCounts DEF TypeOK
<1>2. Unread(file) = Unreadable /\ Unread(file') = Unreadable'
  BY DEF Unread, Unreadable
<1>3. /\ LostHad' = had \ RecordedIds(file') /\ KeyOf(file[Len(file)])' = KeyOf(file'[Len(file')])
      /\ (EndsBare(file)' <=> EndsBare(file'))
  BY DEF LostHad, RecordedIds, KeyOf, EndsBare, Unended
<1>4. CASE write = "lost"
  <2>1. file' = file
    BY <1>1, <1>4 DEF Counted
  <2>2. QED
    BY <1>4, <2>1, HadKept
<1>5. CASE write # "lost" /\ EndsBare(file)
  <2> DEFINE k == KeyOf(file[Len(file)])
  <2>1. LostHad' \subseteq LostHad \cup ({k} \cap had)
    BY <1>1, <1>3, <1>5 DEF Counted, LostHad
  <2>2. Unreadable' # {}
    BY <1>1, <1>2, <1>5 DEF Counted
  <2>3. ~EndsBare(file')
    <3>1. Unended(file)
      BY <1>5 DEF EndsBare
    <3>2. CASE write = "ok"
      BY <1>1, <3>2 DEF Counted, EndsBare
    <3>3. CASE write # "ok"
      BY <1>1, <1>5, <3>1, <3>3 DEF Counted, EndsBare, EndsTorn
    <3>4. QED
      BY <3>2, <3>3
  <2>4. k \in had => LostHad = {}
    BY <1>5 DEF HadInv
  <2>5. \A x, y \in LostHad' : x = y
    BY <2>1, <2>4 DEF HadInv
  <2>6. QED
    BY <1>3, <2>2, <2>3, <2>5 DEF HadInv
<1>6. CASE write # "lost" /\ ~EndsBare(file)
  <2>1. LostHad' \subseteq LostHad
    BY <1>1, <1>3, <1>6 DEF Counted, LostHad
  <2>2. LostHad' # {} => Unreadable' # {}
    BY <1>1, <1>2, <2>1 DEF Counted, HadInv
  <2>3. EndsBare(file') => KeyOf(file'[Len(file')]) \in InFlight'
    <3>1. CASE write = "bare" /\ ~Unended(file)
      BY <1>1, <3>1 DEF Counted
    <3>2. CASE write \in {"torn", "bare"} /\ Unended(file)
      BY <1>1, <3>2 DEF Counted, EndsBare, EndsTorn
    <3>3. CASE write = "torn" /\ ~Unended(file)
      BY <1>1, <3>3 DEF Counted, EndsBare, EndsTorn
    <3>4. CASE write = "ok"
      BY <1>1, <3>4 DEF Counted, EndsBare
    <3>5. QED
      BY <1>6, <3>1, <3>2, <3>3, <3>4
  <2>4. QED
    BY <1>3, <2>1, <2>2, <2>3 DEF HadInv
<1>7. QED
  BY <1>4, <1>5, <1>6

\* The loop goes to the next sample.
LEMMA PassedNext ==
    ASSUME TypeOK, Reading, stream' = stream, pos' = pos + 1
    PROVE  Passed' = Passed \cup {Sample.key}
<1>1. pos \in Nat /\ pos >= 1
  BY SchedulerAssumption DEF TypeOK
<1>2. 1 .. (pos' - 1) = 1 .. (pos - 1) \cup {pos}
  BY <1>1
<1>3. QED
  BY <1>2 DEF Passed, Sample

\* A step that leaves the file, the entries and the place of the loop alone.
LEMMA LostFrame ==
    ASSUME TypeOK, LostInv, pc # "raised",
           UNCHANGED <<stream, had, file, states, completed, pos>>,
           pc' = "done" => InFlight = {}
    PROVE  LostInv'
<1>1. Passed' = Passed /\ InFlight' = InFlight
  BY DEF Passed, InFlight
<1>2. RecordedIds(file)' = RecordedIds(file)
  BY DEF RecordedIds
<1>3. Missing' = Missing
  BY <1>1, <1>2 DEF Missing
<1>4. CountInv'
  BY <1>3, CountKept DEF LostInv
<1>5. OwnKeys'
  BY DEF LostInv, OwnKeys
<1>6. CompletedKnown'
  BY <1>1 DEF LostInv, CompletedKnown
<1>7. HadInv'
  <2>1. HadInv /\ InFlight \cap had = {}
    BY DEF LostInv, HadInv
  <2>2. QED
    BY <1>1, <2>1, HadKept
<1>8. QED
  BY <1>1, <1>4, <1>5, <1>6, <1>7 DEF LostInv

\* The sample the loop is at gets a record, and perhaps an entry before it.
LEMMA LostRecord ==
    ASSUME TypeOK, TypeOK', LostInv, New, stream' = stream, had' = had,
           pos' = pos + 1, pc' # "done",
           NEW line \in Line, IsRecord(line), line.ended, line.src = pos,
           file' = JsonlAppend(file, line, "ok"),
           completed' = completed \cup {Sample.key},
           \A k \in Keys :
             states'[k] = states[k] \/ (k = Sample.key /\ states'[k].src = pos /\ states'[k] # NoState)
    PROVE  LostInv'
<1>0. /\ OwnKeys /\ CompletedKnown /\ HadInv /\ CountInv /\ file \in Seq(Line)
      /\ Reading /\ Sample.key \notin completed /\ KeyOf(line) = Sample.key
  BY DEF LostInv, Reading, New, TypeOK, KeyOf, Sample
<1>1. Passed' = Passed \cup {Sample.key}
  BY <1>0, PassedNext
<1>2. InFlight \subseteq InFlight' /\ InFlight' \subseteq InFlight \cup {Sample.key}
  BY DEF InFlight
<1>3. HadInv'
  <2>1. InFlight' \cap had = {} /\ completed \subseteq completed'
    BY <1>0, <1>2 DEF HadInv
  <2>2. QED
    BY <1>0, <2>1, HadWritten
<1>4. OwnKeys'
  BY <1>0 DEF OwnKeys, Sample
<1>5. CompletedKnown'
  BY <1>0, <1>1 DEF CompletedKnown
<1>6. Passed' \ InFlight' \subseteq (Passed \ InFlight) \cup {KeyOf(line)}
  BY <1>0, <1>1, <1>2
<1>7. CountInv'
  BY <1>0, <1>6, CountWritten
<1>8. QED
  BY <1>3, <1>4, <1>5, <1>7 DEF LostInv

\* An outcome is applied: the entry stays, or is dropped with its record written.
LEMMA LostStore ==
    ASSUME TypeOK, TypeOK', LostInv, pc # "raised", pc' # "done",
           UNCHANGED <<stream, had, pos, completed>>,
           NEW k \in Keys, NEW o, NEW write \in {"ok", "lost", "torn", "bare"},
           Effect(k, o, write), Store(o, k)
    PROVE  LostInv'
<1>0. OwnKeys /\ CompletedKnown /\ HadInv /\ CountInv /\ file \in Seq(Line)
  BY DEF LostInv, TypeOK
<1>1. Passed' = Passed
  BY DEF Passed
<1>2. /\ file' = o.file
      /\ \A m \in Keys : states'[m] = IF m = k THEN o.state ELSE states[m]
  BY DEF Store, TypeOK
<1>3. o.state # NoState => states[k] # NoState /\ o.state.src = states[k].src
  BY DEF Effect
<1>4. OwnKeys'
  BY <1>0, <1>2, <1>3 DEF OwnKeys
<1>5. CASE o.file = file /\ (o.state = NoState => states[k] = NoState)
  <2>1. InFlight' = InFlight
    BY <1>2, <1>3, <1>5 DEF InFlight
  <2>2. RecordedIds(file)' = RecordedIds(file)
    BY <1>2, <1>5 DEF RecordedIds
  <2>3. CountInv'
    <3>1. Missing' = Missing /\ file' = file
      BY <1>1, <1>2, <1>5, <2>1, <2>2 DEF Missing
    <3>2. QED
      BY <1>0, <3>1, CountKept
  <2>4. CompletedKnown'
    BY <1>0, <1>1 DEF CompletedKnown
  <2>5. HadInv'
    <3>1. InFlight' \cap had = {}
      BY <1>0, <2>1 DEF HadInv
    <3>2. QED
      BY <1>0, <1>2, <1>5, <2>1, <3>1, HadKept
  <2>6. QED
    BY <1>4, <2>3, <2>4, <2>5 DEF LostInv
<1>6. ASSUME NEW line \in Line, line.kind = "answers", line.ended, states[k] # NoState,
             line.src = states[k].src, o.file = JsonlAppend(file, line, write),
             write = "ok" <=> o.state = NoState
      PROVE  LostInv'
  <2>1. IsRecord(line) /\ line.ended /\ file' = JsonlAppend(file, line, write)
    BY <1>2, <1>6 DEF IsRecord
  <2>2. KeyOf(line) = k /\ k \in InFlight
    BY <1>0, <1>6 DEF OwnKeys, KeyOf, InFlight
  <2>3. InFlight \ {k} \subseteq InFlight' /\ InFlight' \subseteq InFlight
    BY <1>2, <1>3 DEF InFlight
  <2>4. write # "ok" => InFlight \subseteq InFlight'
    BY <1>2, <1>6 DEF InFlight
  <2>5. CountInv'
    BY <1>0, <1>1, <2>1, <2>2, <2>3, <2>4, CountWritten
  <2>6. HadInv'
    <3>1. InFlight' \cap had = {}
      BY <1>0, <2>3 DEF HadInv
    <3>2. write # "ok" => InFlight \subseteq InFlight' /\ KeyOf(line) \in InFlight'
      BY <2>2, <2>4
    <3>3. QED
      BY <1>0, <1>6, <2>1, <3>1, <3>2, HadWritten
  <2>7. CompletedKnown'
    BY <1>0, <1>1 DEF CompletedKnown
  <2>8. QED
    BY <1>4, <2>5, <2>6, <2>7 DEF LostInv
<1>7. QED
  BY <1>5, <1>6 DEF Effect

LEMMA LostStep ==
    ASSUME TypeOK, LostInv, [Next]_vars
    PROVE  LostInv'
<1> SUFFICES ASSUME pc' # "raised" PROVE LostInv'
  BY DEF LostInv
<1> USE WriteOutcomesType
<1>0. TypeOK'
  BY TypeStep
<1>1. CASE SkipRecorded
  <2>1. /\ Reading /\ pc # "raised" /\ pc' # "done" /\ Sample.key \in completed
        /\ UNCHANGED <<stream, had, file, states, completed>> /\ pos' = pos + 1
    BY <1>1 DEF SkipRecorded, Reading
  <2>2. OwnKeys /\ CompletedKnown /\ HadInv /\ CountInv
    BY <2>1 DEF LostInv
  <2>3. Passed' = Passed \cup {Sample.key} /\ InFlight' = InFlight
    BY <2>1, PassedNext DEF InFlight
  <2>4. RecordedIds(file)' = RecordedIds(file)
    BY <2>1 DEF RecordedIds
  <2>5. Missing' \subseteq Missing
    BY <2>1, <2>2, <2>3, <2>4 DEF Missing, CompletedKnown
  <2>6. CountInv'
    BY <2>1, <2>2, <2>5, CountKept
  <2>7. OwnKeys' /\ CompletedKnown'
    BY <2>1, <2>2, <2>3 DEF OwnKeys, CompletedKnown
  <2>8. HadInv'
    <3>1. InFlight' \cap had = {}
      BY <2>2, <2>3 DEF HadInv
    <3>2. QED
      BY <2>1, <2>2, <2>3, <3>1, HadKept
  <2>9. QED
    BY <2>1, <2>6, <2>7, <2>8 DEF LostInv
<1>2. CASE StopReading
  BY <1>2, LostFrame DEF StopReading
<1>3. CASE RecordEmpty
  <2>1. New /\ Reading /\ stream' = stream /\ had' = had /\ states' = states
    BY <1>3 DEF RecordEmpty, New
  <2> DEFINE line == AnswersLine(NewState(pos))
  <2>2. line \in Line /\ IsRecord(line) /\ line.src = pos
    BY <2>1, SampleType DEF IsRecord
  <2>6. line.ended
    BY DEF AnswersLine
  <2> HIDE DEF line
  <2>3. /\ file' = JsonlAppend(file, line, "ok") /\ pos' = pos + 1
        /\ completed' = completed \cup {Sample.key} /\ pc' = pc
    BY <1>3 DEF RecordEmpty, line
  <2>4. pc' # "done"
    BY <2>1, <2>3 DEF Reading
  <2>5. QED
    BY <1>0, <2>1, <2>2, <2>3, <2>4, <2>6, LostRecord
<1>4. ASSUME RecordLoadError, New, stream' = stream, had' = had,
             \A k \in Keys :
               states'[k] = states[k] \/ (k = Sample.key /\ states'[k].src = pos /\ states'[k] # NoState)
      PROVE  LostInv'
  <2>1. /\ LoadLine(pos) \in Line /\ IsRecord(LoadLine(pos)) /\ LoadLine(pos).src = pos
        /\ Reading
    BY <1>4, SampleType DEF IsRecord, New
  <2>5. LoadLine(pos).ended
    BY DEF LoadLine
  <2>2. /\ file' = JsonlAppend(file, LoadLine(pos), "ok") /\ pos' = pos + 1
        /\ completed' = completed \cup {Sample.key} /\ pc' = pc
    BY <1>4 DEF RecordLoadError
  <2>3. pc' # "done"
    BY <2>1, <2>2 DEF Reading
  <2>4. QED
    BY <1>0, <1>4, <2>1, <2>2, <2>3, <2>5, LostRecord
<1>5. CASE LoadFails
  BY <1>4, <1>5 DEF LoadFails, New
<1>6. ASSUME Reading, states' = [states EXCEPT ![Sample.key] = Admission.state]
      PROVE  \A k \in Keys :
               \/ states'[k] = states[k]
               \/ k = Sample.key /\ states'[k].src = pos /\ states'[k] # NoState
  <2>1. Admission.state \in SampleState /\ Admission.state.src = pos
    BY <1>6, SampleType, EnqueueType DEF Admission, TypeOK
  <2>2. Admission.state # NoState
    BY <2>1, SchedulerAssumption
  <2>3. QED
    BY <1>6, <2>1, <2>2 DEF TypeOK
<1>7. CASE AdmitFails
  BY <1>4, <1>6, <1>7 DEF AdmitFails, New
<1>8. CASE Admit
  <2>1. /\ Reading /\ pc # "raised" /\ pc' # "done"
        /\ UNCHANGED <<stream, had, file, completed>> /\ pos' = pos + 1
        /\ states' = [states EXCEPT ![Sample.key] = Admission.state]
        /\ Sample.key \notin completed
    BY <1>8 DEF Admit, New, Reading
  <2>2. OwnKeys /\ CompletedKnown /\ HadInv /\ CountInv
    BY <2>1 DEF LostInv
  <2>3. \A k \in Keys :
          states'[k] = states[k] \/ (k = Sample.key /\ states'[k].src = pos /\ states'[k] # NoState)
    BY <1>6, <2>1
  <2>4. Sample.key \in InFlight'
    <3>1. Admission.state \in SampleState /\ Sample.key \in Keys
      BY <2>1, SampleType, EnqueueType DEF Admission, TypeOK
    <3>2. Admission.state # NoState
      BY <3>1, SchedulerAssumption
    <3>3. QED
      BY <2>1, <3>1, <3>2 DEF InFlight, TypeOK
  <2>5. InFlight \subseteq InFlight' /\ InFlight' \subseteq InFlight \cup {Sample.key}
    BY <2>3 DEF InFlight
  <2>6. Passed' = Passed \cup {Sample.key}
    BY <2>1, PassedNext
  <2>7. RecordedIds(file)' = RecordedIds(file)
    BY <2>1 DEF RecordedIds
  <2>8. Missing' \subseteq Missing
    BY <2>1, <2>4, <2>5, <2>6, <2>7 DEF Missing
  <2>9. CountInv'
    BY <2>1, <2>2, <2>8, CountKept
  <2>10. OwnKeys'
    BY <2>1, <2>2, <2>3 DEF OwnKeys, Sample
  <2>11. CompletedKnown'
    BY <2>1, <2>2, <2>6 DEF CompletedKnown
  <2>12. HadInv'
    <3>1. InFlight' \cap had = {}
      BY <2>1, <2>2, <2>5 DEF HadInv
    <3>2. QED
      BY <2>1, <2>2, <2>5, <3>1, HadKept
  <2>13. QED
    BY <2>1, <2>9, <2>10, <2>11, <2>12 DEF LostInv
<1>9. CASE DrainFlush
  BY <1>9, LostFrame DEF DrainFlush
<1>10. ASSUME NEW k \in Keys, Fallback(k) PROVE LostInv'
  <2>1. states[k] # NoState /\ states[k] \in SampleState /\ pc = "loop"
    BY <1>10 DEF Fallback, TypeOK
  <2>2. PICK write \in WriteOutcomes :
           /\ file' = JsonlAppend(file, AnswersLine(states[k]), write)
           /\ states' = [states EXCEPT ![k] = IF write = "ok" THEN NoState ELSE states[k]]
           /\ pc' \in {"loop", "raised"}
    BY <1>10 DEF Fallback, TypeOK
  <2> DEFINE o == [ok |-> TRUE, state |-> IF write = "ok" THEN NoState ELSE states[k],
                   tasks |-> <<>>, file |-> file']
  <2>3. AnswersLine(states[k]) \in Line /\ AnswersLine(states[k]).kind = "answers"
        /\ AnswersLine(states[k]).src = states[k].src /\ AnswersLine(states[k]).ended
    BY <2>1 DEF AnswersLine, Line, SampleState
  <2>4. <<>> \in Seq(Task) /\ follow \o <<>> = follow
    BY EmptySeq, ConcatEmptySeq DEF TypeOK
  <2>5. Effect(k, o, write)
    BY <2>1, <2>2, <2>3, <2>4 DEF Effect
  <2>6. Store(o, k)
    BY <1>10, <2>2, <2>4 DEF Store, Fallback, queueVars
  <2> HIDE DEF o
  <2>7. UNCHANGED <<stream, had, pos, completed>>
    BY <1>10 DEF Fallback
  <2>8. QED
    BY <1>0, <2>1, <2>2, <2>5, <2>6, <2>7, LostStore
<1>11. CASE Return
  BY <1>11, LostFrame DEF Return
<1>12. CASE Generate \/ GenerateFails
  BY <1>12, LostFrame DEF Generate, GenerateFails, RecoverOrRaise
<1>13. CASE ApplyOutput \/ AskAlone
  <2>1. CurrentTask \in Task /\ CurrentTask.key \in Keys
    BY <1>13, CurrentTaskType DEF ApplyOutput, AskAlone, TypeOK, MoreTasks, Task
  <2>2. PICK answer \in Answers, write \in WriteOutcomes :
          Store(Success(CurrentTask, answer, write), CurrentTask.key)
    BY <1>13 DEF ApplyOutput, AskAlone
  <2>3. Effect(CurrentTask.key, Success(CurrentTask, answer, write), write)
    BY <2>1, SuccessEffect
  <2>4. pc # "raised" /\ pc' # "done" /\ UNCHANGED <<stream, had, pos, completed>>
    BY <1>13 DEF ApplyOutput, AskAlone, RecoverOrRaise
  <2>5. QED
    BY <1>0, <2>1, <2>2, <2>3, <2>4, LostStore
<1>14. CASE AskAloneFails
  BY <1>14, LostFrame DEF AskAloneFails
<1>15. CASE RecordError
  <2>1. CurrentTask \in Task /\ CurrentTask.key \in Keys
    BY <1>15, CurrentTaskType DEF RecordError, TypeOK, Task
  <2>2. PICK write \in WriteOutcomes :
          /\ Store(Failure(CurrentTask, write), CurrentTask.key)
          /\ pc' \in {"single", "raised"}
    BY <1>15 DEF RecordError
  <2>3. Effect(CurrentTask.key, Failure(CurrentTask, write), write)
    BY <2>1, FailureEffect
  <2>4. pc # "raised" /\ UNCHANGED <<stream, had, pos, completed>>
    BY <1>15 DEF RecordError
  <2>5. QED
    BY <1>0, <2>1, <2>2, <2>3, <2>4, LostStore
<1>16. CASE EndFlush
  BY <1>16, LostFrame DEF EndFlush
<1>17. CASE UNCHANGED vars
  <2>1. UNCHANGED <<stream, had, file, states, completed, pos, pc>>
    BY <1>17 DEF vars
  <2>2. pc' = "done" => InFlight = {}
    BY <2>1 DEF LostInv
  <2>3. QED
    BY <2>1, <2>2, LostFrame
<1>18. QED
  BY <1>1, <1>2, <1>3, <1>5, <1>7, <1>8, <1>9, <1>10, <1>11, <1>12, <1>13, <1>14, <1>15,
     <1>16, <1>17 DEF Next, ReadStep, DrainStep, FlushStep, Finished

\* A new run starts from what the file says.
LEMMA RestartLost ==
    ASSUME TypeOK, NEW overwrite \in BOOLEAN, Restart(overwrite)
    PROVE  LostInv'
<1>1. stream' = stream /\ pos' = 1 /\ \A k \in Keys : states'[k] = NoState
  BY DEF Restart
<1>2. InFlight' = {} /\ OwnKeys'
  BY <1>1 DEF InFlight, OwnKeys
<1>3. CompletedKnown'
  BY DEF Restart, CompletedKnown
<1>4. Missing' = {}
  BY <1>1 DEF Missing, Passed
<1>5. TypeOK' /\ Finite'
  BY RestartStep, CountsFiniteNext
<1>6. EndsTorn(file') => Cardinality(Unreadable') # 0
  <2>1. ASSUME EndsTorn(file') PROVE Len(file') \in Unreadable'
    <3>1. Len(file') \in Nat
      BY <1>5, LenProperties DEF TypeOK
    <3>2. QED
      BY <2>1, <3>1 DEF EndsTorn, Unended, Unreadable
  <2>2. QED
    BY <2>1, <1>5, FS_EmptySet DEF Finite
<1>7. CountInv'
  <2>1. EndsTorn(file)' <=> EndsTorn(file')
    BY DEF EndsTorn, Unended
  <2>2. QED
    BY <1>4, <1>5, <1>6, <2>1, FS_EmptySet DEF CountInv, Allowance, Finite
<1>8. HadInv'
  <2>1. had' = RecordedIds(file') /\ completed' = had' /\ RecordedIds(file)' = RecordedIds(file')
    BY <1>1 DEF Restart, RecordedIds
  <2>2. LostHad' = {}
    BY <2>1 DEF LostHad
  <2>3. EndsBare(file)' => KeyOf(file[Len(file)])' \in had'
    <3>1. SUFFICES ASSUME EndsBare(file') PROVE KeyOf(file[Len(file)])' \in had'
      BY DEF EndsBare, Unended
    <3>2. Len(file') \in 1 .. Len(file') /\ IsRecord(file'[Len(file')])
      BY <1>5, <3>1, LenProperties DEF EndsBare, Unended, TypeOK
    <3>3. QED
      BY <1>1, <2>1, <3>2 DEF KeyOf, RecordedIds
  <2>4. QED
    BY <1>2, <2>1, <2>2, <2>3 DEF HadInv
<1>9. QED
  BY <1>2, <1>3, <1>7, <1>8 DEF LostInv

LEMMA LostInit == Init => LostInv
<1> SUFFICES ASSUME Init PROVE LostInv
  OBVIOUS
<1>1. /\ Passed = {} /\ Missing = {} /\ InFlight = {} /\ Unreadable = {} /\ Allowance = 0
      /\ ~EndsBare(file)
  BY DEF Init, Passed, Missing, InFlight, Unreadable, Allowance, EndsTorn, EndsBare, Unended
<1>2. CountInv
  BY <1>1, FS_EmptySet DEF CountInv
<1>3. HadInv
  BY <1>1 DEF Init, HadInv, LostHad
<1>4. QED
  BY <1>1, <1>2, <1>3 DEF Init, LostInv, OwnKeys, CompletedKnown

LEMMA ResumeLostStep ==
    ASSUME TypeOK, LostInv, [ResumeNext]_vars
    PROVE  LostInv'
<1>1. CASE Kill
  BY <1>1 DEF Kill, LostInv
<1>2. QED
  BY <1>1, LostStep, RestartLost, ResumeAssumption DEF ResumeNext

\* Of the ids a returning run went past, each has a readable record, but for one per
\* unreadable line, and for one that was found recorded in a last line without newline:
\* for every dataset, repeated ids included, and whatever was killed, cut off or could
\* not be written before.
THEOREM NoSampleLost == ResumeSpec => []NothingLost
<1>1. TypeOK /\ LostInv => NothingLost
  <2> SUFFICES ASSUME TypeOK, LostInv, pc = "done" PROVE NothingLost
    BY DEF NothingLost
  <2> DEFINE lost == Passed \ RecordedIds(file)
  <2>1. Missing = lost \ had /\ CountInv /\ HadInv
    BY DEF LostInv, Missing
  <2>2. Cardinality(lost \ had) <= Cardinality(Unreadable)
    BY <2>1, CountsFinite DEF CountInv, Allowance, Finite
  <2>3. lost \cap had \subseteq LostHad
    BY DEF LostHad
  <2>4. Cardinality(lost \cap had) <= IF Unreadable = {} THEN 0 ELSE 1
    <3>1. CASE lost \cap had = {}
      <4>1. Cardinality(lost \cap had) = 0
        BY <3>1, FS_EmptySet, Zenon
      <4> HIDE DEF lost
      <4>2. QED
        BY <4>1
    <3>2. CASE lost \cap had # {}
      <4>1. PICK k : lost \cap had = {k}
        BY <2>1, <2>3, <3>2 DEF HadInv
      <4>2. Unreadable # {}
        BY <2>1, <2>3, <3>2 DEF HadInv
      <4>3. Cardinality(lost \cap had) = 1
        BY <4>1, FS_Singleton, Zenon
      <4> HIDE DEF lost
      <4>4. QED
        BY <4>2, <4>3
    <3>3. QED
      BY <3>1, <3>2
  <2> HIDE DEF lost
  <2>5. QED
    BY <2>2, <2>4 DEF NothingLost, lost
<1>2. QED
  BY <1>1, LostInit, TypeInit, ResumeTypeStep, ResumeLostStep, PTL DEF ResumeSpec

-----------------------------------------------------------------------------
(* A capped job works through the dataset.                                   *)

CapInv ==
    (DistinctKeys /\ pc # "raised") =>
      /\ had \subseteq completed /\ completed \subseteq had \cup Passed
      /\ RecordedIds(file) \subseteq had \cup Passed
      /\ InFlight \subseteq Passed
      /\ processed = Cardinality(Passed \ had) /\ processed <= MaxSamples
      /\ pc = "done" => phase = "drain"
      /\ phase = "drain" => pos = N + 1 \/ processed = MaxSamples

LEMMA AppendIds ==
    ASSUME NEW f \in Seq(Line), NEW line \in Line, NEW write \in {"ok", "lost", "torn", "bare"}
    PROVE  RecordedIds(JsonlAppend(f, line, write)) \subseteq
             RecordedIds(f) \cup {stream[line.src].key}
<1> DEFINE g == JsonlAppend(f, line, write)
<1>1. GrownBy(g, f, line, write)
  BY JsonlAppendLines
<1> HIDE DEF g
<1>2. SUFFICES ASSUME NEW j \in 1 .. Len(g), IsRecord(g[j])
               PROVE  stream[g[j].src].key \in RecordedIds(f) \cup {stream[line.src].key}
  BY DEF RecordedIds, g
<1>3. QED
  BY <1>1, <1>2, BareLine DEF GrownBy, RecordedIds

LEMMA PassedFinite ==
    ASSUME TypeOK
    PROVE  IsFiniteSet(Passed)
<1> DEFINE f == [i \in 1 .. (pos - 1) |-> stream[i].key]
<1>1. IsFiniteSet(1 .. (pos - 1))
  <2>1. pos - 1 \in Int /\ 1 \in Int
    BY SchedulerAssumption DEF TypeOK
  <2>2. QED
    BY <2>1, FS_Interval
<1>2. f \in Surjection(1 .. (pos - 1), Passed)
  BY DEF Surjection, Passed
<1>3. QED
  BY <1>1, <1>2, FS_Surjection

\* A step that leaves the place of the loop alone, and may record what was in flight.
LEMMA CapFrame ==
    ASSUME TypeOK, CapInv, pc # "raised",
           UNCHANGED <<stream, had, pos, processed, completed, phase>>,
           RecordedIds(file)' \subseteq RecordedIds(file) \cup Passed,
           InFlight' \subseteq InFlight, pc' = "done" => phase = "drain"
    PROVE  CapInv'
<1>1. Passed' = Passed
  BY DEF Passed
<1>2. DistinctKeys' => DistinctKeys
  BY DEF DistinctKeys
<1>3. QED
  BY <1>1, <1>2 DEF CapInv

\* The ids before the place of the loop do not occur again.
LEMMA SampleFresh ==
    ASSUME TypeOK, DistinctKeys, Reading
    PROVE  Sample.key \notin Passed
<1>1. pos \in 1 .. N /\ pos \in Int /\ N \in Nat
  BY SchedulerAssumption DEF TypeOK, Reading
<1>2. QED
  BY <1>1 DEF DistinctKeys, Passed, Sample

\* A new sample gets an entry or a record.
LEMMA CapNew ==
    ASSUME TypeOK, CapInv, New, stream' = stream, had' = had, pos' = pos + 1,
           processed' = processed + 1, phase' = phase, pc' # "done",
           completed \subseteq completed', completed' \subseteq completed \cup {Sample.key},
           RecordedIds(file)' \subseteq RecordedIds(file) \cup {Sample.key},
           InFlight' \subseteq InFlight \cup {Sample.key}
    PROVE  CapInv'
<1> SUFFICES ASSUME DistinctKeys PROVE CapInv'
  BY DEF CapInv, DistinctKeys
<1>0. Reading /\ pc # "raised" /\ processed < MaxSamples /\ Sample.key \notin completed
  BY DEF New, Reading
<1>1. Passed' = Passed \cup {Sample.key}
  BY <1>0, PassedNext
<1>2. Sample.key \notin Passed
  BY <1>0, SampleFresh
<1>3. /\ had \subseteq completed /\ completed \subseteq had \cup Passed
      /\ RecordedIds(file) \subseteq had \cup Passed
      /\ InFlight \subseteq Passed /\ processed = Cardinality(Passed \ had)
  BY <1>0 DEF CapInv
<1>4. Passed' \ had = (Passed \ had) \cup {Sample.key} /\ Sample.key \notin Passed \ had
  BY <1>0, <1>1, <1>2, <1>3
<1>5. IsFiniteSet(Passed \ had)
  BY PassedFinite, FS_Subset
<1>6. Cardinality(Passed' \ had) = Cardinality(Passed \ had) + 1
  <2> DEFINE k == Sample.key
             S == Passed \ had
  <2>1. k \notin S /\ IsFiniteSet(S) /\ Passed' \ had = S \cup {k}
    BY <1>4, <1>5
  <2> HIDE DEF k, S
  <2>2. Cardinality(S \cup {k}) = Cardinality(S) + 1
    BY <2>1, FS_AddElement
  <2>3. QED
    BY <2>1, <2>2 DEF S
<1>7. processed' = Cardinality(Passed' \ had) /\ processed' <= MaxSamples
  BY <1>0, <1>3, <1>6, SchedulerAssumption DEF TypeOK
<1>8. phase' # "drain"
  BY <1>0 DEF Reading
<1>9. QED
  BY <1>1, <1>3, <1>7, <1>8 DEF CapInv

LEMMA CapStore ==
    ASSUME TypeOK, LostInv, CapInv, pc # "raised", pc' # "done",
           UNCHANGED <<stream, had, pos, processed, completed, phase>>,
           NEW k \in Keys, NEW o, NEW write \in {"ok", "lost", "torn", "bare"},
           Effect(k, o, write), Store(o, k)
    PROVE  CapInv'
<1> SUFFICES ASSUME DistinctKeys PROVE CapInv'
  BY DEF CapInv, DistinctKeys
<1>0. OwnKeys /\ InFlight \subseteq Passed /\ file \in Seq(Line)
  BY DEF LostInv, CapInv, TypeOK
<1>1. /\ file' = o.file
      /\ \A m \in Keys : states'[m] = IF m = k THEN o.state ELSE states[m]
  BY DEF Store, TypeOK
<1>2. InFlight' \subseteq InFlight
  BY <1>1 DEF Effect, InFlight
<1>3. RecordedIds(file)' = RecordedIds(file')
  BY DEF RecordedIds
<1>4. CASE o.file = file
  BY <1>1, <1>2, <1>3, <1>4, CapFrame
<1>5. ASSUME NEW line \in Line, line.kind = "answers", states[k] # NoState,
             line.src = states[k].src, o.file = JsonlAppend(file, line, write)
      PROVE  CapInv'
  <2>1. stream[line.src].key \in Passed
    BY <1>0, <1>5 DEF OwnKeys, InFlight
  <2>2. RecordedIds(file') \subseteq RecordedIds(file) \cup Passed
    BY <1>0, <1>1, <1>5, <2>1, AppendIds
  <2>3. QED
    BY <1>2, <1>3, <2>2, CapFrame
<1>6. QED
  BY <1>4, <1>5 DEF Effect

\* A sample is recorded by a write that succeeds.
LEMMA CapRecord ==
    ASSUME TypeOK, CapInv, New, stream' = stream, had' = had, pos' = pos + 1,
           processed' = processed + 1, phase' = phase, pc' # "done",
           completed' = completed \cup {Sample.key},
           NEW line \in Line, line.src = pos,
           file' = JsonlAppend(file, line, "ok"),
           InFlight' \subseteq InFlight \cup {Sample.key}
    PROVE  CapInv'
<1>1. file \in Seq(Line) /\ RecordedIds(file)' = RecordedIds(file')
  BY DEF TypeOK, RecordedIds
<1>2. RecordedIds(file') \subseteq RecordedIds(file) \cup {Sample.key}
  BY <1>1, AppendIds DEF Sample
<1>3. QED
  BY <1>1, <1>2, CapNew

LEMMA CapStep ==
    ASSUME TypeOK, LostInv, CapInv, [Next]_vars
    PROVE  CapInv'
<1> SUFFICES ASSUME pc' # "raised" PROVE CapInv'
  BY DEF CapInv
<1> USE WriteOutcomesType
<1>1. CASE SkipRecorded
  <2> SUFFICES ASSUME DistinctKeys PROVE CapInv'
    BY <1>1 DEF CapInv, DistinctKeys, SkipRecorded
  <2>1. /\ Reading /\ pc # "raised" /\ pc' # "done" /\ phase' # "drain" /\ Sample.key \in completed
        /\ UNCHANGED <<stream, had, file, states, completed, processed>> /\ pos' = pos + 1
    BY <1>1 DEF SkipRecorded, Reading
  <2>2. Passed' = Passed \cup {Sample.key} /\ InFlight' = InFlight
    BY <2>1, PassedNext DEF InFlight
  <2>3. Sample.key \in had
    BY <2>1, SampleFresh DEF CapInv
  <2>4. Passed' \ had = Passed \ had /\ RecordedIds(file)' = RecordedIds(file)
    BY <2>1, <2>2, <2>3 DEF RecordedIds
  <2>5. QED
    BY <2>1, <2>2, <2>4 DEF CapInv
<1>2. CASE StopReading
  <2> SUFFICES ASSUME DistinctKeys PROVE CapInv'
    BY <1>2 DEF CapInv, DistinctKeys, StopReading
  <2>1. /\ UNCHANGED <<stream, had, file, states, completed, processed, pos, pc>> /\ pc = "loop"
        /\ pos <= N => processed >= MaxSamples
    BY <1>2 DEF StopReading, queueVars, statVars
  <2>2. Passed' = Passed /\ InFlight' = InFlight /\ RecordedIds(file)' = RecordedIds(file)
    BY <2>1 DEF Passed, InFlight, RecordedIds
  <2>3. pos = N + 1 \/ processed >= MaxSamples
    BY <2>1, SchedulerAssumption DEF TypeOK
  <2>4. processed <= MaxSamples /\ processed \in Nat
    BY <2>1 DEF CapInv, TypeOK
  <2>5. pos = N + 1 \/ processed = MaxSamples
    BY <2>3, <2>4, SchedulerAssumption
  <2>6. QED
    BY <2>1, <2>2, <2>5 DEF CapInv
<1>3. CASE RecordEmpty
  <2>1. New /\ Reading /\ stream' = stream /\ states' = states /\ had' = had /\ phase' = phase
    BY <1>3 DEF RecordEmpty, New
  <2> DEFINE line == AnswersLine(NewState(pos))
  <2>2. line \in Line /\ IsRecord(line) /\ line.src = pos
    BY <2>1, SampleType DEF IsRecord
  <2> HIDE DEF line
  <2>3. /\ file' = JsonlAppend(file, line, "ok") /\ pos' = pos + 1 /\ processed' = processed + 1
        /\ completed' = completed \cup {Sample.key} /\ pc' = pc
    BY <1>3 DEF RecordEmpty, line
  <2>4. pc' # "done" /\ InFlight' = InFlight
    BY <2>1, <2>3 DEF Reading, InFlight
  <2>5. QED
    BY <2>1, <2>2, <2>3, <2>4, CapRecord
<1>4. ASSUME RecordLoadError, New, stream' = stream, had' = had, phase' = phase,
             InFlight' \subseteq InFlight \cup {Sample.key}
      PROVE  CapInv'
  <2>1. LoadLine(pos) \in Line /\ IsRecord(LoadLine(pos)) /\ LoadLine(pos).src = pos
    BY <1>4, SampleType DEF IsRecord, New
  <2>2. /\ file' = JsonlAppend(file, LoadLine(pos), "ok") /\ pos' = pos + 1
        /\ processed' = processed + 1
        /\ completed' = completed \cup {Sample.key} /\ pc' = pc
    BY <1>4 DEF RecordLoadError
  <2>3. pc' # "done"
    BY <1>4, <2>2 DEF New, Reading
  <2>4. QED
    BY <1>4, <2>1, <2>2, <2>3, CapRecord
<1>5. CASE LoadFails
  <2>1. InFlight' = InFlight
    BY <1>5 DEF LoadFails, InFlight
  <2>2. QED
    BY <1>4, <1>5, <2>1 DEF LoadFails
<1>6. ASSUME New, states' = [states EXCEPT ![Sample.key] = Admission.state]
      PROVE  InFlight' \subseteq InFlight \cup {Sample.key}
  BY <1>6 DEF TypeOK, InFlight
<1>7. CASE AdmitFails
  BY <1>4, <1>6, <1>7 DEF AdmitFails
<1>8. CASE Admit
  <2>1. /\ New /\ pc' # "done" /\ pos' = pos + 1 /\ processed' = processed + 1
        /\ UNCHANGED <<stream, had, file, completed, phase>>
        /\ states' = [states EXCEPT ![Sample.key] = Admission.state]
    BY <1>8 DEF Admit, New, Reading
  <2>2. RecordedIds(file)' = RecordedIds(file)
    BY <2>1 DEF RecordedIds
  <2>3. QED
    BY <1>6, <2>1, <2>2, CapNew
<1>9. CASE DrainFlush \/ Return
  <2>1. RecordedIds(file)' = RecordedIds(file) /\ InFlight' = InFlight
    BY <1>9 DEF DrainFlush, Return, RecordedIds, InFlight
  <2>2. QED
    BY <1>9, <2>1, CapFrame DEF DrainFlush, Return, queueVars, statVars
<1>10. ASSUME NEW k \in Keys, Fallback(k) PROVE CapInv'
  <2>1. states[k] # NoState /\ states[k] \in SampleState /\ pc = "loop"
    BY <1>10 DEF Fallback, TypeOK
  <2>2. PICK write \in WriteOutcomes :
           /\ file' = JsonlAppend(file, AnswersLine(states[k]), write)
           /\ states' = [states EXCEPT ![k] = IF write = "ok" THEN NoState ELSE states[k]]
           /\ pc' \in {"loop", "raised"}
    BY <1>10 DEF Fallback, TypeOK
  <2> DEFINE o == [ok |-> TRUE, state |-> IF write = "ok" THEN NoState ELSE states[k],
                   tasks |-> <<>>, file |-> file']
  <2>3. AnswersLine(states[k]) \in Line /\ AnswersLine(states[k]).kind = "answers"
        /\ AnswersLine(states[k]).src = states[k].src /\ AnswersLine(states[k]).ended
    BY <2>1 DEF AnswersLine, Line, SampleState
  <2>4. <<>> \in Seq(Task) /\ follow \o <<>> = follow
    BY EmptySeq, ConcatEmptySeq DEF TypeOK
  <2>5. Effect(k, o, write)
    BY <2>1, <2>2, <2>3, <2>4 DEF Effect
  <2>6. Store(o, k)
    BY <1>10, <2>2, <2>4 DEF Store, Fallback, queueVars
  <2> HIDE DEF o
  <2>7. UNCHANGED <<stream, had, pos, processed, completed, phase>>
    BY <1>10 DEF Fallback, statVars
  <2>8. QED
    BY <2>1, <2>2, <2>5, <2>6, <2>7, CapStore
<1>11. CASE Generate \/ GenerateFails \/ AskAloneFails \/ EndFlush
  <2>1. RecordedIds(file)' = RecordedIds(file) /\ InFlight' = InFlight
    BY <1>11 DEF Generate, GenerateFails, AskAloneFails, EndFlush, RecordedIds, InFlight
  <2>2. pc # "raised" /\ pc' # "done"
    BY <1>11 DEF Generate, GenerateFails, AskAloneFails, EndFlush, RecoverOrRaise
  <2>3. UNCHANGED <<stream, had, pos, processed, completed, phase>>
    BY <1>11 DEF Generate, GenerateFails, AskAloneFails, EndFlush, statVars
  <2>4. QED
    BY <2>1, <2>2, <2>3, CapFrame
<1>12. CASE ApplyOutput \/ AskAlone
  <2>1. CurrentTask \in Task /\ CurrentTask.key \in Keys
    BY <1>12, CurrentTaskType DEF ApplyOutput, AskAlone, TypeOK, MoreTasks, Task
  <2>2. PICK answer \in Answers, write \in WriteOutcomes :
          Store(Success(CurrentTask, answer, write), CurrentTask.key)
    BY <1>12 DEF ApplyOutput, AskAlone
  <2>3. Effect(CurrentTask.key, Success(CurrentTask, answer, write), write)
    BY <2>1, SuccessEffect
  <2>4. /\ pc # "raised" /\ pc' # "done"
        /\ UNCHANGED <<stream, had, pos, processed, completed, phase>>
    BY <1>12 DEF ApplyOutput, AskAlone, RecoverOrRaise, statVars
  <2>5. QED
    BY <2>1, <2>2, <2>3, <2>4, CapStore
<1>13. CASE RecordError
  <2>1. CurrentTask \in Task /\ CurrentTask.key \in Keys
    BY <1>13, CurrentTaskType DEF RecordError, TypeOK, Task
  <2>2. PICK write \in WriteOutcomes :
          /\ Store(Failure(CurrentTask, write), CurrentTask.key)
          /\ pc' \in {"single", "raised"}
    BY <1>13 DEF RecordError
  <2>3. Effect(CurrentTask.key, Failure(CurrentTask, write), write)
    BY <2>1, FailureEffect
  <2>4. pc # "raised" /\ UNCHANGED <<stream, had, pos, processed, completed, phase>>
    BY <1>13 DEF RecordError
  <2>5. QED
    BY <2>1, <2>2, <2>3, <2>4, CapStore
<1>14. CASE UNCHANGED vars
  <2>1. UNCHANGED <<stream, had, file, states, completed, pos, pc, processed, phase>>
    BY <1>14 DEF vars
  <2>2. RecordedIds(file)' = RecordedIds(file) /\ InFlight' = InFlight /\ Passed' = Passed
    BY <2>1 DEF RecordedIds, InFlight, Passed
  <2>3. DistinctKeys' => DistinctKeys
    BY <2>1 DEF DistinctKeys
  <2>4. QED
    BY <2>1, <2>2, <2>3 DEF CapInv
<1>15. QED
  BY <1>1, <1>2, <1>3, <1>5, <1>7, <1>8, <1>9, <1>10, <1>11, <1>12, <1>13, <1>14
     DEF Next, ReadStep, DrainStep, FlushStep, Finished

LEMMA RestartCap ==
    ASSUME TypeOK, NEW overwrite \in BOOLEAN, Restart(overwrite)
    PROVE  CapInv'
<1>1. /\ stream' = stream /\ pos' = 1 /\ processed' = 0 /\ pc' = "loop" /\ phase' = "read"
      /\ \A k \in Keys : states'[k] = NoState
      /\ completed' = RecordedIds(file') /\ had' = completed'
  BY DEF Restart
<1>2. RecordedIds(file)' = completed' /\ InFlight' = {} /\ Passed' = {}
  BY <1>1 DEF RecordedIds, InFlight, Passed
<1>3. Cardinality(Passed' \ had') = 0 /\ 0 <= MaxSamples
  BY <1>2, FS_EmptySet, SchedulerAssumption
<1>4. QED
  BY <1>1, <1>2, <1>3 DEF CapInv

LEMMA ResumeCapStep ==
    ASSUME TypeOK, LostInv, CapInv, [ResumeNext]_vars
    PROVE  CapInv'
<1>1. CASE Kill
  BY <1>1 DEF Kill, CapInv
<1>2. QED
  BY <1>1, CapStep, RestartCap, ResumeAssumption DEF ResumeNext

\* With ids of its own for every sample and no line lost, --max-samples is what a run
\* adds: a run that returns recorded that many new samples, or all that were left.
THEOREM CappedRunsAdvance == ResumeSpec => []CapAdvances
<1>1. Init => LostInv /\ CapInv
  <2> SUFFICES ASSUME Init PROVE LostInv /\ CapInv
    OBVIOUS
  <2>1. LostInv
    BY LostInit
  <2>2. Passed = {} /\ InFlight = {} /\ RecordedIds(file) = {} /\ had = {} /\ completed = {}
    BY DEF Init, Passed, InFlight, RecordedIds
  <2>3. Cardinality(Passed \ had) = 0 /\ 0 <= MaxSamples
    BY <2>2, FS_EmptySet, SchedulerAssumption
  <2>4. QED
    BY <2>1, <2>2, <2>3 DEF Init, CapInv
<1>2. TypeOK /\ LostInv /\ CapInv => CapAdvances
  <2> SUFFICES ASSUME TypeOK, LostInv, CapInv, DistinctKeys, pc = "done", Unreadable = {}
               PROVE  Cardinality(RecordedIds(file) \ had) =
                        IF N - Cardinality(had) < MaxSamples THEN N - Cardinality(had) ELSE MaxSamples
    BY DEF CapAdvances
  <2> DEFINE all == {stream[i].key : i \in 1 .. N}
             new == Passed \ had
  <2>0. N \in Nat /\ MaxSamples \in Nat /\ pos \in 1 .. (N + 1) /\ processed \in Nat
    BY SchedulerAssumption DEF TypeOK
  <2>1. /\ had \subseteq RecordedIds(file) /\ RecordedIds(file) \subseteq had \cup Passed
        /\ processed = Cardinality(new) /\ processed <= MaxSamples
        /\ pos = N + 1 \/ processed = MaxSamples
    BY DEF CapInv, LostInv, HadInv, LostHad
  <2>2. Passed \subseteq RecordedIds(file)
    <3>1. Cardinality(Missing) = 0 /\ IsFiniteSet(Missing)
      BY CountsFinite, FS_EmptySet DEF LostInv, CountInv, Allowance, Finite
    <3>2. Missing = {} /\ InFlight = {}
      BY <3>1, FS_EmptySet DEF LostInv
    <3>3. QED
      BY <2>1, <3>2 DEF Missing
  <2>3. RecordedIds(file) \ had = new
    BY <2>1, <2>2
  <2>4. IsFiniteSet(all) /\ Cardinality(all) = N
    <3> DEFINE f == [i \in 1 .. N |-> stream[i].key]
    <3>1. f \in Bijection(1 .. N, all)
      <4>1. f \in [1 .. N -> all] /\ \A k \in all : \E i \in 1 .. N : f[i] = k
        OBVIOUS
      <4>2. \A i, j \in 1 .. N : f[i] = f[j] => i = j
        BY DEF DistinctKeys
      <4> HIDE DEF f, all
      <4>3. QED
        BY <4>1, <4>2 DEF Bijection, Injection, IsInjective, Surjection
    <3>2. IsFiniteSet(1 .. N) /\ Cardinality(1 .. N) = N
      BY <2>0, FS_Interval
    <3> HIDE DEF f, all
    <3>3. QED
      BY <3>1, <3>2, FS_Bijection DEF ExistsBijection
  <2>5. Passed \subseteq all /\ had \subseteq all
    <3>1. Passed \subseteq all
      BY <2>0 DEF Passed
    <3>2. RecordedIds(file) \subseteq all
      <4>1. \A j \in 1 .. Len(file) : file[j] \in Line
        BY ElementOfSeq DEF TypeOK
      <4>2. \A j \in 1 .. Len(file) : IsRecord(file[j]) => file[j].src \in 1 .. N
        BY <4>1 DEF Line, IsRecord
      <4>3. QED
        BY <4>2 DEF RecordedIds
    <3>3. QED
      BY <2>1, <3>1, <3>2
  <2> HIDE DEF all
  <2>6. /\ IsFiniteSet(had) /\ Cardinality(had) \in Nat
        /\ Cardinality(all \ had) = N - Cardinality(had)
    <3>1. IsFiniteSet(had) /\ Cardinality(had) \in Nat
      BY <2>4, <2>5, FS_Subset, FS_CardinalityType
    <3>2. all \cap had = had
      BY <2>5
    <3>3. Cardinality(all \ had) = Cardinality(all) - Cardinality(all \cap had)
      BY <2>4, FS_Difference
    <3>4. QED
      BY <2>4, <3>1, <3>2, <3>3
  <2>7. new \subseteq all \ had /\ IsFiniteSet(all \ had)
    BY <2>4, <2>5, FS_Subset
  <2>8. Cardinality(new) <= N - Cardinality(had)
    BY <2>6, <2>7, FS_Subset
  <2>9. pos = N + 1 => new = all \ had
    <3>1. pos = N + 1 => Passed = all
      BY <2>0 DEF Passed, all
    <3>2. QED
      BY <3>1
  <2> HIDE DEF new
  <2>10. /\ Cardinality(RecordedIds(file) \ had) = processed
         /\ pos = N + 1 => processed = N - Cardinality(had)
         /\ processed <= N - Cardinality(had)
    BY <2>1, <2>3, <2>6, <2>8, <2>9
  <2>11. Cardinality(had) \in Nat
    BY <2>6
  <2>12. QED
    BY <2>0, <2>1, <2>10, <2>11
<1>3. QED
  BY <1>1, <1>2, TypeInit, ResumeTypeStep, ResumeLostStep, ResumeCapStep, PTL DEF ResumeSpec
=============================================================================
