---------------------------- MODULE EvalCleanProofs ----------------------------
(***************************************************************************)
(* What the scheduler does when every sample has an id of its own, no text *)
(* contains "<image>" and every write succeeds: for every dataset, batch   *)
(* size and number of turns, and although images may be unreadable and     *)
(* generate calls may fail at any time, no question is lost, asked out of  *)
(* turn or settled twice, every sample is recorded once and whole, and the *)
(* job implements the ledger (EvalLedger).                                 *)
(***************************************************************************)
EXTENDS EvalSchedulerProofs

USE DEF job

Clean ==
    /\ Answers = {"plain"} /\ "append" \notin Faults
    /\ \A s \in Streams : \A i, j \in 1 .. N :
         s[i].marked = {} /\ (s[i].key = s[j].key => i = j)

-----------------------------------------------------------------------------
(* The invariant.  The live tasks form one sequence: the rest of the batch   *)
(* followed by the follow-ups.  Its head is the task whose outcome is next.  *)

InFlush == pc \in {"flush", "apply", "single", "except"}

EntryOK(s) ==
    LET shape == stream[s.src]
    IN /\ s.src < pos
       /\ s.next \in 2 .. (shape.n + 1)
       /\ \A q \in Questions :
            /\ s.preds[q] # "none" => q \notin s.errs
            /\ s.preds[q] # "marker"
            /\ Settled(s, q) => q < s.next
       /\ ~shape.conv => s.next = shape.n + 1
       /\ shape.conv => ~Settled(s, s.next - 1) /\ \A q \in 1 .. (s.next - 2) : Settled(s, q)
       /\ Unsettled(s) # {} /\ s.remaining = Cardinality(Unsettled(s))

EntriesOK == \A k \in Keys : states[k] # NoState => stream[states[k].src].key = k /\ EntryOK(states[k])

SameTask(t, u) == t.key = u.key /\ t.q = u.q
TaskOK(st, t) ==
    LET s == st[t.key]
    IN s # NoState /\ t.q < s.next /\ ~Settled(s, t.q) /\ t.quotes = Quotes(s, t.q)

QueueOK(st, L) ==
    /\ \A i \in 1 .. Len(L) : TaskOK(st, L[i])
    /\ \A i, j \in 1 .. Len(L) : SameTask(L[i], L[j]) => i = j
    /\ \A k \in Keys : st[k] # NoState =>
         \A q \in 1 .. (st[k].next - 1) :
           ~Settled(st[k], q) => \E i \in 1 .. Len(L) : L[i].key = k /\ L[i].q = q

ControlOK ==
    /\ pc = "loop" => follow = <<>>
    /\ pc = "flush" => follow = <<>> /\ cursor = 1
    /\ InFlush => cursor <= Len(pending) + 1

\* The file holds one record of each of some samples the loop is past, not in flight.
Whole(line) == IsRecord(line) /\ line.ended
RecordsOnce ==
    /\ \A j \in 1 .. Len(file) : Whole(file[j])
    /\ \A j, l \in 1 .. Len(file) : file[j].src = file[l].src => j = l
RecordsClosed ==
    \A j \in 1 .. Len(file) :
      file[j].src < pos /\ \A k \in Keys : states[k] # NoState => states[k].src # file[j].src

CleanInv ==
    /\ RecordsOnce /\ RecordComplete
    /\ ~Over => EntriesOK /\ QueueOK(states, LiveTasks) /\ ControlOK /\ RecordsClosed

-----------------------------------------------------------------------------
(* Lemmas about the operators. *)

\* No write fails: jsonl_append appends.
LEMMA CleanAppend ==
    ASSUME Clean, NEW f \in Seq(Line), NEW line \in Line,
           \A j \in 1 .. Len(f) : Whole(f[j])
    PROVE  WriteOutcomes = {"ok"} /\ JsonlAppend(f, line, "ok") = Append(f, line)
<1>1. WriteOutcomes = {"ok"}
  BY DEF Clean, WriteOutcomes
<1>2. ~Unended(f)
  <2>1. Len(f) \in Nat
    BY LenProperties
  <2>2. QED
    BY <2>1 DEF Unended, Whole
<1>3. QED
  BY <1>1, <1>2 DEF JsonlAppend, Written, Glued

\* enqueue_ready_questions schedules every question that is due: all of them, or the
\* next turn of a conversation.
Due(s) ==
    LET shape == stream[s.src]
    IN IF s.next > shape.n THEN 0 ELSE IF shape.conv THEN 1 ELSE shape.n - s.next + 1

LEMMA CleanEnqueue ==
    ASSUME Clean, stream \in Streams, NEW k \in Keys, NEW s \in SampleState,
           \A q \in Questions : s.preds[q] # "marker"
    PROVE  LET e == Enqueue(k, s)
           IN /\ e.ok /\ Due(s) \in Nat
              /\ e.state = [s EXCEPT !.next = @ + Due(s)]
              /\ e.tasks \in Seq(Task) /\ Len(e.tasks) = Due(s)
              /\ \A i \in 1 .. Due(s) :
                   e.tasks[i] = [key |-> k, q |-> s.next + i - 1,
                                 quotes |-> Quotes(s, s.next + i - 1)]
<1> DEFINE shape == stream[s.src]
           due   == {q \in s.next .. shape.n : shape.conv => q = s.next}
           built == {q \in due : \A p \in due : p <= q => Buildable(s, p)}
           count == Cardinality(built)
           e == Enqueue(k, s)
<1>1. /\ shape.n \in 0 .. MaxQ /\ s.next \in Nat \ {0} /\ MaxQ \in Nat /\ s.src \in 1 .. N
      /\ shape.conv \in BOOLEAN /\ shape.marked = {}
  <2>1. s.src \in 1 .. N /\ s.next \in Nat \ {0}
    BY DEF SampleState
  <2>2. shape \in SampleShape
    BY <2>1, SchedulerAssumption
  <2>3. shape.marked = {}
    BY <2>1 DEF Clean
  <2>4. QED
    BY <2>1, <2>2, <2>3, SchedulerAssumption DEF SampleShape
<1>2. \A q \in due : Buildable(s, q)
  BY <1>1 DEF Buildable, Questions
<1>3. built = due
  BY <1>2
<1>4. count = Due(s) /\ Due(s) \in Nat
  <2>1. CASE s.next > shape.n
    <3>1. due = {}
      BY <1>1, <2>1
    <3>2. QED
      BY <1>3, <2>1, <3>1, FS_EmptySet DEF Due
  <2>2. CASE ~(s.next > shape.n) /\ shape.conv
    <3>1. due = {s.next}
      BY <1>1, <2>2
    <3>2. QED
      BY <1>3, <2>2, <3>1, FS_Singleton DEF Due
  <2>3. CASE ~(s.next > shape.n) /\ ~shape.conv
    <3>1. due = s.next .. shape.n
      BY <2>3
    <3>2. Cardinality(s.next .. shape.n) = shape.n - s.next + 1
      <4>1. s.next \in Int /\ shape.n \in Int /\ ~(s.next > shape.n)
        BY <1>1, <2>3
      <4>2. QED
        BY <4>1, FS_Interval
    <3>3. Due(s) = shape.n - s.next + 1
      BY <2>3 DEF Due
    <3>4. shape.n - s.next + 1 \in Nat
      BY <1>1, <2>3
    <3>5. count = shape.n - s.next + 1
      BY <1>3, <3>1, <3>2
    <3>6. QED
      BY <3>3, <3>4, <3>5
  <2>4. QED
    BY <2>1, <2>2, <2>3
<1> DEFINE tasks == [i \in 1 .. count |->
                       [key |-> k, q |-> s.next + i - 1, quotes |-> Quotes(s, s.next + i - 1)]]
<1>5. e.ok = (built = due) /\ e.state = [s EXCEPT !.next = @ + count] /\ e.tasks = tasks
  BY DEF Enqueue
<1>6. e.tasks \in Seq(Task)
  BY EnqueueType
<1> HIDE DEF count, built, due, e
<1>7. Len(tasks) = Due(s)
  BY <1>4
<1>8. QED
  BY <1>3, <1>4, <1>5, <1>6, <1>7, ZenonT(60) DEF e

-----------------------------------------------------------------------------
(* The sequence of live tasks. *)

Rest == IF InFlush THEN Len(pending) - cursor + 1 ELSE Len(pending)
LiveAt(i) == IF i > Rest THEN follow[i - Rest]
             ELSE IF InFlush THEN pending[cursor + i - 1] ELSE pending[i]
LiveShape ==
    /\ Rest \in Nat
    /\ LiveTasks \in Seq(Task)
    /\ Len(LiveTasks) = Rest + Len(follow)
    /\ \A i \in 1 .. Len(LiveTasks) : LiveTasks[i] = LiveAt(i)

LEMMA LiveIndex == TypeOK /\ ControlOK => LiveShape
<1> SUFFICES ASSUME TypeOK, ControlOK PROVE LiveShape
  OBVIOUS
<1>0. pending \in Seq(Task) /\ follow \in Seq(Task) /\ Len(pending) \in Nat /\ Len(follow) \in Nat
  BY LenProperties DEF TypeOK
<1> DEFINE rest == IF InFlush THEN SubSeq(pending, cursor, Len(pending)) ELSE pending
<1>1. /\ rest \in Seq(Task) /\ Len(rest) = Rest /\ Rest \in Nat
      /\ \A i \in 1 .. Rest : rest[i] = LiveAt(i)
  <2>1. CASE InFlush
    <3>1. cursor \in 1 .. (Len(pending) + 1)
      BY <1>0, <2>1 DEF TypeOK, ControlOK, InFlush
    <3>2. /\ SubSeq(pending, cursor, Len(pending)) \in Seq(Task)
          /\ Len(SubSeq(pending, cursor, Len(pending))) =
               IF cursor <= Len(pending) THEN Len(pending) - cursor + 1 ELSE 0
          /\ \A i \in 1 .. (Len(pending) - cursor + 1) :
               SubSeq(pending, cursor, Len(pending))[i] = pending[cursor + i - 1]
      BY <1>0, <3>1, SubSeqProperties
    <3>3. QED
      BY <1>0, <2>1, <3>1, <3>2 DEF Rest, LiveAt
  <2>2. CASE ~InFlush
    BY <1>0, <2>2 DEF Rest, LiveAt
  <2>3. QED
    BY <2>1, <2>2
<1>2. LiveTasks = rest \o follow
  BY DEF LiveTasks, InFlush
<1> HIDE DEF rest
<1>3. /\ LiveTasks \in Seq(Task)
      /\ Len(LiveTasks) = Rest + Len(follow)
      /\ \A i \in 1 .. Len(LiveTasks) :
           LiveTasks[i] = IF i <= Len(rest) THEN rest[i] ELSE follow[i - Len(rest)]
  BY <1>0, <1>1, <1>2, ConcatProperties
<1>4. QED
  BY <1>0, <1>1, <1>3 DEF LiveShape, LiveAt

LEMMA LiveIndexNext == TypeOK' /\ ControlOK' => LiveShape'
BY LiveIndex, PTL

\* M is L without its head, followed by new.
Shifted(L, M, new) ==
    /\ Len(L) \in Nat \ {0} /\ Len(new) \in Nat /\ Len(M) = Len(L) - 1 + Len(new)
    /\ \A i \in 1 .. (Len(L) - 1) : M[i] = L[i + 1]
    /\ \A i \in 1 .. Len(new) : M[Len(L) - 1 + i] = new[i]

LEMMA LiveHead ==
    ASSUME TypeOK, ControlOK, InFlush, MoreTasks
    PROVE  Len(LiveTasks) \in Nat \ {0} /\ LiveTasks[1] = CurrentTask
<1>1. LiveShape
  BY LiveIndex
<1>2. cursor \in 1 .. Len(pending) /\ Len(pending) \in Nat /\ Len(follow) \in Nat
  BY LenProperties DEF TypeOK, InFlush, MoreTasks
<1>3. Rest = Len(pending) - cursor + 1 /\ Rest \in Nat \ {0}
  BY <1>2 DEF Rest
<1>4. Len(LiveTasks) = Rest + Len(follow)
  BY <1>1 DEF LiveShape
<1>5. 1 \in 1 .. Len(LiveTasks) /\ ~(1 > Rest) /\ cursor + 1 - 1 = cursor
  BY <1>2, <1>3, <1>4
<1>6. LiveTasks[1] = LiveAt(1)
  BY <1>1, <1>5 DEF LiveShape
<1>7. LiveAt(1) = CurrentTask
  BY <1>5 DEF LiveAt, CurrentTask
<1>8. QED
  BY <1>2, <1>3, <1>4, <1>6, <1>7

\* An outcome is applied to the head, its follow-ups go to the end.
LEMMA LiveShifted ==
    ASSUME TypeOK, TypeOK', ControlOK, ControlOK', NEW new \in Seq(Task),
           InFlush, InFlush', MoreTasks,
           pending' = pending, cursor' = cursor + 1, follow' = follow \o new
    PROVE  Shifted(LiveTasks, LiveTasks', new)
<1>1. LiveShape /\ LiveShape'
  BY LiveIndex, LiveIndexNext
<1>2. cursor \in 1 .. Len(pending) /\ Len(pending) \in Nat /\ Len(follow) \in Nat /\ Len(new) \in Nat
  <2>1. Len(pending) \in Nat /\ Len(follow) \in Nat /\ Len(new) \in Nat
    BY LenProperties DEF TypeOK
  <2>2. cursor \in Nat /\ cursor > 0 /\ cursor <= Len(pending)
    BY DEF TypeOK, InFlush, MoreTasks
  <2>3. QED
    BY <2>1, <2>2
<1>3. /\ Rest = Len(pending) - cursor + 1 /\ Rest' = Rest - 1 /\ Rest \in Nat \ {0}
  BY <1>2 DEF Rest
<1>4. /\ Len(follow') = Len(follow) + Len(new)
      /\ \A i \in 1 .. Len(follow) : follow'[i] = follow[i]
      /\ \A i \in 1 .. Len(new) : follow'[Len(follow) + i] = new[i]
  <2>1. follow \in Seq(Task) /\ follow' = follow \o new
    BY DEF TypeOK
  <2>2. QED
    BY <2>1, ConcatProperties
<1>5. Len(LiveTasks) = Rest + Len(follow) /\ Len(LiveTasks') = Rest - 1 + Len(follow) + Len(new)
  <2>1. Len(LiveTasks) = Rest + Len(follow) /\ Len(LiveTasks') = Rest' + Len(follow')
    BY <1>1 DEF LiveShape
  <2>2. QED
    BY <1>2, <1>3, <1>4, <2>1
<1>6. \A i \in 1 .. (Len(LiveTasks) - 1) : LiveTasks'[i] = LiveTasks[i + 1]
  <2> SUFFICES ASSUME NEW i \in 1 .. (Len(LiveTasks) - 1)
               PROVE  LiveTasks'[i] = LiveTasks[i + 1]
    OBVIOUS
  <2>1. i \in 1 .. Len(LiveTasks') /\ i + 1 \in 1 .. Len(LiveTasks)
    BY <1>2, <1>3, <1>5
  <2>2. LiveTasks'[i] = LiveAt(i)' /\ LiveTasks[i + 1] = LiveAt(i + 1)
    BY <1>1, <2>1 DEF LiveShape
  <2>3. LiveAt(i)' = LiveAt(i + 1)
    <3>1. CASE i > Rest'
      <4>1. i - Rest' \in 1 .. Len(follow) /\ i + 1 > Rest /\ i - Rest' = (i + 1) - Rest
        <5>1. PICK r, f : r = Rest /\ f = Len(follow)
          OBVIOUS
        <5>2. /\ r \in Nat \ {0} /\ f \in Nat /\ Rest' = r - 1
              /\ i \in 1 .. (r + f - 1) /\ i > r - 1
          BY <1>2, <1>3, <1>5, <3>1, <5>1
        <5>3. i - (r - 1) \in 1 .. f /\ i + 1 > r /\ i - (r - 1) = (i + 1) - r
          BY <5>2
        <5>4. QED
          BY <5>1, <5>2, <5>3
      <4>2. LiveAt(i)' = follow'[i - Rest']
        BY <3>1 DEF LiveAt
      <4>3. LiveAt(i + 1) = follow[(i + 1) - Rest]
        BY <4>1 DEF LiveAt
      <4>4. QED
        BY <1>4, <4>1, <4>2, <4>3
    <3>2. CASE ~(i > Rest')
      <4>1. ~(i + 1 > Rest) /\ cursor + 1 + i - 1 = cursor + (i + 1) - 1
        BY <1>2, <1>3, <3>2
      <4>2. LiveAt(i)' = pending'[cursor' + i - 1]
        BY <3>2 DEF LiveAt
      <4>3. LiveAt(i + 1) = pending[cursor + (i + 1) - 1]
        BY <4>1 DEF LiveAt
      <4>4. QED
        BY <4>1, <4>2, <4>3
    <3>3. QED
      BY <3>1, <3>2
  <2>4. QED
    BY <2>2, <2>3
<1>7. ASSUME NEW i \in 1 .. Len(new), NEW j \in Nat, j = Len(LiveTasks) - 1 + i
      PROVE  LiveTasks'[j] = new[i]
  <2>1. j \in 1 .. Len(LiveTasks') /\ j > Rest' /\ j - Rest' = Len(follow) + i
    <3>1. PICK r, f, n : r = Rest /\ f = Len(follow) /\ n = Len(new)
      OBVIOUS
    <3>2. /\ r \in Nat \ {0} /\ f \in Nat /\ n \in Nat /\ i \in 1 .. n /\ Rest' = r - 1
          /\ Len(LiveTasks) = r + f /\ Len(LiveTasks') = r - 1 + f + n
      BY <1>2, <1>3, <1>5, <3>1
    <3>3. j = r + f - 1 + i
      BY <1>7, <3>2
    <3>4. j \in 1 .. (r - 1 + f + n) /\ j > r - 1 /\ j - (r - 1) = f + i
      BY <3>2, <3>3
    <3>5. QED
      BY <3>1, <3>2, <3>4
  <2>2. LiveTasks'[j] = LiveAt(j)'
    BY <1>1, <2>1 DEF LiveShape
  <2>3. LiveAt(j)' = follow'[j - Rest']
    BY <2>1 DEF LiveAt
  <2>4. QED
    BY <1>4, <2>1, <2>2, <2>3
<1>8. \A i \in 1 .. Len(new) : LiveTasks'[Len(LiveTasks) - 1 + i] = new[i]
  <2>1. Len(LiveTasks) - 1 \in Nat
    <3>1. PICK r, f : r = Rest /\ f = Len(follow)
      OBVIOUS
    <3>2. r \in Nat \ {0} /\ f \in Nat /\ Len(LiveTasks) = r + f
      BY <1>2, <1>3, <1>5, <3>1
    <3>3. QED
      BY <3>2
  <2>2. QED
    BY <1>2, <1>7, <2>1
<1>9. QED
  BY <1>2, <1>3, <1>5, <1>6, <1>8 DEF Shifted

-----------------------------------------------------------------------------
(* An outcome is stored. *)

\* s1 is s with an outcome of question q.
Settles(s, s1, q) ==
    /\ s1 \in SampleState
    /\ s1.src = s.src /\ s1.next = s.next /\ s1.remaining = s.remaining
    /\ \A p \in Questions \ {q} : s1.preds[p] = s.preds[p] /\ (p \in s1.errs <=> p \in s.errs)
    /\ s1.preds[q] # "marker" /\ (s1.preds[q] # "none" <=> q \notin s1.errs)
After(s1) == [s1 EXCEPT !.next = @ + Due(s1), !.remaining = @ - 1]

LEMMA EntryShape ==
    ASSUME stream \in Streams, NEW s \in SampleState
    PROVE  /\ s.src \in 1 .. N /\ stream[s.src].n \in 0 .. MaxQ /\ stream[s.src].conv \in BOOLEAN
           /\ 1 .. stream[s.src].n \subseteq Questions
           /\ s.next \in Nat \ {0} /\ s.errs \subseteq Questions
           /\ IsFiniteSet(Unsettled(s)) /\ Cardinality(Unsettled(s)) \in Nat
<1>1. s.src \in 1 .. N /\ s.next \in Nat \ {0} /\ s.errs \subseteq Questions
  BY DEF SampleState
<1>2. stream[s.src] \in SampleShape
  BY <1>1, SchedulerAssumption
<1>3. stream[s.src].n \in 0 .. MaxQ /\ stream[s.src].conv \in BOOLEAN
  BY <1>2 DEF SampleShape
<1>4. 1 .. stream[s.src].n \subseteq Questions
  BY <1>3, SchedulerAssumption DEF Questions
<1>5. IsFiniteSet(1 .. stream[s.src].n)
  <2>1. 1 \in Int /\ stream[s.src].n \in Int
    BY <1>3, SchedulerAssumption
  <2>2. QED
    BY <2>1, FS_Interval
<1>6. Unsettled(s) \in SUBSET (1 .. stream[s.src].n)
  BY DEF Unsettled
<1>7. IsFiniteSet(Unsettled(s)) /\ Cardinality(Unsettled(s)) \in Nat
  BY <1>5, <1>6, FS_Subset, FS_CardinalityType
<1>8. QED
  BY <1>1, <1>3, <1>4, <1>7

LEMMA SettledFacts ==
    ASSUME stream \in Streams, NEW s \in SampleState, NEW s1, NEW q \in Questions,
           EntryOK(s), q < s.next, ~Settled(s, q), Settles(s, s1, q)
    PROVE  /\ Settled(s1, q) /\ q \in 1 .. stream[s.src].n
           /\ \A p \in Questions : p # q => (Settled(s1, p) <=> Settled(s, p))
           /\ \A p \in Questions : s1.preds[p] # "marker" /\ (s1.preds[p] # "none" => p \notin s1.errs)
           /\ stream[s.src].conv => q = s.next - 1
           /\ Unsettled(s1) = Unsettled(s) \ {q}
           /\ Cardinality(Unsettled(s1)) = s.remaining - 1
<1>1. /\ s.src \in 1 .. N /\ stream[s.src].n \in 0 .. MaxQ /\ stream[s.src].conv \in BOOLEAN
      /\ 1 .. stream[s.src].n \subseteq Questions
      /\ s.next \in Nat \ {0} /\ IsFiniteSet(Unsettled(s))
  BY EntryShape
<1>2. q \in Nat \ {0} /\ q <= MaxQ /\ MaxQ \in Nat
  BY SchedulerAssumption DEF Questions
<1>3. Settled(s1, q) /\ \A p \in Questions : p # q => (Settled(s1, p) <=> Settled(s, p))
  BY DEF Settles, Settled
<1>4. \A p \in Questions : s1.preds[p] # "marker" /\ (s1.preds[p] # "none" => p \notin s1.errs)
  BY DEF Settles, EntryOK
<1>5. q \in 1 .. stream[s.src].n
  BY <1>1, <1>2 DEF EntryOK
<1>6. stream[s.src].conv => q = s.next - 1
  <2> SUFFICES ASSUME stream[s.src].conv, q # s.next - 1 PROVE FALSE
    OBVIOUS
  <2>1. q \in 1 .. (s.next - 2)
    BY <1>1, <1>2
  <2>2. QED
    BY <2>1 DEF EntryOK
<1>7. Unsettled(s1) = Unsettled(s) \ {q}
  <2>1. s1.src = s.src
    BY DEF Settles
  <2>2. QED
    BY <1>1, <1>3, <2>1 DEF Unsettled
<1>8. q \in Unsettled(s)
  BY <1>5 DEF Unsettled
<1>9. Cardinality(Unsettled(s1)) = s.remaining - 1
  <2>1. Cardinality(Unsettled(s) \ {q}) = Cardinality(Unsettled(s)) - 1
    BY <1>1, <1>8, FS_RemoveElement
  <2>2. QED
    BY <1>7, <2>1 DEF EntryOK
<1>10. QED
  BY <1>3, <1>4, <1>5, <1>6, <1>7, <1>9

\* What the entry is after its outcome was counted: as before, or written if nothing
\* is left to settle.
LEMMA AfterEntry ==
    ASSUME stream \in Streams, NEW s \in SampleState, NEW s1, NEW q \in Questions,
           EntryOK(s), q < s.next, ~Settled(s, q), Settles(s, s1, q)
    PROVE  /\ Due(s1) \in {0, 1}
           /\ After(s1) \in SampleState
           /\ After(s1) = [s1 EXCEPT !.next = s.next + Due(s1), !.remaining = s.remaining - 1]
           /\ After(s1).src = s.src /\ After(s1).next = s.next + Due(s1)
           /\ After(s1).preds = s1.preds /\ After(s1).errs = s1.errs
           /\ After(s1).remaining = Cardinality(Unsettled(s1))
           /\ Unsettled(s1) = {} => Due(s1) = 0
           /\ Due(s1) = 1 => s.next \in Unsettled(s1) /\ stream[s.src].conv
           /\ Unsettled(s1) # {} => EntryOK(After(s1))
<1> DEFINE shape == stream[s.src]
           a == After(s1)
<1>1. /\ shape.n \in 0 .. MaxQ /\ MaxQ \in Nat /\ shape.conv \in BOOLEAN
      /\ 1 .. shape.n \subseteq Questions
      /\ s.next \in Nat \ {0} /\ q \in Nat \ {0}
  BY EntryShape, SchedulerAssumption DEF Questions
<1>2. /\ Settled(s1, q) /\ q \in 1 .. shape.n
      /\ \A p \in Questions : p # q => (Settled(s1, p) <=> Settled(s, p))
      /\ \A p \in Questions : s1.preds[p] # "marker" /\ (s1.preds[p] # "none" => p \notin s1.errs)
      /\ shape.conv => q = s.next - 1
      /\ Unsettled(s1) = Unsettled(s) \ {q}
      /\ Cardinality(Unsettled(s1)) = s.remaining - 1
  BY SettledFacts
<1>3. /\ s1 \in SampleState
      /\ s1.src = s.src /\ s1.next = s.next /\ s1.remaining = s.remaining
  BY DEF Settles
<1>4. /\ s.src < pos /\ s.next \in 2 .. (shape.n + 1)
      /\ \A p \in Questions : Settled(s, p) => p < s.next
      /\ ~shape.conv => s.next = shape.n + 1
      /\ shape.conv => \A p \in 1 .. (s.next - 2) : Settled(s, p)
  BY DEF EntryOK
<1>5. Due(s1) = IF shape.conv /\ s.next <= shape.n THEN 1 ELSE 0
  BY <1>1, <1>3, <1>4 DEF Due
<1>6. /\ a \in SampleState
      /\ a = [s1 EXCEPT !.next = s.next + Due(s1), !.remaining = s.remaining - 1]
      /\ a.src = s.src /\ a.next = s.next + Due(s1)
      /\ a.preds = s1.preds /\ a.errs = s1.errs /\ a.remaining = s.remaining - 1
  <2>1. s.next + Due(s1) \in Nat \ {0}
    BY <1>1, <1>5
  <2>2. s.remaining - 1 \in Int
    BY DEF SampleState
  <2>3. a = [s1 EXCEPT !.next = s.next + Due(s1), !.remaining = s.remaining - 1]
    BY <1>3 DEF After, SampleState
  <2>4. QED
    BY <1>3, <2>1, <2>2, <2>3 DEF SampleState
<1>7. \A p \in Questions : Settled(a, p) <=> Settled(s1, p)
  BY <1>6 DEF Settled
<1>8. Due(s1) = 1 => s.next \in Unsettled(s1) /\ shape.conv
  <2> SUFFICES ASSUME Due(s1) = 1 PROVE s.next \in Unsettled(s1) /\ shape.conv
    OBVIOUS
  <2>1. shape.conv /\ s.next \in 1 .. shape.n
    BY <1>1, <1>5
  <2>2. ~Settled(s, s.next) /\ s.next # q
    BY <1>1, <1>4, <2>1
  <2>3. QED
    BY <1>1, <1>2, <1>3, <2>1, <2>2 DEF Unsettled
<1>9. ASSUME Unsettled(s1) # {} PROVE EntryOK(a)
  <2>1. a.src < pos
    BY <1>4, <1>6
  <2>2. a.next \in 2 .. (shape.n + 1)
    BY <1>1, <1>4, <1>5, <1>6
  <2>3. \A p \in Questions : /\ a.preds[p] # "none" => p \notin a.errs
                             /\ a.preds[p] # "marker"
    BY <1>2, <1>6
  <2>4. ASSUME NEW p \in Questions, Settled(a, p) PROVE p < a.next
    <3>1. p = q \/ Settled(s, p)
      BY <1>2, <1>7, <2>4
    <3>2. p < s.next /\ p \in Nat
      BY <1>4, <3>1, SchedulerAssumption DEF Questions
    <3>3. QED
      BY <1>1, <1>5, <1>6, <3>2
  <2>5. ~shape.conv => a.next = shape.n + 1
    BY <1>1, <1>4, <1>5, <1>6
  <2>6. ASSUME shape.conv, NEW p \in 1 .. (s.next - 1) PROVE Settled(a, p)
    <3>1. p \in Questions
      BY <1>1, <1>4, <2>6
    <3>2. CASE p = q
      BY <1>2, <1>7, <3>1, <3>2
    <3>3. CASE p # q
      <4>1. p \in 1 .. (s.next - 2)
        BY <1>1, <1>2, <2>6, <3>3
      <4>2. QED
        BY <1>2, <1>4, <1>7, <2>6, <3>1, <3>3, <4>1
    <3>4. QED
      BY <3>2, <3>3
  <2>7. ASSUME shape.conv PROVE s.next <= shape.n
    <3> SUFFICES ASSUME s.next = shape.n + 1 PROVE FALSE
      BY <1>1, <1>4
    <3>1. \A p \in 1 .. shape.n : Settled(s1, p)
      BY <1>1, <1>7, <2>6, <2>7
    <3>2. QED
      BY <1>3, <1>9, <3>1 DEF Unsettled
  <2>8. shape.conv => ~Settled(a, a.next - 1) /\ \A p \in 1 .. (a.next - 2) : Settled(a, p)
    <3> SUFFICES ASSUME shape.conv
                 PROVE  ~Settled(a, a.next - 1) /\ \A p \in 1 .. (a.next - 2) : Settled(a, p)
      OBVIOUS
    <3>1. a.next - 1 = s.next /\ a.next - 2 = s.next - 1 /\ Due(s1) = 1
      BY <1>1, <1>5, <1>6, <2>7
    <3>2. ~Settled(a, s.next)
      <4>1. s.next \in Questions /\ ~Settled(s1, s.next)
        BY <1>1, <1>3, <1>8, <3>1 DEF Unsettled
      <4>2. QED
        BY <1>7, <4>1
    <3>3. QED
      BY <2>6, <3>1, <3>2
  <2>9. Unsettled(a) = Unsettled(s1)
    BY <1>1, <1>3, <1>6, <1>7 DEF Unsettled
  <2>10. a.remaining = Cardinality(Unsettled(a))
    BY <1>2, <1>6, <2>9
  <2>11. QED
    BY <1>6, <1>9, <2>1, <2>2, <2>3, <2>4, <2>5, <2>8, <2>9, <2>10 DEF EntryOK
<1> HIDE DEF a, shape
<1>10. Due(s1) \in {0, 1} /\ (Unsettled(s1) = {} => Due(s1) = 0)
  BY <1>5, <1>8
<1>11. QED
  BY <1>2, <1>6, <1>8, <1>9, <1>10 DEF a, shape

LEMMA SuccessSettles ==
    ASSUME Clean, NEW s \in SampleState, NEW q \in Questions, ~Settled(s, q), NEW answer \in Answers
    PROVE  Settles(s, [s EXCEPT !.preds[q] = answer], q)
<1> DEFINE s1 == [s EXCEPT !.preds[q] = answer]
<1>1. answer = "plain" /\ s.preds \in Predictions
  BY DEF Clean, SampleState
<1>2. s1.preds = [s.preds EXCEPT ![q] = "plain"] /\ s1.preds \in Predictions
  BY <1>1 DEF SampleState, Predictions
<1>3. /\ s1 \in SampleState /\ s1.src = s.src /\ s1.next = s.next
      /\ s1.remaining = s.remaining /\ s1.errs = s.errs
  BY <1>2 DEF SampleState
<1>4. s1.preds[q] = "plain" /\ \A p \in Questions \ {q} : s1.preds[p] = s.preds[p]
  BY <1>1, <1>2 DEF Predictions
<1>5. q \notin s.errs
  BY DEF Settled
<1> HIDE DEF s1
<1>6. Settles(s, s1, q)
  BY <1>3, <1>4, <1>5 DEF Settles
<1>7. QED
  BY <1>6 DEF s1

LEMMA FailureSettles ==
    ASSUME NEW s \in SampleState, NEW q \in Questions, ~Settled(s, q)
    PROVE  Settles(s, [s EXCEPT !.errs = @ \cup {q}], q)
<1> DEFINE s1 == [s EXCEPT !.errs = @ \cup {q}]
<1>1. /\ s1 \in SampleState /\ s1.src = s.src /\ s1.next = s.next
      /\ s1.remaining = s.remaining /\ s1.errs = s.errs \cup {q} /\ s1.preds = s.preds
  BY DEF SampleState
<1>2. s.preds[q] = "none"
  BY DEF Settled
<1> HIDE DEF s1
<1>3. Settles(s, s1, q)
  BY <1>1, <1>2 DEF Settles
<1>4. QED
  BY <1>3 DEF s1

\* What update_success and update_error come to once the outcome is stored in s1.
Advance(k, s1, o) ==
    /\ o.ok
    /\ o.tasks \in Seq(Task) /\ Len(o.tasks) = Due(s1)
    /\ \A i \in 1 .. Due(s1) :
         o.tasks[i] = [key |-> k, q |-> s1.next + i - 1, quotes |-> Quotes(s1, s1.next + i - 1)]
    /\ Unsettled(s1) = {} => o.state = NoState /\ o.file = Append(file, AnswersLine(After(s1)))
    /\ Unsettled(s1) # {} => o.state = After(s1) /\ o.file = file

LEMMA CountDownAdvance ==
    ASSUME Clean, stream \in Streams, file \in Seq(Line), \A j \in 1 .. Len(file) : Whole(file[j]),
           NEW k \in Keys, NEW s \in SampleState, NEW s1, NEW q \in Questions,
           EntryOK(s), q < s.next, ~Settled(s, q), Settles(s, s1, q)
    PROVE  Advance(k, s1, CountDown(k, s1, "ok"))
<1> DEFINE e == Enqueue(k, s1)
           left == [e.state EXCEPT !.remaining = @ - 1]
           last == e.ok /\ left.remaining = 0
           o == CountDown(k, s1, "ok")
<1>1. s1 \in SampleState /\ \A p \in Questions : s1.preds[p] # "marker"
  BY SettledFacts DEF Settles
<1>2. /\ e.ok /\ e.state = [s1 EXCEPT !.next = @ + Due(s1)]
      /\ e.tasks \in Seq(Task) /\ Len(e.tasks) = Due(s1)
      /\ \A i \in 1 .. Due(s1) :
           e.tasks[i] = [key |-> k, q |-> s1.next + i - 1, quotes |-> Quotes(s1, s1.next + i - 1)]
  BY <1>1, CleanEnqueue
<1>3. /\ o.ok = (e.ok /\ (last => "ok" = "ok"))
      /\ o.state = IF last /\ "ok" = "ok" THEN NoState ELSE IF e.ok THEN left ELSE e.state
      /\ o.tasks = e.tasks
      /\ o.file = IF last THEN JsonlAppend(file, AnswersLine(left), "ok") ELSE file
  BY DEF CountDown
<1> HIDE DEF e, o
<1>4. left = After(s1)
  BY <1>1, <1>2 DEF After, SampleState
<1>5. /\ After(s1) \in SampleState /\ After(s1).remaining = Cardinality(Unsettled(s1))
      /\ IsFiniteSet(Unsettled(s1))
  BY <1>1, AfterEntry, EntryShape
<1>6. last <=> Unsettled(s1) = {}
  <2>1. Cardinality(Unsettled(s1)) = 0 <=> Unsettled(s1) = {}
    BY <1>5, FS_EmptySet
  <2>2. QED
    BY <1>2, <1>4, <1>5, <2>1
<1>7. AnswersLine(After(s1)) \in Line
  BY <1>5 DEF AnswersLine, Line, SampleState
<1>8. JsonlAppend(file, AnswersLine(After(s1)), "ok") = Append(file, AnswersLine(After(s1)))
  BY <1>7, CleanAppend
<1> HIDE DEF left, last
<1>9. o.ok /\ o.tasks = e.tasks
  BY <1>2, <1>3
<1>10. Unsettled(s1) = {} => o.state = NoState /\ o.file = Append(file, AnswersLine(After(s1)))
  BY <1>3, <1>4, <1>6, <1>8
<1>11. Unsettled(s1) # {} => o.state = After(s1) /\ o.file = file
  BY <1>2, <1>3, <1>4, <1>6
<1>12. Advance(k, s1, o)
  BY <1>2, <1>9, <1>10, <1>11 DEF Advance
<1>13. QED
  BY <1>12 DEF o

HeadIs(L, k, q) == L[1].key = k /\ L[1].q = q

\* The head of the live tasks is settled; its follow-up goes to the end.
LEMMA QueueAdvance ==
    ASSUME stream \in Streams, NEW st \in [Keys -> SampleState \cup {NoState}],
           NEW k \in Keys, NEW q \in Questions, NEW s \in SampleState, NEW s1, NEW o, NEW L, NEW M,
           st[k] = s, EntryOK(s), q < s.next, ~Settled(s, q), Settles(s, s1, q), Advance(k, s1, o),
           L \in Seq(Task), QueueOK(st, L), HeadIs(L, k, q), Shifted(L, M, o.tasks)
    PROVE  QueueOK([st EXCEPT ![k] = o.state], M)
<1> DEFINE shape == stream[s.src]
           a == After(s1)
           st2 == [st EXCEPT ![k] = o.state]
           m == Len(L) - 1
<1>1. s \in SampleState /\ s1 \in SampleState /\ s1.next = s.next /\ s1.src = s.src
  BY DEF Settles
<1>2. /\ shape.n \in 0 .. MaxQ /\ MaxQ \in Nat /\ shape.conv \in BOOLEAN
      /\ 1 .. shape.n \subseteq Questions
      /\ s.next \in Nat \ {0} /\ q \in Nat \ {0}
  BY <1>1, EntryShape, SchedulerAssumption DEF Questions
<1>3. /\ Settled(s1, q) /\ q \in 1 .. shape.n
      /\ \A p \in Questions : p # q => (Settled(s1, p) <=> Settled(s, p))
      /\ shape.conv => q = s.next - 1
      /\ Unsettled(s1) = Unsettled(s) \ {q}
  BY <1>1, SettledFacts
<1>4. /\ Due(s1) \in {0, 1}
      /\ a.src = s.src /\ a.next = s.next + Due(s1) /\ a.preds = s1.preds /\ a.errs = s1.errs
      /\ a \in SampleState
      /\ Unsettled(s1) = {} => Due(s1) = 0
      /\ Due(s1) = 1 => s.next \in Unsettled(s1) /\ shape.conv
  <2> HIDE DEF a, st2, m
  <2>1. /\ Due(s1) \in {0, 1}
        /\ After(s1).src = s.src /\ After(s1).next = s.next + Due(s1)
        /\ After(s1).preds = s1.preds /\ After(s1).errs = s1.errs
        /\ After(s1) \in SampleState
        /\ Unsettled(s1) = {} => Due(s1) = 0
        /\ Due(s1) = 1 => s.next \in Unsettled(s1) /\ stream[s.src].conv
    BY AfterEntry, ZenonT(60)
  <2>2. QED
    BY <2>1 DEF a
<1>5. /\ s.next \in 2 .. (shape.n + 1)
      /\ ~shape.conv => s.next = shape.n + 1
      /\ shape.conv => \A p \in 1 .. (s.next - 2) : Settled(s, p)
  BY <1>1 DEF EntryOK
<1>6. /\ m \in Nat /\ Len(M) = m + Due(s1) /\ Len(L) = m + 1
      /\ \A i \in 1 .. m : M[i] = L[i + 1] /\ i + 1 \in 1 .. Len(L) /\ i + 1 # 1
      /\ Due(s1) = 1 => M[m + 1] = [key |-> k, q |-> s.next, quotes |-> Quotes(s1, s.next)]
  <2>1. /\ Len(L) \in Nat \ {0} /\ Len(M) = Len(L) - 1 + Len(o.tasks) /\ Len(o.tasks) = Due(s1)
        /\ \A i \in 1 .. (Len(L) - 1) : M[i] = L[i + 1]
        /\ \A i \in 1 .. Len(o.tasks) : M[Len(L) - 1 + i] = o.tasks[i]
    BY DEF Shifted, Advance
  <2>2. Due(s1) = 1 => o.tasks[1] = [key |-> k, q |-> s1.next + 1 - 1, quotes |-> Quotes(s1, s1.next + 1 - 1)]
    BY DEF Advance
  <2>3. s1.next + 1 - 1 = s.next
    BY <1>1, <1>2
  <2>4. QED
    BY <1>4, <2>1, <2>2, <2>3
<1> HIDE DEF m
<1>7. st2[k] = o.state /\ \A j \in Keys \ {k} : st2[j] = st[j]
  OBVIOUS
<1>8. Unsettled(s1) # {} => o.state = a /\ a # NoState
  BY <1>4, SchedulerAssumption DEF Advance
<1>9. Unsettled(s1) = {} => o.state = NoState
  BY DEF Advance
<1>10. \A p \in Questions : Settled(a, p) <=> Settled(s1, p)
  BY <1>4 DEF Settled
\* The tasks that stay.
<1>11. ASSUME NEW i \in 1 .. m
       PROVE  /\ TaskOK(st2, M[i])
              /\ M[i].key = k => M[i].q # q /\ M[i].q < s.next
  <2> DEFINE t == M[i]
  <2>1. t = L[i + 1] /\ i + 1 \in 1 .. Len(L) /\ t \in Task /\ i + 1 # 1 /\ 1 \in 1 .. Len(L)
    BY <1>6, ElementOfSeq
  <2>2. TaskOK(st, t) /\ ~SameTask(t, L[1])
    BY <2>1 DEF QueueOK
  <2>3. t.key \in Keys /\ t.q \in Nat \ {0}
    BY <2>1 DEF Task
  <2> HIDE DEF t
  <2>4. CASE t.key # k
    <3>1. TaskOK(st2, t)
      BY <1>7, <2>2, <2>3, <2>4 DEF TaskOK
    <3>2. QED
      BY <2>4, <3>1 DEF t
  <2>5. CASE t.key = k
    <3>1. t.q # q
      BY <2>2, <2>5 DEF SameTask, HeadIs
    <3>2. t.q < s.next /\ ~Settled(s, t.q) /\ t.quotes = Quotes(s, t.q)
      BY <2>2, <2>5 DEF TaskOK
    <3>3. ~shape.conv
      <4> SUFFICES ASSUME shape.conv PROVE FALSE
        BY <1>2
      <4>1. t.q \in 1 .. (s.next - 2)
        BY <1>2, <1>3, <2>3, <3>1, <3>2
      <4>2. QED
        BY <1>5, <3>2, <4>1
    <3>4. t.q \in Questions /\ t.q \in 1 .. shape.n
      BY <1>2, <1>5, <2>3, <3>2, <3>3
    <3>5. ~Settled(s1, t.q)
      BY <1>3, <3>1, <3>2, <3>4
    <3>6. Unsettled(s1) # {}
      BY <1>1, <3>4, <3>5 DEF Unsettled
    <3>7. Quotes(a, t.q) = Quotes(s, t.q)
      BY <1>4, <3>3 DEF Quotes
    <3>8. t.q < a.next
      BY <1>2, <1>4, <2>3, <3>2
    <3>9. ~Settled(a, t.q)
      BY <1>10, <3>4, <3>5
    <3>10. st2[t.key] = a /\ a # NoState
      BY <1>7, <1>8, <2>5, <3>6
    <3>11. TaskOK(st2, t)
      BY <3>2, <3>7, <3>8, <3>9, <3>10 DEF TaskOK
    <3>12. QED
      BY <3>1, <3>2, <3>11 DEF t
  <2>6. QED
    BY <2>4, <2>5
\* The new one.
<1>12. ASSUME Due(s1) = 1
       PROVE  M[m + 1].key = k /\ M[m + 1].q = s.next /\ TaskOK(st2, M[m + 1])
  <2>1. M[m + 1] = [key |-> k, q |-> s.next, quotes |-> Quotes(s1, s.next)]
    BY <1>6, <1>12
  <2>2. s.next \in Unsettled(s1) /\ s.next \in Questions /\ ~Settled(s1, s.next)
    BY <1>1, <1>2, <1>4, <1>12 DEF Unsettled
  <2>3. st2[k] = a /\ a # NoState /\ s.next < a.next /\ ~Settled(a, s.next)
    BY <1>2, <1>4, <1>7, <1>8, <1>10, <1>12, <2>2
  <2>4. Quotes(a, s.next) = Quotes(s1, s.next)
    BY <1>1, <1>4 DEF Quotes
  <2>5. QED
    BY <2>1, <2>3, <2>4 DEF TaskOK
<1>13. \A i \in 1 .. Len(M) : i \in 1 .. m \/ (Due(s1) = 1 /\ i = m + 1)
  BY <1>4, <1>6
<1>14. \A i \in 1 .. Len(M) : TaskOK(st2, M[i])
  BY <1>11, <1>12, <1>13
<1>15. ASSUME NEW i \in 1 .. Len(M), NEW j \in 1 .. Len(M), SameTask(M[i], M[j]) PROVE i = j
  <2>1. CASE i \in 1 .. m /\ j \in 1 .. m
    <3>1. SameTask(L[i + 1], L[j + 1]) /\ i + 1 \in 1 .. Len(L) /\ j + 1 \in 1 .. Len(L)
      BY <1>6, <1>15, <2>1
    <3>2. i + 1 = j + 1
      BY <3>1 DEF QueueOK
    <3>3. QED
      BY <2>1, <3>2
  <2>2. CASE i = m + 1 /\ j = m + 1
    BY <2>2
  <2>3. CASE i \in 1 .. m /\ Due(s1) = 1 /\ j = m + 1
    <3>1. M[i].key = k /\ M[i].q = s.next
      BY <1>12, <1>15, <2>3 DEF SameTask
    <3>2. QED
      BY <1>2, <1>11, <2>3, <3>1
  <2>4. CASE j \in 1 .. m /\ Due(s1) = 1 /\ i = m + 1
    <3>1. M[j].key = k /\ M[j].q = s.next
      BY <1>12, <1>15, <2>4 DEF SameTask
    <3>2. QED
      BY <1>2, <1>11, <2>4, <3>1
  <2>5. QED
    BY <1>13, <2>1, <2>2, <2>3, <2>4
<1>16. ASSUME NEW h \in Keys, st2[h] # NoState, NEW p \in 1 .. (st2[h].next - 1), ~Settled(st2[h], p)
       PROVE  \E i \in 1 .. Len(M) : M[i].key = h /\ M[i].q = p
  <2>1. ASSUME st[h] # NoState, p \in 1 .. (st[h].next - 1), ~Settled(st[h], p), ~(h = k /\ p = q)
        PROVE  \E i \in 1 .. Len(M) : M[i].key = h /\ M[i].q = p
    <3>1. PICK i \in 1 .. Len(L) : L[i].key = h /\ L[i].q = p
      BY <2>1 DEF QueueOK
    <3>2. i # 1
      BY <2>1, <3>1 DEF HeadIs
    <3>3. i - 1 \in 1 .. m /\ (i - 1) + 1 = i /\ i - 1 \in 1 .. Len(M)
      BY <1>4, <1>6, <3>2
    <3>4. M[i - 1] = L[i]
      BY <1>6, <3>3
    <3>5. QED
      BY <3>1, <3>3, <3>4
  <2>2. CASE h # k
    BY <1>7, <1>16, <2>1, <2>2
  <2>3. CASE h = k
    <3>1. st2[h] = a /\ Unsettled(s1) # {}
      BY <1>7, <1>8, <1>9, <1>16, <2>3
    <3>2. p \in 1 .. (a.next - 1) /\ ~Settled(a, p) /\ p \in Questions
      <4>1. p \in 1 .. (a.next - 1) /\ ~Settled(a, p)
        BY <1>16, <3>1
      <4>2. p \in 1 .. shape.n
        BY <1>1, <1>2, <1>4, <1>5, <4>1, SMTT(30) DEF Unsettled
      <4>3. QED
        BY <1>2, <4>1, <4>2
    <3>3. ~Settled(s1, p) /\ p # q
      BY <1>3, <1>10, <3>2
    <3>4. CASE p = s.next /\ Due(s1) = 1
      <4>1. m + 1 \in 1 .. Len(M)
        BY <1>6, <3>4
      <4>2. QED
        BY <1>12, <2>3, <3>4, <4>1
    <3>5. CASE ~(p = s.next /\ Due(s1) = 1)
      <4>1. p \in 1 .. (s.next - 1)
        BY <1>2, <1>4, <3>2, <3>5
      <4>2. ~Settled(s, p)
        BY <1>3, <3>2, <3>3
      <4>3. st[h] = s /\ st[h] # NoState
        BY <2>3, SchedulerAssumption
      <4>4. QED
        BY <2>1, <2>3, <3>3, <4>1, <4>2, <4>3
    <3>6. QED
      BY <3>4, <3>5
  <2>4. QED
    BY <2>2, <2>3
<1> HIDE DEF st2
<1>17. QueueOK(st2, M)
  BY <1>14, <1>15, <1>16 DEF QueueOK
<1>18. QED
  BY <1>17 DEF st2

-----------------------------------------------------------------------------
(* The steps. *)

\* The task whose outcome is next is of an entry, and its question is open.
LEMMA CurrentOpen ==
    ASSUME TypeOK, CleanInv, InFlush, MoreTasks
    PROVE  LET t == CurrentTask
               s == states[t.key]
           IN /\ t \in Task /\ t.key \in Keys /\ t.q \in Questions
              /\ s \in SampleState /\ s # NoState /\ stream[s.src].key = t.key /\ EntryOK(s)
              /\ t.q < s.next /\ ~Settled(s, t.q) /\ Found(t)
              /\ HeadIs(LiveTasks, t.key, t.q)
<1> DEFINE t == CurrentTask
           s == states[t.key]
<1>1. ~Over
  BY DEF InFlush, Over
<1>2. EntriesOK /\ QueueOK(states, LiveTasks) /\ ControlOK
  BY <1>1 DEF CleanInv
<1>3. Len(LiveTasks) \in Nat \ {0} /\ LiveTasks[1] = t
  BY <1>2, LiveHead
<1>4. TaskOK(states, t)
  BY <1>2, <1>3 DEF QueueOK
<1>5. t \in Task
  BY CurrentTaskType DEF TypeOK, InFlush, MoreTasks
<1>6. t.key \in Keys /\ t.q \in Nat \ {0}
  BY <1>5 DEF Task
<1> HIDE DEF t
<1>7. s # NoState /\ t.q < s.next /\ ~Settled(s, t.q)
  BY <1>4 DEF TaskOK
<1>8. s \in SampleState
  BY <1>6, <1>7 DEF TypeOK
<1>9. stream[s.src].key = t.key /\ EntryOK(s)
  BY <1>2, <1>6, <1>7 DEF EntriesOK
<1>10. t.q <= stream[s.src].n /\ t.q \in Questions
  <2>1. /\ stream[s.src].n \in 0 .. MaxQ /\ MaxQ \in Nat /\ 1 .. stream[s.src].n \subseteq Questions
    BY <1>8, EntryShape, SchedulerAssumption DEF TypeOK
  <2>2. s.next \in 2 .. (stream[s.src].n + 1)
    BY <1>9 DEF EntryOK
  <2>3. QED
    BY <1>6, <1>7, <2>1, <2>2
<1>11. QED
  BY <1>3, <1>5, <1>6, <1>7, <1>8, <1>9, <1>10 DEF t, Found, HeadIs

\* A record of a sample without one, whole if it holds answers, joins the file.
CompleteLine(line) ==
    line.kind = "answers" =>
      \A q \in 1 .. stream[line.src].n : line.preds[q] # "none" <=> q \notin line.errs

LEMMA RecordAdded ==
    ASSUME file \in Seq(Line), RecordsOnce, RecordComplete, stream' = stream,
           NEW line \in Line, Whole(line), CompleteLine(line), file' = Append(file, line),
           \A j \in 1 .. Len(file) : file[j].src # line.src /\ file[j].src < pos',
           line.src < pos',
           \A k \in Keys : states'[k] # NoState =>
             /\ states'[k].src # line.src
             /\ \A j \in 1 .. Len(file) : states'[k].src # file[j].src
    PROVE  RecordsOnce' /\ RecordComplete' /\ RecordsClosed'
<1>1. /\ Len(file) \in Nat /\ Len(file') = Len(file) + 1 /\ file'[Len(file) + 1] = line
      /\ \A j \in 1 .. Len(file) : file'[j] = file[j]
  BY LenProperties, AppendProperties
<1>2. \A j \in 1 .. Len(file') : j \in 1 .. Len(file) \/ j = Len(file) + 1
  BY <1>1
<1>3. \A j \in 1 .. Len(file') : Whole(file'[j]) /\ file'[j].src < pos'
  BY <1>1, <1>2 DEF RecordsOnce
<1>4. ASSUME NEW j \in 1 .. Len(file'), NEW l \in 1 .. Len(file'), file'[j].src = file'[l].src
      PROVE  j = l
  <2>1. CASE j \in 1 .. Len(file) /\ l \in 1 .. Len(file)
    BY <1>1, <1>4, <2>1 DEF RecordsOnce
  <2>2. CASE ~(j \in 1 .. Len(file) /\ l \in 1 .. Len(file))
    BY <1>1, <1>2, <1>4, <2>2
  <2>3. QED
    BY <2>1, <2>2
<1>5. \A j \in 1 .. Len(file') : CompleteLine(file'[j])
  BY <1>1, <1>2 DEF RecordComplete, CompleteLine
<1>6. RecordComplete'
  BY <1>5 DEF RecordComplete, CompleteLine
<1>7. ASSUME NEW j \in 1 .. Len(file'), NEW k \in Keys, states'[k] # NoState
      PROVE  states'[k].src # file'[j].src
  BY <1>1, <1>2, <1>7
<1>8. RecordsOnce'
  <2>1. \A j \in 1 .. Len(file') : Whole(file[j])'
    BY <1>3 DEF Whole, IsRecord
  <2>2. QED
    BY <1>4, <2>1 DEF RecordsOnce
<1>9. QED
  BY <1>3, <1>6, <1>7, <1>8 DEF RecordsClosed

\* The outcome of the current task is stored.
LEMMA HeadStep ==
    ASSUME Clean, TypeOK, TypeOK', CleanInv, InFlush, MoreTasks, pc' \in {"apply", "single"},
           NEW s1, NEW o, Settles(states[CurrentTask.key], s1, CurrentTask.q),
           Advance(CurrentTask.key, s1, o), Store(o, CurrentTask.key),
           cursor' = cursor + 1, pending' = pending, stream' = stream, pos' = pos
    PROVE  CleanInv'
<1> DEFINE k == CurrentTask.key
           q == CurrentTask.q
           s == states[k]
<1>1. /\ k \in Keys /\ q \in Questions /\ s \in SampleState /\ s # NoState
      /\ stream[s.src].key = k /\ EntryOK(s) /\ q < s.next /\ ~Settled(s, q)
      /\ HeadIs(LiveTasks, k, q)
  BY CurrentOpen
<1>2. ~Over /\ EntriesOK /\ QueueOK(states, LiveTasks) /\ ControlOK /\ RecordsClosed
  BY DEF InFlush, Over, CleanInv
<1>3. Settles(s, s1, q) /\ Advance(k, s1, o) /\ Store(o, k)
  OBVIOUS
<1> HIDE DEF k, q, s
<1>4. /\ stream \in Streams /\ states \in [Keys -> SampleState \cup {NoState}]
      /\ o.tasks \in Seq(Task) /\ file \in Seq(Line)
  BY <1>3 DEF TypeOK, Advance
<1>5. /\ states' = [states EXCEPT ![k] = o.state] /\ follow' = follow \o o.tasks /\ file' = o.file
  BY <1>3 DEF Store
<1>6. InFlush' /\ ControlOK'
  <2>1. cursor' <= Len(pending') + 1
    BY LenProperties DEF TypeOK, MoreTasks
  <2>2. QED
    BY <2>1 DEF InFlush, ControlOK
<1>7. Shifted(LiveTasks, LiveTasks', o.tasks)
  BY <1>2, <1>4, <1>5, <1>6, LiveShifted
<1>8. LiveTasks \in Seq(Task)
  BY <1>2, LiveIndex DEF LiveShape
<1>9. QueueOK(states', LiveTasks')
  <2>1. states[k] = s
    BY DEF s
  <2>2. QueueOK([states EXCEPT ![k] = o.state], LiveTasks')
    BY <1>1, <1>2, <1>3, <1>4, <1>7, <1>8, <2>1, QueueAdvance
  <2>3. QED
    BY <1>5, <2>2
<1>10. QueueOK(states, LiveTasks)'
  BY <1>9 DEF QueueOK, TaskOK, SameTask, Settled, Quotes
<1>11. EntriesOK'
  <2>1. /\ Unsettled(s1) # {} => EntryOK(After(s1))
        /\ After(s1).src = s.src
    BY <1>1, <1>3, <1>4, AfterEntry
  <2>2. ASSUME NEW h \in Keys, states'[h] # NoState
        PROVE  stream[states'[h].src].key = h /\ EntryOK(states'[h])
    <3>1. CASE h = k
      <4>1. states'[h] = o.state /\ Unsettled(s1) # {} /\ o.state = After(s1)
        BY <1>1, <1>3, <1>4, <1>5, <2>2, <3>1 DEF Advance
      <4>2. QED
        BY <1>1, <2>1, <3>1, <4>1
    <3>2. CASE h # k
      BY <1>2, <1>4, <1>5, <2>2, <3>2 DEF EntriesOK
    <3>3. QED
      BY <3>1, <3>2
  <2>3. ASSUME NEW x, EntryOK(x) PROVE EntryOK(x)'
    BY <2>3 DEF EntryOK, Settled, Unsettled
  <2>4. ASSUME NEW h \in Keys, states'[h] # NoState PROVE EntryOK(states[h])'
    <3>1. PICK x : x = states'[h]
      OBVIOUS
    <3>2. EntryOK(x)'
      BY <2>2, <2>3, <2>4, <3>1
    <3>3. QED
      BY <3>1, <3>2 DEF EntryOK, Settled, Unsettled
  <2>5. QED
    BY <2>2, <2>4 DEF EntriesOK
<1>12. ~Over'
  BY DEF Over
<1>13. RecordsOnce' /\ RecordComplete' /\ RecordsClosed'
  <2>1. s.src < pos /\ s.src \in 1 .. N /\ After(s1).src = s.src /\ After(s1) \in SampleState
        /\ After(s1).preds = s1.preds /\ After(s1).errs = s1.errs
    <3>1. s.src < pos
      BY <1>1 DEF EntryOK
    <3>2. s.src \in 1 .. N
      BY <1>1 DEF SampleState
    <3>3. QED
      BY <1>1, <1>3, <1>4, <3>1, <3>2, AfterEntry
  <2>2. CASE Unsettled(s1) = {}
    <3> DEFINE line == AnswersLine(After(s1))
    <3>1. o.state = NoState /\ file' = Append(file, line)
      BY <1>3, <1>5, <2>2 DEF Advance
    <3>2. line \in Line /\ Whole(line) /\ line.src = s.src
      BY <2>1 DEF AnswersLine, Line, Whole, IsRecord, SampleState
    <3>3. CompleteLine(line)
      <4>1. s1.src = s.src /\ 1 .. stream[s.src].n \subseteq Questions
        BY <1>1, <1>3, <1>4, EntryShape DEF Settles
      <4>2. \A p \in 1 .. stream[s.src].n : Settled(s1, p)
        BY <2>2, <4>1 DEF Unsettled
      <4>3. \A p \in Questions : s1.preds[p] # "none" => p \notin s1.errs
        BY <1>1, <1>3, <1>4, SettledFacts
      <4>4. QED
        BY <2>1, <3>2, <4>1, <4>2, <4>3 DEF CompleteLine, AnswersLine, Settled
    <3> HIDE DEF line
    <3>4. \A j \in 1 .. Len(file) : file[j].src # line.src /\ file[j].src < pos'
      <4>1. \A j \in 1 .. Len(file) : file[j].src < pos /\ states[k].src # file[j].src
        BY <1>1, <1>2 DEF RecordsClosed, s
      <4>2. QED
        BY <3>2, <4>1 DEF s
    <3>5. ASSUME NEW h \in Keys, states'[h] # NoState
          PROVE  states'[h].src # line.src /\ \A j \in 1 .. Len(file) : states'[h].src # file[j].src
      <4>1. h # k /\ states'[h] = states[h]
        BY <1>1, <1>4, <1>5, <3>1, <3>5
      <4>2. stream[states[h].src].key = h /\ \A j \in 1 .. Len(file) : states[h].src # file[j].src
        BY <1>2, <3>5, <4>1 DEF EntriesOK, RecordsClosed
      <4>3. QED
        BY <1>1, <3>2, <4>1, <4>2
    <3>6. line.src < pos'
      BY <2>1, <3>2
    <3>7. RecordsOnce /\ RecordComplete
      BY DEF CleanInv
    <3>8. QED
      BY <1>4, <3>1, <3>2, <3>3, <3>4, <3>5, <3>6, <3>7, RecordAdded
  <2>3. CASE Unsettled(s1) # {}
    <3>1. o.state = After(s1) /\ file' = file
      BY <1>3, <1>5, <2>3 DEF Advance
    <3>2. RecordsOnce /\ RecordComplete
      BY DEF CleanInv
    <3>3. RecordsOnce' /\ RecordComplete'
      BY <3>1, <3>2 DEF RecordsOnce, RecordComplete, Whole, IsRecord
    <3>4. ASSUME NEW j \in 1 .. Len(file)
          PROVE  /\ file[j].src < pos
                 /\ \A h \in Keys : states'[h] # NoState => states'[h].src # file[j].src
      <4>1. file[j].src < pos /\ \A h \in Keys : states[h] # NoState => states[h].src # file[j].src
        BY <1>2 DEF RecordsClosed
      <4>2. states'[k].src = states[k].src /\ \A h \in Keys : h # k => states'[h] = states[h]
        BY <1>1, <1>4, <1>5, <2>1, <3>1 DEF s
      <4>3. states[k] # NoState
        BY <1>1 DEF s
      <4>4. QED
        BY <4>1, <4>2, <4>3
    <3>5. RecordsClosed'
      BY <3>1, <3>4 DEF RecordsClosed
    <3>6. QED
      BY <3>3, <3>5
  <2>4. QED
    BY <2>2, <2>3
<1>14. QED
  BY <1>6, <1>10, <1>11, <1>13 DEF CleanInv

\* A step that changes neither entries nor live tasks nor file.
LEMMA QuietStep ==
    ASSUME CleanInv, ~Over, stream' = stream, states' = states, file' = file,
           LiveTasks' = LiveTasks, pos \in Int, pos' \in Int, pos <= pos', N \in Int,
           states \in [Keys -> SampleState \cup {NoState}],
           file \in Seq(Line), ControlOK'
    PROVE  CleanInv'
<1>1. /\ EntriesOK /\ QueueOK(states, LiveTasks) /\ ControlOK /\ RecordsClosed
      /\ RecordsOnce /\ RecordComplete
  BY DEF CleanInv
<1>2. QueueOK(states, LiveTasks)'
  <2>1. QueueOK(states', LiveTasks')
    BY <1>1
  <2>2. QED
    BY <2>1, ZenonT(60) DEF QueueOK, TaskOK, SameTask, Settled, Quotes
<1>3. RecordsOnce' /\ RecordComplete'
  BY <1>1 DEF RecordsOnce, RecordComplete, Whole, IsRecord
<1>4. ASSUME NEW k \in Keys, states[k] # NoState
      PROVE  stream[states[k].src].key = k /\ EntryOK(states[k])'
  <2>1. stream[states[k].src].key = k /\ EntryOK(states[k])
    BY <1>1, <1>4 DEF EntriesOK
  <2>2. states[k].src < pos'
    <3>1. states[k].src \in Int /\ states[k].src < pos
      BY <1>4, <2>1 DEF EntryOK, SampleState
    <3>2. QED
      BY <3>1
  <2>3. QED
    BY <2>1, <2>2 DEF EntryOK, Settled, Unsettled
<1>5. EntriesOK'
  BY <1>4 DEF EntriesOK
<1>6. RecordsClosed'
  <2>1. ASSUME NEW j \in 1 .. Len(file) PROVE file[j].src < pos'
    <3>1. file[j].src \in Int /\ file[j].src < pos
      <4>1. file[j] \in Line
        BY ElementOfSeq
      <4>2. QED
        BY <1>1, <4>1 DEF RecordsClosed, Line
    <3>2. QED
      BY <3>1
  <2>2. QED
    BY <1>1, <2>1 DEF RecordsClosed
<1>7. QED
  BY <1>1, <1>2, <1>3, <1>5, <1>6 DEF CleanInv

\* The sample the loop is at is recorded at once.
LEMMA RecordStep ==
    ASSUME TypeOK, CleanInv, pc = "loop", pc' \in {"loop", "raised"}, pos \in 1 .. N, pos' = pos + 1,
           stream' = stream, states' = states, queueVars' = queueVars,
           NEW line \in Line, Whole(line), CompleteLine(line), line.src = pos,
           file' = Append(file, line)
    PROVE  CleanInv'
<1>1. /\ EntriesOK /\ QueueOK(states, LiveTasks) /\ ControlOK /\ RecordsClosed
      /\ RecordsOnce /\ RecordComplete
  BY DEF CleanInv, Over
<1>2. pos \in Int /\ pos' \in Int /\ pos < pos'
  OBVIOUS
<1>3. \A j \in 1 .. Len(file) : file[j].src # line.src /\ file[j].src < pos'
  <2> SUFFICES ASSUME NEW j \in 1 .. Len(file) PROVE file[j].src # pos /\ file[j].src < pos'
    OBVIOUS
  <2>1. file[j] \in Line
    BY ElementOfSeq DEF TypeOK
  <2>2. file[j].src \in Int
    BY <2>1, SchedulerAssumption DEF Line
  <2>3. file[j].src < pos
    BY <1>1 DEF RecordsClosed
  <2>4. QED
    BY <1>2, <2>2, <2>3
<1>4. ASSUME NEW k \in Keys, states[k] # NoState
      PROVE  /\ stream[states[k].src].key = k /\ EntryOK(states[k])'
             /\ states[k].src # line.src
             /\ \A j \in 1 .. Len(file) : states[k].src # file[j].src
  <2>1. stream[states[k].src].key = k /\ EntryOK(states[k])
    BY <1>1, <1>4 DEF EntriesOK
  <2>2. states[k].src \in Int
    BY <1>4 DEF TypeOK, SampleState
  <2>3. states[k].src < pos
    BY <2>1 DEF EntryOK
  <2>4. states[k].src < pos' /\ states[k].src # pos
    BY <1>2, <2>2, <2>3
  <2>5. EntryOK(states[k])'
    BY <2>1, <2>4 DEF EntryOK, Settled, Unsettled
  <2>6. QED
    BY <1>1, <1>4, <2>1, <2>4, <2>5 DEF RecordsClosed
<1>5. RecordsOnce' /\ RecordComplete' /\ RecordsClosed'
  BY <1>1, <1>2, <1>3, <1>4, RecordAdded DEF TypeOK
<1>6. EntriesOK'
  BY <1>4 DEF EntriesOK
<1>7. CASE pc' = "raised"
  BY <1>5, <1>7 DEF CleanInv, Over
<1>8. CASE pc' = "loop"
  <2>1. LiveTasks' = LiveTasks
    BY <1>8 DEF LiveTasks, queueVars
  <2>2. ControlOK'
    BY <1>1, <1>8 DEF ControlOK, InFlush, queueVars
  <2>3. QueueOK(states', LiveTasks')
    BY <1>1, <2>1
  <2>4. QueueOK(states, LiveTasks)'
    BY <2>3 DEF QueueOK, TaskOK, SameTask, Settled, Quotes
  <2>5. QED
    BY <1>5, <1>6, <2>2, <2>4 DEF CleanInv
<1>9. QED
  BY <1>7, <1>8

\* The first questions of a new entry join the queue.
LEMMA QueueJoin ==
    ASSUME stream \in Streams, NEW st \in [Keys -> SampleState \cup {NoState}],
           NEW k \in Keys, st[k] = NoState, NEW a \in SampleState,
           NEW L \in Seq(Task), NEW new \in Seq(Task), QueueOK(st, L),
           a.next = Len(new) + 1, \A q \in 1 .. Len(new) : ~Settled(a, q),
           \A i \in 1 .. Len(new) : new[i] = [key |-> k, q |-> i, quotes |-> Quotes(a, i)]
    PROVE  QueueOK([st EXCEPT ![k] = a], L \o new)
<1> DEFINE st2 == [st EXCEPT ![k] = a]
           M == L \o new
<1>1. /\ Len(L) \in Nat /\ Len(new) \in Nat /\ Len(M) = Len(L) + Len(new)
      /\ \A i \in 1 .. Len(L) : M[i] = L[i]
      /\ \A i \in 1 .. Len(new) : M[Len(L) + i] = new[i]
  BY ConcatProperties, LenProperties
<1>2. st2[k] = a /\ a # NoState /\ \A j \in Keys \ {k} : st2[j] = st[j]
  BY SchedulerAssumption
<1>3. ASSUME NEW i \in 1 .. Len(L)
      PROVE  L[i].key \in Keys /\ L[i].key # k /\ TaskOK(st2, L[i])
  <2>1. L[i] \in Task /\ TaskOK(st, L[i])
    BY ElementOfSeq DEF QueueOK
  <2>2. L[i].key \in Keys
    BY <2>1 DEF Task
  <2>3. L[i].key # k
    BY <2>1 DEF TaskOK
  <2>4. st2[L[i].key] = st[L[i].key]
    BY <2>2, <2>3
  <2> HIDE DEF st2
  <2>5. QED
    BY <2>1, <2>2, <2>3, <2>4 DEF TaskOK
<1> HIDE DEF st2, M
<1>4. ASSUME NEW i \in 1 .. Len(new)
      PROVE  /\ M[Len(L) + i].key = k /\ M[Len(L) + i].q = i
             /\ TaskOK(st2, M[Len(L) + i])
  <2>1. M[Len(L) + i] = [key |-> k, q |-> i, quotes |-> Quotes(a, i)]
    BY <1>1
  <2>2. i < a.next /\ ~Settled(a, i)
    BY <1>1
  <2>3. QED
    BY <1>2, <2>1, <2>2 DEF TaskOK
<1>5. ASSUME NEW i \in 1 .. Len(M)
      PROVE  /\ i \in 1 .. Len(L) \/ (i - Len(L) \in 1 .. Len(new) /\ Len(L) + (i - Len(L)) = i)
             /\ i \notin 1 .. Len(L) => M[i].key = k /\ M[i].q = i - Len(L)
  <2>1. i \in 1 .. Len(L) \/ (i - Len(L) \in 1 .. Len(new) /\ Len(L) + (i - Len(L)) = i)
    BY <1>1
  <2>2. ASSUME i \notin 1 .. Len(L) PROVE M[i].key = k /\ M[i].q = i - Len(L)
    <3>1. M[Len(L) + (i - Len(L))].key = k /\ M[Len(L) + (i - Len(L))].q = i - Len(L)
      BY <1>4, <2>1, <2>2
    <3>2. QED
      BY <2>1, <2>2, <3>1
  <2>3. QED
    BY <2>1, <2>2
<1>6. ASSUME NEW i \in 1 .. Len(M) PROVE TaskOK(st2, M[i])
  <2>1. CASE i \in 1 .. Len(L)
    BY <1>1, <1>3, <2>1
  <2>2. CASE i - Len(L) \in 1 .. Len(new) /\ Len(L) + (i - Len(L)) = i
    <3>1. TaskOK(st2, M[Len(L) + (i - Len(L))])
      BY <1>4, <2>2
    <3>2. QED
      BY <2>2, <3>1
  <2>3. QED
    BY <1>5, <2>1, <2>2
<1>7. ASSUME NEW i \in 1 .. Len(M), NEW j \in 1 .. Len(M), SameTask(M[i], M[j])
      PROVE  i = j
  <2>1. CASE i \in 1 .. Len(L) /\ j \in 1 .. Len(L)
    BY <1>1, <1>7, <2>1 DEF QueueOK
  <2>2. CASE i \in 1 .. Len(L) /\ j \notin 1 .. Len(L)
    <3>1. M[i] = L[i] /\ L[i].key # k
      BY <1>1, <1>3, <2>2
    <3>2. M[j].key = k
      BY <1>5, <2>2
    <3>3. QED
      BY <1>7, <3>1, <3>2 DEF SameTask
  <2>3. CASE i \notin 1 .. Len(L) /\ j \in 1 .. Len(L)
    <3>1. M[j] = L[j] /\ L[j].key # k
      BY <1>1, <1>3, <2>3
    <3>2. M[i].key = k
      BY <1>5, <2>3
    <3>3. QED
      BY <1>7, <3>1, <3>2 DEF SameTask
  <2>4. CASE i \notin 1 .. Len(L) /\ j \notin 1 .. Len(L)
    <3>1. M[i].q = i - Len(L) /\ M[j].q = j - Len(L)
      BY <1>5, <2>4
    <3>2. i - Len(L) = j - Len(L)
      BY <1>7, <3>1 DEF SameTask
    <3>3. QED
      BY <1>1, <3>2
  <2>5. QED
    BY <2>1, <2>2, <2>3, <2>4
<1>8. ASSUME NEW h \in Keys, st2[h] # NoState, NEW q \in 1 .. (st2[h].next - 1), ~Settled(st2[h], q)
      PROVE  \E i \in 1 .. Len(M) : M[i].key = h /\ M[i].q = q
  <2>1. CASE h = k
    <3>1. q \in 1 .. Len(new)
      BY <1>1, <1>2, <1>8, <2>1
    <3>2. Len(L) + q \in 1 .. Len(M)
      BY <1>1, <3>1
    <3>3. QED
      BY <1>4, <2>1, <3>1, <3>2
  <2>2. CASE h # k
    <3>1. st2[h] = st[h]
      BY <1>2, <2>2
    <3>2. PICK i \in 1 .. Len(L) : L[i].key = h /\ L[i].q = q
      BY <1>8, <3>1 DEF QueueOK
    <3>3. i \in 1 .. Len(M)
      BY <1>1
    <3>4. QED
      BY <1>1, <3>2, <3>3
  <2>3. QED
    BY <2>1, <2>2
<1>9. QueueOK(st2, M)
  BY <1>6, <1>7, <1>8 DEF QueueOK
<1>10. QED
  BY <1>9 DEF st2, M

\* What the first enqueue_ready_questions of a sample hands out.
LEMMA Admitted ==
    ASSUME Clean, TypeOK, pos \in 1 .. N, Sample.n > 0
    PROVE  LET a == Admission.state
               new == Admission.tasks
           IN /\ Admission.ok /\ a \in SampleState /\ new \in Seq(Task)
              /\ a.src = pos /\ a.preds = NoPredictions /\ a.errs = {} /\ a.remaining = Sample.n
              /\ Len(new) = IF Sample.conv THEN 1 ELSE Sample.n
              /\ a.next = Len(new) + 1
              /\ \A i \in 1 .. Len(new) : new[i] = [key |-> Sample.key, q |-> i, quotes |-> Quotes(a, i)]
<1> DEFINE s == NewState(pos)
           a == Admission.state
<1>1. Sample \in SampleShape /\ Sample = stream[pos] /\ stream \in Streams
  BY SampleType, SchedulerAssumption DEF TypeOK, Sample
<1>2. Sample.n \in Nat /\ Sample.conv \in BOOLEAN /\ Sample.key \in Keys
  BY <1>1, SchedulerAssumption DEF SampleShape
<1>3. /\ s \in SampleState /\ s.src = pos /\ s.next = 1 /\ s.remaining = Sample.n
      /\ s.preds = NoPredictions /\ s.errs = {}
  BY <1>1, <1>2 DEF NewState, SampleState, NoPredictions, Predictions
<1>4. \A q \in Questions : s.preds[q] # "marker"
  BY <1>3 DEF NoPredictions
<1> HIDE DEF s
<1>5. Due(s) = IF Sample.conv THEN 1 ELSE Sample.n
  BY <1>1, <1>2, <1>3 DEF Due
<1>6. LET e == Enqueue(Sample.key, s)
      IN /\ e.ok /\ Due(s) \in Nat
         /\ e.state = [s EXCEPT !.next = @ + Due(s)]
         /\ e.tasks \in Seq(Task) /\ Len(e.tasks) = Due(s)
         /\ \A i \in 1 .. Due(s) :
              e.tasks[i] = [key |-> Sample.key, q |-> s.next + i - 1,
                            quotes |-> Quotes(s, s.next + i - 1)]
  BY <1>1, <1>2, <1>3, <1>4, CleanEnqueue
<1>7. /\ Admission.ok /\ Due(s) \in Nat
      /\ a = [s EXCEPT !.next = @ + Due(s)]
      /\ Admission.tasks \in Seq(Task) /\ Len(Admission.tasks) = Due(s)
      /\ \A i \in 1 .. Due(s) :
           Admission.tasks[i] = [key |-> Sample.key, q |-> s.next + i - 1,
                                 quotes |-> Quotes(s, s.next + i - 1)]
  BY <1>6 DEF Admission, s
<1> HIDE DEF a
<1>8. /\ a \in SampleState /\ a.src = pos /\ a.next = 1 + Due(s) /\ a.remaining = Sample.n
      /\ a.preds = s.preds /\ a.errs = s.errs
  BY <1>3, <1>7, SMTT(30) DEF SampleState
<1>9. ASSUME NEW i \in 1 .. Due(s) PROVE s.next + i - 1 = i /\ Quotes(s, i) = Quotes(a, i)
  <2>1. s.next + i - 1 = i
    BY <1>3
  <2>2. Quotes(s, i) = Quotes(a, i)
    BY <1>3, <1>8 DEF Quotes
  <2>3. QED
    BY <2>1, <2>2
<1>10. \A i \in 1 .. Due(s) :
         Admission.tasks[i] = [key |-> Sample.key, q |-> i, quotes |-> Quotes(a, i)]
  BY <1>7, <1>9
<1>11. a.next = Len(Admission.tasks) + 1
  BY <1>7, <1>8
<1>12. QED
  BY <1>3, <1>5, <1>7, <1>8, <1>10, <1>11 DEF a

\* A sample becomes an entry.
LEMMA AdmitStep ==
    ASSUME Clean, TypeOK, TypeOK', CleanInv, Admit
    PROVE  CleanInv'
<1> DEFINE k == Sample.key
<1>0. PICK a, new : a = Admission.state /\ new = Admission.tasks
  OBVIOUS
<1>1. /\ EntriesOK /\ QueueOK(states, LiveTasks) /\ ControlOK /\ RecordsClosed
      /\ RecordsOnce /\ RecordComplete
  BY DEF CleanInv, Over, Admit, New, Reading
<1>2. /\ pc = "loop" /\ pos \in 1 .. N /\ pos' = pos + 1 /\ Sample.n > 0
      /\ states' = [states EXCEPT ![k] = a] /\ pending' = pending \o new
      /\ stream' = stream /\ file' = file /\ follow' = follow
      /\ IF Len(pending') >= BatchSize THEN pc' = "flush" /\ cursor' = 1
                                       ELSE pc' = pc /\ cursor' = cursor
  <2>1. pos \in 1 .. N
    BY SchedulerAssumption DEF Admit, New, Reading, TypeOK
  <2>2. QED
    BY <1>0, <2>1 DEF Admit, New, Reading
<1>3. /\ a \in SampleState /\ new \in Seq(Task)
      /\ a.src = pos /\ a.preds = NoPredictions /\ a.errs = {} /\ a.remaining = Sample.n
      /\ Len(new) = IF Sample.conv THEN 1 ELSE Sample.n
      /\ a.next = Len(new) + 1
      /\ \A i \in 1 .. Len(new) : new[i] = [key |-> k, q |-> i, quotes |-> Quotes(a, i)]
  BY <1>0, <1>2, Admitted
<1>4. Sample = stream[pos] /\ Sample \in SampleShape /\ k \in Keys
  <2>1. Sample = stream[pos] /\ Sample \in SampleShape
    BY <1>2, SchedulerAssumption DEF TypeOK, Sample
  <2>2. QED
    BY <2>1 DEF SampleShape
<1>5. Sample.n \in Nat /\ Sample.n <= MaxQ /\ Sample.conv \in BOOLEAN /\ MaxQ \in Nat
  BY <1>4, SchedulerAssumption DEF SampleShape
<1>6. stream \in Streams /\ states \in [Keys -> SampleState \cup {NoState}]
  BY DEF TypeOK
<1> HIDE DEF k
<1>7. states[k] = NoState
  <2> SUFFICES ASSUME states[k] # NoState PROVE FALSE
    OBVIOUS
  <2>1. states[k] \in SampleState /\ stream[states[k].src].key = k /\ states[k].src < pos
    BY <1>1, <1>4, <1>6 DEF EntriesOK, EntryOK
  <2>2. states[k].src \in 1 .. N
    BY <2>1 DEF SampleState
  <2>3. states[k].src = pos
    BY <1>2, <1>4, <1>6, <2>1, <2>2 DEF Clean, k
  <2>4. QED
    BY <1>2, <2>1, <2>3
<1>8. follow = <<>> /\ LiveTasks = pending /\ pending \in Seq(Task) /\ pending' \in Seq(Task)
  <2>1. follow = <<>> /\ pending \in Seq(Task) /\ pending' \in Seq(Task)
    BY <1>1, <1>2 DEF ControlOK, TypeOK
  <2>2. LiveTasks = pending \o follow
    BY <1>2 DEF LiveTasks
  <2>3. QED
    BY <2>1, <2>2, ConcatEmptySeq
<1>9. LiveTasks' = pending'
  <2>1. CASE pc' = "flush"
    <3>1. LiveTasks' = SubSeq(pending', 1, Len(pending')) \o follow'
      BY <1>2, <2>1 DEF LiveTasks
    <3>2. SubSeq(pending', 1, Len(pending')) = pending'
      BY <1>8, SubSeqFull
    <3>3. QED
      BY <1>2, <1>8, <3>1, <3>2, ConcatEmptySeq
  <2>2. CASE pc' = pc
    <3>1. LiveTasks' = pending' \o follow'
      BY <1>2, <2>2 DEF LiveTasks
    <3>2. QED
      BY <1>2, <1>8, <3>1, ConcatEmptySeq
  <2>3. QED
    BY <1>2, <2>1, <2>2
<1>10. \A q \in Questions : ~Settled(a, q)
  BY <1>3 DEF Settled, NoPredictions
<1>11. \A q \in 1 .. Len(new) : q \in Questions
  BY <1>2, <1>3, <1>5 DEF Questions
<1>12. QueueOK(states, LiveTasks)'
  <2>1. QueueOK([states EXCEPT ![k] = a], pending \o new)
    BY <1>1, <1>3, <1>4, <1>6, <1>7, <1>8, <1>10, <1>11, QueueJoin
  <2>2. QueueOK(states', LiveTasks')
    BY <1>2, <1>9, <2>1
  <2>3. QED
    BY <1>2, <2>2 DEF QueueOK, TaskOK, SameTask, Settled, Quotes
<1>13. ControlOK'
  <2>1. Len(pending') \in Nat
    BY <1>8, LenProperties
  <2>2. QED
    BY <1>1, <1>2, <1>8, <2>1 DEF ControlOK, InFlush
<1>14. stream[a.src].key = k /\ EntryOK(a)'
  <2>1. stream[a.src] = Sample /\ stream[a.src].key = k
    BY <1>3, <1>4 DEF k
  <2>2. Unsettled(a) = 1 .. Sample.n
    BY <1>5, <1>10, <2>1 DEF Unsettled, Questions
  <2>3. 1 .. Sample.n # {} /\ Cardinality(1 .. Sample.n) = Sample.n
    <3>1. 1 \in 1 .. Sample.n
      BY <1>2, <1>5
    <3>2. 1 \in Int /\ Sample.n \in Int /\ ~(1 > Sample.n)
      BY <1>2, <1>5
    <3>3. Cardinality(1 .. Sample.n) = Sample.n - 1 + 1
      BY <3>2, FS_Interval
    <3>4. QED
      BY <1>5, <3>1, <3>3
  <2>4. a.src < pos' /\ a.next \in 2 .. (Sample.n + 1)
    BY <1>2, <1>3, <1>5
  <2>5. \A q \in Questions : a.preds[q] = "none" /\ q \notin a.errs
    BY <1>3 DEF NoPredictions
  <2>6. ~Sample.conv => a.next = Sample.n + 1
    BY <1>3
  <2>7. Sample.conv => ~Settled(a, a.next - 1) /\ \A q \in 1 .. (a.next - 2) : Settled(a, q)
    <3>1. 1 \in Questions
      BY <1>2, <1>5 DEF Questions
    <3>2. Sample.conv => a.next - 1 = 1 /\ a.next - 2 = 0
      BY <1>3
    <3>3. QED
      BY <1>10, <3>1, <3>2
  <2>8. QED
    BY <1>2, <1>3, <1>10, <2>1, <2>2, <2>3, <2>4, <2>5, <2>6, <2>7
       DEF EntryOK, Settled, Unsettled
<1>15. ASSUME NEW h \in Keys, h # k, states[h] # NoState
       PROVE  stream[states[h].src].key = h /\ EntryOK(states[h])'
  <2>1. stream[states[h].src].key = h /\ EntryOK(states[h])
    BY <1>1, <1>15 DEF EntriesOK
  <2>2. states[h].src \in 1 .. N
    BY <1>6, <1>15 DEF SampleState
  <2>3. states[h].src < pos'
    BY <1>2, <2>1, <2>2 DEF EntryOK
  <2>4. states'[h] = states[h]
    BY <1>2, <1>6, <1>15
  <2>5. QED
    BY <1>2, <2>1, <2>3, <2>4 DEF EntryOK, Settled, Unsettled
<1>16. EntriesOK'
  <2> SUFFICES ASSUME NEW h \in Keys, states'[h] # NoState
               PROVE  stream'[states'[h].src].key = h /\ EntryOK(states[h])'
    BY DEF EntriesOK
  <2>1. CASE h = k
    <3>1. states'[h] = a
      BY <1>2, <1>4, <1>6, <2>1
    <3>2. QED
      BY <1>2, <1>14, <2>1, <3>1 DEF EntryOK, Settled, Unsettled
  <2>2. CASE h # k
    <3>1. states'[h] = states[h]
      BY <1>2, <1>6, <2>2
    <3>2. QED
      BY <1>2, <1>15, <2>2, <3>1 DEF EntryOK, Settled, Unsettled
  <2>3. QED
    BY <2>1, <2>2
<1>17. RecordsOnce' /\ RecordComplete'
  BY <1>1, <1>2 DEF RecordsOnce, RecordComplete, Whole, IsRecord
<1>18. RecordsClosed'
  <2> SUFFICES ASSUME NEW j \in 1 .. Len(file)
               PROVE  /\ file[j].src < pos'
                      /\ \A h \in Keys : states'[h] # NoState => states'[h].src # file[j].src
    BY <1>2 DEF RecordsClosed
  <2>1. file[j] \in Line
    BY ElementOfSeq DEF TypeOK
  <2>2. file[j].src \in Int
    BY <2>1, SchedulerAssumption DEF Line
  <2>3. file[j].src < pos /\ \A h \in Keys : states[h] # NoState => states[h].src # file[j].src
    BY <1>1 DEF RecordsClosed
  <2>4. file[j].src < pos' /\ file[j].src # pos
    BY <1>2, <2>2, <2>3
  <2>5. states'[k] = a /\ \A h \in Keys : h # k => states'[h] = states[h]
    BY <1>2, <1>4, <1>6
  <2>6. QED
    BY <1>3, <2>3, <2>4, <2>5
<1>19. QED
  BY <1>12, <1>13, <1>16, <1>17, <1>18 DEF CleanInv

\* An entry has a live task: the fallback after the loop finds nothing to write.
LEMMA EntryIsLive ==
    ASSUME TypeOK, EntriesOK, NEW L, QueueOK(states, L), NEW k \in Keys, states[k] # NoState
    PROVE  \E i \in 1 .. Len(L) : L[i].key = k
<1> DEFINE s == states[k]
<1>1. s \in SampleState /\ EntryOK(s) /\ stream \in Streams
  BY DEF TypeOK, EntriesOK
<1>2. stream[s.src].n \in Nat /\ stream[s.src].conv \in BOOLEAN /\ s.next \in Nat
  BY <1>1, EntryShape, SchedulerAssumption
<1> HIDE DEF s
<1>3. \E q \in 1 .. (s.next - 1) : ~Settled(s, q)
  <2>1. CASE stream[s.src].conv
    <3>1. s.next - 1 \in 1 .. (s.next - 1) /\ ~Settled(s, s.next - 1)
      BY <1>1, <1>2, <2>1 DEF EntryOK
    <3>2. QED
      BY <3>1
  <2>2. CASE ~stream[s.src].conv
    <3>1. PICK q \in 1 .. stream[s.src].n : ~Settled(s, q)
      BY <1>1 DEF EntryOK, Unsettled
    <3>2. s.next = stream[s.src].n + 1
      BY <1>1, <2>2 DEF EntryOK
    <3>3. q \in 1 .. (s.next - 1)
      BY <1>2, <3>2
    <3>4. QED
      BY <3>1, <3>3
  <2>3. QED
    BY <2>1, <2>2
<1>4. QED
  BY <1>3 DEF QueueOK, s

\* A step that neither answers nor admits nor records, but may start or end a flush.
LEMMA OtherStep ==
    ASSUME TypeOK, TypeOK', CleanInv, ~Over, stream' = stream, states' = states, file' = file,
           pos' \in {pos, pos + 1}, Over' \/ (LiveTasks' = LiveTasks /\ ControlOK')
    PROVE  CleanInv'
<1>1. CASE Over'
  <2>1. RecordsOnce /\ RecordComplete
    BY DEF CleanInv
  <2>2. RecordsOnce' /\ RecordComplete'
    BY <2>1 DEF RecordsOnce, RecordComplete, Whole, IsRecord
  <2>3. QED
    BY <1>1, <2>2 DEF CleanInv
<1>2. CASE LiveTasks' = LiveTasks /\ ControlOK'
  <2>1. pos \in Int /\ pos' \in Int /\ pos <= pos' /\ N \in Int
    BY SchedulerAssumption DEF TypeOK
  <2>2. QED
    BY <1>2, <2>1, QuietStep DEF TypeOK
<1>3. QED
  BY <1>1, <1>2

\* A sample without questions, or whose image cannot be read, has its record at once.
LEMMA RecordedHere ==
    ASSUME Clean, TypeOK, CleanInv, RecordEmpty \/ LoadFails
    PROVE  /\ pc = "loop" /\ pc' \in {"loop", "raised"} /\ pos \in 1 .. N /\ pos' = pos + 1
           /\ stream' = stream /\ states' = states /\ queueVars' = queueVars
           /\ \E line \in Line :
                /\ Whole(line) /\ CompleteLine(line) /\ line.src = pos /\ file' = Append(file, line)
                /\ \/ Sample.n = 0 /\ line.kind = "answers"
                   \/ Sample.n > 0 /\ line = LoadLine(pos)
<1>0. /\ pc = "loop" /\ phase = "read" /\ ~Over /\ ControlOK /\ WriteOutcomes = {"ok"}
      /\ file \in Seq(Line) /\ \A j \in 1 .. Len(file) : Whole(file[j])
  <2>1. pc = "loop" /\ phase = "read"
    BY DEF RecordEmpty, LoadFails, New, Reading
  <2>2. WriteOutcomes = {"ok"}
    BY DEF Clean, WriteOutcomes
  <2>3. QED
    BY <2>1, <2>2 DEF Over, CleanInv, RecordsOnce, TypeOK
<1>1. CASE RecordEmpty
  <2>1. New /\ Reading /\ Sample.n = 0
    BY <1>1 DEF RecordEmpty, New
  <2>2. /\ pos \in 1 .. N /\ AnswersLine(NewState(pos)) \in Line
        /\ AnswersLine(NewState(pos)).kind = "answers" /\ AnswersLine(NewState(pos)).src = pos
    BY <2>1, SampleType
  <2>3. /\ file' = JsonlAppend(file, AnswersLine(NewState(pos)), "ok") /\ pos' = pos + 1 /\ pc' = pc
        /\ stream' = stream /\ states' = states /\ queueVars' = queueVars
    BY <1>0, <1>1 DEF RecordEmpty
  <2>4. file' = Append(file, AnswersLine(NewState(pos)))
    BY <1>0, <2>2, <2>3, CleanAppend
  <2>5. Whole(AnswersLine(NewState(pos))) /\ CompleteLine(AnswersLine(NewState(pos)))
    <3>1. AnswersLine(NewState(pos)).ended
      BY DEF AnswersLine
    <3>2. QED
      BY <2>1, <2>2, <3>1 DEF Whole, IsRecord, CompleteLine, Sample
  <2>6. QED
    BY <1>0, <2>1, <2>2, <2>3, <2>4, <2>5
<1>2. CASE LoadFails
  <2>1. New /\ Reading /\ Sample.n > 0
    BY <1>2 DEF LoadFails, New
  <2>2. pos \in 1 .. N /\ LoadLine(pos) \in Line /\ LoadLine(pos).kind = "load" /\ LoadLine(pos).src = pos
    BY <2>1, SampleType
  <2>3. /\ file' = JsonlAppend(file, LoadLine(pos), "ok") /\ pos' = pos + 1 /\ pc' \in {"loop", "raised"}
        /\ stream' = stream /\ states' = states /\ queueVars' = queueVars
    BY <1>0, <1>2 DEF LoadFails, RecordLoadError
  <2>4. file' = Append(file, LoadLine(pos))
    BY <1>0, <2>2, <2>3, CleanAppend
  <2>5. Whole(LoadLine(pos)) /\ CompleteLine(LoadLine(pos))
    <3>1. LoadLine(pos).ended
      BY DEF LoadLine
    <3>2. QED
      BY <2>2, <3>1 DEF Whole, IsRecord, CompleteLine
  <2>6. QED
    BY <1>0, <2>1, <2>2, <2>3, <2>4, <2>5
<1>3. QED
  BY <1>1, <1>2

LEMMA LoopSteps ==
    ASSUME Clean, TypeOK, TypeOK', CleanInv, ReadStep
    PROVE  CleanInv'
<1>0. /\ pc = "loop" /\ phase = "read" /\ ~Over /\ ControlOK /\ WriteOutcomes = {"ok"}
      /\ file \in Seq(Line) /\ \A j \in 1 .. Len(file) : Whole(file[j])
  <2>1. pc = "loop" /\ phase = "read"
    BY DEF ReadStep, SkipRecorded, StopReading, RecordEmpty, LoadFails, Admit, AdmitFails, New, Reading
  <2>2. WriteOutcomes = {"ok"}
    BY DEF Clean, WriteOutcomes
  <2>3. QED
    BY <2>1, <2>2 DEF Over, CleanInv, RecordsOnce, TypeOK
<1>1. CASE SkipRecorded
  <2>1. /\ stream' = stream /\ states' = states /\ file' = file /\ pos' = pos + 1
        /\ pc' = pc /\ pending' = pending /\ follow' = follow /\ cursor' = cursor
    BY <1>1 DEF SkipRecorded, queueVars
  <2>2. LiveTasks' = LiveTasks /\ ControlOK'
    BY <1>0, <2>1 DEF LiveTasks, ControlOK, InFlush
  <2>3. QED
    BY <1>0, <2>1, <2>2, OtherStep
<1>2. CASE StopReading
  <2>1. /\ stream' = stream /\ states' = states /\ file' = file /\ pos' = pos
        /\ pc' = pc /\ pending' = pending /\ follow' = follow /\ cursor' = cursor
    BY <1>2 DEF StopReading, queueVars
  <2>2. LiveTasks' = LiveTasks /\ ControlOK'
    BY <1>0, <2>1 DEF LiveTasks, ControlOK, InFlush
  <2>3. QED
    BY <1>0, <2>1, <2>2, OtherStep
<1>3. CASE RecordEmpty \/ LoadFails
  BY <1>3, RecordedHere, RecordStep
<1>4. CASE Admit
  BY <1>4, AdmitStep
<1>5. CASE AdmitFails
  <2>1. pos \in 1 .. N /\ Sample.n > 0 /\ ~Admission.ok
    BY <1>5, SampleType DEF AdmitFails, New
  <2>2. QED
    BY <2>1, Admitted
<1>6. QED
  BY <1>1, <1>2, <1>3, <1>4, <1>5 DEF ReadStep

\* The defensive fallback never writes.
LEMMA NoFallback ==
    ASSUME TypeOK, CleanInv, NEW k \in Keys, Fallback(k)
    PROVE  FALSE
<1>1. pc = "loop" /\ pending = <<>> /\ states[k] # NoState
  BY DEF Fallback
<1>2. EntriesOK /\ QueueOK(states, LiveTasks) /\ follow = <<>>
  BY <1>1 DEF Over, CleanInv, ControlOK
<1>3. LiveTasks = <<>>
  <2>1. LiveTasks = <<>> \o <<>>
    BY <1>1, <1>2 DEF LiveTasks
  <2>2. QED
    BY <2>1, EmptySeq, ConcatEmptySeq
<1>4. \E i \in 1 .. Len(LiveTasks) : LiveTasks[i].key = k
  BY <1>1, <1>2, EntryIsLive
<1>5. Len(LiveTasks) = 0
  BY <1>3
<1>6. QED
  BY <1>4, <1>5

LEMMA DrainSteps ==
    ASSUME Clean, TypeOK, TypeOK', CleanInv, DrainStep
    PROVE  CleanInv'
<1>0. pc = "loop" /\ ~Over /\ ControlOK /\ follow = <<>> /\ pending \in Seq(Task)
  <2>1. pc = "loop"
    BY DEF DrainStep, DrainFlush, Return, Fallback
  <2>2. QED
    BY <2>1 DEF Over, CleanInv, ControlOK, TypeOK
<1>1. LiveTasks = pending
  <2>1. LiveTasks = pending \o follow
    BY <1>0 DEF LiveTasks
  <2>2. QED
    BY <1>0, <2>1, ConcatEmptySeq
<1>2. CASE DrainFlush
  <2>1. /\ stream' = stream /\ states' = states /\ file' = file /\ pos' = pos
        /\ pc' = "flush" /\ pending' = pending /\ follow' = follow /\ cursor' = 1
    BY <1>2 DEF DrainFlush
  <2>2. LiveTasks' = pending
    <3>1. LiveTasks' = SubSeq(pending', 1, Len(pending')) \o follow'
      BY <2>1 DEF LiveTasks
    <3>2. SubSeq(pending, 1, Len(pending)) = pending
      BY <1>0, SubSeqFull
    <3>3. QED
      BY <1>0, <2>1, <3>1, <3>2, ConcatEmptySeq
  <2>3. ControlOK'
    BY <1>0, <2>1, LenProperties DEF ControlOK, InFlush
  <2>4. QED
    BY <1>0, <1>1, <2>1, <2>2, <2>3, OtherStep
<1>3. CASE Return
  <2>1. /\ stream' = stream /\ states' = states /\ file' = file /\ pos' = pos /\ pc' = "done"
    BY <1>3 DEF Return
  <2>2. Over'
    BY <2>1 DEF Over
  <2>3. QED
    BY <1>0, <2>1, <2>2, OtherStep
<1>4. QED
  BY <1>2, <1>3, NoFallback DEF DrainStep

\* update_success and update_error: whatever step stores an outcome stores one of the
\* current task, and goes on to the next.
LEMMA AnswerStep ==
    ASSUME Clean, TypeOK, CleanInv, ApplyOutput \/ AskAlone \/ RecordError
    PROVE  /\ InFlush /\ MoreTasks /\ pc' \in {"apply", "single"} /\ cursor' = cursor + 1
           /\ pending' = pending /\ stream' = stream /\ pos' = pos
           /\ \E s1, o : /\ Settles(states[CurrentTask.key], s1, CurrentTask.q)
                         /\ Advance(CurrentTask.key, s1, o) /\ Store(o, CurrentTask.key)
<1>0. /\ InFlush /\ ~Over /\ ControlOK /\ WriteOutcomes = {"ok"} /\ stream \in Streams
      /\ file \in Seq(Line) /\ \A j \in 1 .. Len(file) : Whole(file[j])
      /\ pending \in Seq(Task) /\ follow \in Seq(Task)
  <2>1. InFlush
    BY DEF ApplyOutput, AskAlone, RecordError, InFlush
  <2>2. WriteOutcomes = {"ok"}
    BY DEF Clean, WriteOutcomes
  <2>3. QED
    BY <2>1, <2>2 DEF Over, InFlush, CleanInv, RecordsOnce, TypeOK
\* What storing an outcome of the current task comes to.
<1> DEFINE t == CurrentTask
           s == states[t.key]
<1>1. ASSUME MoreTasks, NEW s1, Settles(s, s1, t.q)
      PROVE  Advance(t.key, s1, CountDown(t.key, s1, "ok"))
  <2>1. /\ t.key \in Keys /\ t.q \in Questions /\ s \in SampleState
        /\ EntryOK(s) /\ t.q < s.next /\ ~Settled(s, t.q)
    BY <1>0, <1>1, CurrentOpen
  <2> HIDE DEF t, s
  <2>2. QED
    BY <1>0, <1>1, <2>1, CountDownAdvance
<1>2. ASSUME MoreTasks, NEW answer \in Answers
      PROVE  \E s1 : /\ Settles(s, s1, t.q)
                     /\ Success(t, answer, "ok") = CountDown(t.key, s1, "ok")
  <2>1. t.q \in Questions /\ s \in SampleState /\ ~Settled(s, t.q) /\ Found(t)
    BY <1>0, <1>2, CurrentOpen
  <2> DEFINE s1 == [s EXCEPT !.preds[t.q] = answer]
  <2>2. Success(t, answer, "ok") = CountDown(t.key, s1, "ok")
    BY <2>1 DEF Success
  <2> HIDE DEF t, s
  <2>3. Settles(s, s1, t.q)
    BY <2>1, SuccessSettles
  <2> HIDE DEF s1
  <2>4. QED
    BY <2>2, <2>3
<1>3. ASSUME MoreTasks
      PROVE  \E s1 : /\ Settles(s, s1, t.q)
                     /\ Failure(t, "ok") = CountDown(t.key, s1, "ok")
  <2>1. t.q \in Questions /\ s \in SampleState /\ ~Settled(s, t.q) /\ Found(t)
    BY <1>0, <1>3, CurrentOpen
  <2> DEFINE s1 == [s EXCEPT !.errs = @ \cup {t.q}]
  <2>2. Failure(t, "ok") = CountDown(t.key, s1, "ok")
    BY <2>1 DEF Failure
  <2> HIDE DEF t, s
  <2>3. Settles(s, s1, t.q)
    BY <2>1, FailureSettles
  <2> HIDE DEF s1
  <2>4. QED
    BY <2>2, <2>3
<1>4. CASE ApplyOutput
  <2>1. MoreTasks /\ stream' = stream /\ pos' = pos /\ pending' = pending /\ pc = "apply"
    BY <1>4 DEF ApplyOutput
  <2>2. PICK answer \in Answers :
          LET outcome == Success(t, answer, "ok")
          IN /\ Store(outcome, t.key)
             /\ IF outcome.ok THEN cursor' = cursor + 1 /\ pc' = pc ELSE RecoverOrRaise
    BY <1>0, <1>4 DEF ApplyOutput
  <2>3. PICK s1 : Settles(s, s1, t.q) /\ Success(t, answer, "ok") = CountDown(t.key, s1, "ok")
    BY <1>2, <2>1
  <2>4. Advance(t.key, s1, CountDown(t.key, s1, "ok")) /\ Store(CountDown(t.key, s1, "ok"), t.key)
    BY <1>1, <2>1, <2>2, <2>3
  <2>5. cursor' = cursor + 1 /\ pc' = "apply"
    BY <2>1, <2>2, <2>3, <2>4 DEF Advance
  <2>6. QED
    BY <1>0, <2>1, <2>3, <2>4, <2>5
<1>5. CASE AskAlone
  <2>1. MoreTasks /\ stream' = stream /\ pos' = pos /\ pending' = pending /\ pc = "single"
    BY <1>5 DEF AskAlone
  <2>2. PICK answer \in Answers :
          LET outcome == Success(t, answer, "ok")
          IN /\ Store(outcome, t.key)
             /\ outcome.ok => cursor' = cursor + 1 /\ pc' = pc
    BY <1>0, <1>5 DEF AskAlone
  <2>3. PICK s1 : Settles(s, s1, t.q) /\ Success(t, answer, "ok") = CountDown(t.key, s1, "ok")
    BY <1>2, <2>1
  <2>4. Advance(t.key, s1, CountDown(t.key, s1, "ok")) /\ Store(CountDown(t.key, s1, "ok"), t.key)
    BY <1>1, <2>1, <2>2, <2>3
  <2>5. cursor' = cursor + 1 /\ pc' = "single"
    BY <2>1, <2>2, <2>3, <2>4 DEF Advance
  <2>6. QED
    BY <1>0, <2>1, <2>3, <2>4, <2>5
<1>6. CASE RecordError
  <2>1. MoreTasks /\ stream' = stream /\ pos' = pos /\ pending' = pending
    BY <1>6 DEF RecordError, MoreTasks, TypeOK
  <2>2. LET outcome == Failure(t, "ok")
        IN /\ Store(outcome, t.key)
           /\ outcome.ok => cursor' = cursor + 1 /\ pc' = "single"
    BY <1>0, <1>6 DEF RecordError
  <2>3. PICK s1 : Settles(s, s1, t.q) /\ Failure(t, "ok") = CountDown(t.key, s1, "ok")
    BY <1>3, <2>1
  <2>4. Advance(t.key, s1, CountDown(t.key, s1, "ok")) /\ Store(CountDown(t.key, s1, "ok"), t.key)
    BY <1>1, <2>1, <2>2, <2>3
  <2>5. cursor' = cursor + 1 /\ pc' = "single"
    BY <2>2, <2>3, <2>4 DEF Advance
  <2>6. QED
    BY <1>0, <2>1, <2>3, <2>4, <2>5
<1>7. QED
  BY <1>4, <1>5, <1>6

LEMMA FlushSteps ==
    ASSUME Clean, TypeOK, TypeOK', CleanInv, FlushStep
    PROVE  CleanInv'
<1>0. /\ InFlush /\ ~Over /\ ControlOK /\ WriteOutcomes = {"ok"} /\ stream \in Streams
      /\ file \in Seq(Line) /\ \A j \in 1 .. Len(file) : Whole(file[j])
      /\ pending \in Seq(Task) /\ follow \in Seq(Task)
  <2>1. InFlush
    BY DEF FlushStep, Generate, GenerateFails, ApplyOutput, AskAlone, AskAloneFails, RecordError,
           EndFlush, InFlush
  <2>2. WriteOutcomes = {"ok"}
    BY DEF Clean, WriteOutcomes
  <2>3. QED
    BY <2>1, <2>2 DEF Over, InFlush, CleanInv, RecordsOnce, TypeOK
<1>1. CASE Generate
  <2>1. /\ stream' = stream /\ states' = states /\ file' = file /\ pos' = pos
        /\ pc = "flush" /\ pc' = "apply"
        /\ pending' = pending /\ follow' = follow /\ cursor' = cursor
    BY <1>1 DEF Generate, queueVars
  <2>2. LiveTasks' = LiveTasks
    BY <2>1 DEF LiveTasks
  <2>3. ControlOK'
    BY <1>0, <2>1 DEF ControlOK, InFlush
  <2>4. QED
    BY <1>0, <2>1, <2>2, <2>3, OtherStep
<1>2. CASE GenerateFails
  <2>1. /\ stream' = stream /\ states' = states /\ file' = file /\ pos' = pos
        /\ pc = "flush" /\ pending' = pending /\ follow' = follow /\ RecoverOrRaise
    BY <1>2 DEF GenerateFails
  <2>2. cursor = 1
    BY <1>0, <2>1 DEF ControlOK
  <2>3. CASE pc' = "single" /\ cursor' = 1
    <3>1. LiveTasks' = LiveTasks
      BY <2>1, <2>2, <2>3 DEF LiveTasks
    <3>2. ControlOK'
      BY <1>0, <2>1, <2>2, <2>3 DEF ControlOK, InFlush
    <3>3. QED
      BY <1>0, <2>1, <3>1, <3>2, OtherStep
  <2>4. CASE pc' = "raised"
    BY <1>0, <2>1, <2>4, OtherStep DEF Over
  <2>5. QED
    BY <2>1, <2>3, <2>4 DEF RecoverOrRaise
<1>3. CASE AskAloneFails
  <2>1. /\ stream' = stream /\ states' = states /\ file' = file /\ pos' = pos
        /\ pc = "single" /\ pc' = "except"
        /\ pending' = pending /\ follow' = follow /\ cursor' = cursor
    BY <1>3 DEF AskAloneFails, queueVars
  <2>2. LiveTasks' = LiveTasks
    BY <2>1 DEF LiveTasks
  <2>3. ControlOK'
    BY <1>0, <2>1 DEF ControlOK, InFlush
  <2>4. QED
    BY <1>0, <2>1, <2>2, <2>3, OtherStep
<1>4. CASE EndFlush
  <2>1. /\ stream' = stream /\ states' = states /\ file' = file /\ pos' = pos
        /\ pc' = "loop" /\ pending' = follow /\ follow' = <<>> /\ ~MoreTasks
    BY <1>4 DEF EndFlush
  <2>2. cursor \in Int /\ Len(pending) \in Int /\ Len(pending) < cursor
    BY <1>0, <2>1, LenProperties DEF MoreTasks, TypeOK
  <2>3. LiveTasks = follow
    <3>1. LiveTasks = SubSeq(pending, cursor, Len(pending)) \o follow
      BY <1>0 DEF LiveTasks, InFlush
    <3>2. SubSeq(pending, cursor, Len(pending)) = <<>>
      BY <2>2, SubSeqEmpty
    <3>3. QED
      BY <1>0, <3>1, <3>2, ConcatEmptySeq
  <2>4. LiveTasks' = follow
    <3>1. LiveTasks' = pending' \o follow'
      BY <2>1 DEF LiveTasks
    <3>2. QED
      BY <1>0, <2>1, <3>1, ConcatEmptySeq
  <2>5. ControlOK'
    BY <2>1 DEF ControlOK, InFlush
  <2>6. QED
    BY <1>0, <2>1, <2>3, <2>4, <2>5, OtherStep
<1>5. CASE ApplyOutput \/ AskAlone \/ RecordError
  BY <1>5, AnswerStep, HeadStep
<1>6. QED
  BY <1>1, <1>2, <1>3, <1>4, <1>5 DEF FlushStep

LEMMA CleanStep ==
    ASSUME Clean, TypeOK, TypeOK', CleanInv, [Next]_vars
    PROVE  CleanInv'
<1>1. CASE UNCHANGED vars
  <2>1. /\ stream' = stream /\ states' = states /\ file' = file /\ pos' = pos /\ pc' = pc
        /\ pending' = pending /\ follow' = follow /\ cursor' = cursor
    BY <1>1 DEF vars
  <2>2. CASE Over
    <3>1. RecordsOnce /\ RecordComplete
      BY DEF CleanInv
    <3>2. RecordsOnce' /\ RecordComplete' /\ Over'
      BY <2>1, <2>2, <3>1 DEF RecordsOnce, RecordComplete, Whole, IsRecord, Over
    <3>3. QED
      BY <3>2 DEF CleanInv
  <2>3. CASE ~Over
    <3>1. LiveTasks' = LiveTasks
      BY <2>1 DEF LiveTasks
    <3>2. ControlOK'
      BY <2>1, <2>3 DEF ControlOK, InFlush, CleanInv
    <3>3. QED
      BY <2>1, <2>3, <3>1, <3>2, OtherStep
  <2>4. QED
    BY <2>2, <2>3
<1>2. QED
  BY <1>1, LoopSteps, DrainSteps, FlushSteps DEF Next, Finished

LEMMA CleanInit == Init => CleanInv
<1> SUFFICES ASSUME Init PROVE CleanInv
  OBVIOUS
<1>1. /\ file = <<>> /\ Len(file) = 0 /\ pc = "loop" /\ follow = <<>> /\ pending = <<>>
      /\ \A k \in Keys : states[k] = NoState
  BY DEF Init
<1>2. RecordsOnce /\ RecordComplete /\ RecordsClosed
  BY <1>1 DEF RecordsOnce, RecordComplete, RecordsClosed
<1>3. LiveTasks = <<>>
  <2>1. LiveTasks = <<>> \o <<>>
    BY <1>1 DEF LiveTasks
  <2>2. QED
    BY <2>1, EmptySeq, ConcatEmptySeq
<1>4. Len(LiveTasks) = 0
  BY <1>3
<1>5. QueueOK(states, LiveTasks)
  BY <1>1, <1>4 DEF QueueOK
<1>6. EntriesOK /\ ControlOK
  BY <1>1 DEF EntriesOK, ControlOK, InFlush
<1>7. QED
  BY <1>2, <1>5, <1>6 DEF CleanInv

\* What a clean call keeps invariant, for every dataset, batch size and fault of
\* loading or generating.
LEMMA CleanRuns == ASSUME Clean PROVE Spec => [](TypeOK /\ CleanInv)
<1>1. Init => TypeOK /\ CleanInv
  BY TypeInit, CleanInit
<1>2. TypeOK /\ CleanInv /\ [Next]_vars => TypeOK' /\ CleanInv'
  BY TypeStep, CleanStep
<1>3. QED
  BY <1>1, <1>2, PTL DEF Spec

\* No sample is recorded twice, whatever fails to load or to generate.
THEOREM RecordedOnce == ASSUME Clean PROVE Spec => []OneRecord
<1>1. TypeOK /\ CleanInv => OneRecord
  BY DEF CleanInv, RecordsOnce, OneRecord
<1>2. QED
  BY <1>1, CleanRuns, PTL

\* No sample is recorded before its last question has its answer or its error:
\* a repeated batch, a recovery or the fallback never writes half a sample.
THEOREM RecordedWhole == ASSUME Clean PROVE Spec => []RecordComplete
<1>1. TypeOK /\ CleanInv => RecordComplete
  BY DEF CleanInv
<1>2. QED
  BY <1>1, CleanRuns, PTL

\* No question is lost and none is asked twice: remaining counts the questions
\* without outcome, and each scheduled one has exactly one live task.
THEOREM EachQuestionOnce == ASSUME Clean PROVE Spec => []Accounting
<1>1. TypeOK /\ CleanInv => Accounting
  <2> SUFFICES ASSUME TypeOK, CleanInv, ~Over, NEW k \in InFlight
               PROVE  LET s == states[k]
                      IN /\ s.remaining = Cardinality(Unsettled(s)) /\ s.remaining > 0
                         /\ \A q \in 1 .. stream[s.src].n :
                              Cardinality({i \in 1 .. Len(LiveTasks) :
                                             LiveTasks[i].key = k /\ LiveTasks[i].q = q})
                                = IF q < s.next /\ ~Settled(s, q) THEN 1 ELSE 0
    BY DEF Accounting
  <2> DEFINE s == states[k]
             at(q) == {i \in 1 .. Len(LiveTasks) : LiveTasks[i].key = k /\ LiveTasks[i].q = q}
  <2>1. k \in Keys /\ s # NoState /\ EntryOK(s) /\ QueueOK(states, LiveTasks) /\ s \in SampleState
    BY DEF InFlight, CleanInv, EntriesOK, TypeOK
  <2>2. s.remaining = Cardinality(Unsettled(s)) /\ s.remaining > 0
    <3>1. Cardinality(Unsettled(s)) \in Nat /\ IsFiniteSet(Unsettled(s))
      BY <2>1, EntryShape DEF TypeOK
    <3>2. Unsettled(s) # {} /\ s.remaining = Cardinality(Unsettled(s))
      BY <2>1 DEF EntryOK
    <3>3. Cardinality(Unsettled(s)) # 0
      BY <3>1, <3>2, FS_EmptySet
    <3>4. QED
      BY <3>1, <3>2, <3>3
  <2>3. ASSUME NEW q \in 1 .. stream[s.src].n
        PROVE  Cardinality(at(q)) = IF q < s.next /\ ~Settled(s, q) THEN 1 ELSE 0
    <3>1. CASE q < s.next /\ ~Settled(s, q)
      <4>1. q \in 1 .. (s.next - 1)
        BY <2>1, <3>1 DEF SampleState
      <4>2. PICK i \in 1 .. Len(LiveTasks) : LiveTasks[i].key = k /\ LiveTasks[i].q = q
        BY <2>1, <3>1, <4>1 DEF QueueOK
      <4>3. \A j \in at(q) : j = i
        BY <2>1, <4>2 DEF QueueOK, SameTask
      <4>4. at(q) = {i}
        BY <4>2, <4>3
      <4> HIDE DEF at
      <4>5. QED
        BY <3>1, <4>4, FS_Singleton
    <3>2. CASE ~(q < s.next /\ ~Settled(s, q))
      <4>1. at(q) = {}
        BY <2>1, <3>2 DEF QueueOK, TaskOK
      <4> HIDE DEF at
      <4>2. QED
        BY <3>2, <4>1, FS_EmptySet
    <3>3. QED
      BY <3>1, <3>2
  <2>4. QED
    BY <2>2, <2>3
<1>2. QED
  BY <1>1, CleanRuns, PTL

\* A prompt waiting to be sent quotes exactly the earlier answers of its sample, and
\* none of its earlier turns is still open.
THEOREM PromptsNeverStale == ASSUME Clean PROVE Spec => []PromptsCurrent
<1>1. TypeOK /\ CleanInv => PromptsCurrent
  <2> SUFFICES ASSUME TypeOK, CleanInv, ~Over, NEW i \in 1 .. Len(LiveTasks)
               PROVE  LET t == LiveTasks[i]
                          s == states[t.key]
                      IN s # NoState /\ t.quotes = Quotes(s, t.q)
                         /\ (stream[s.src].conv => \A p \in 1 .. (t.q - 1) : Settled(s, p))
    BY DEF PromptsCurrent
  <2> DEFINE t == LiveTasks[i]
             s == states[t.key]
  <2>1. EntriesOK /\ QueueOK(states, LiveTasks) /\ ControlOK
    BY DEF CleanInv
  <2>2. t \in Task
    <3>1. LiveTasks \in Seq(Task)
      BY <2>1, LiveIndex DEF LiveShape
    <3>2. QED
      BY <3>1, ElementOfSeq
  <2>3. TaskOK(states, t)
    BY <2>1 DEF QueueOK
  <2>4. t.key \in Keys /\ t.q \in Nat \ {0}
    BY <2>2 DEF Task
  <2> HIDE DEF t
  <2>5. s # NoState /\ t.q < s.next /\ ~Settled(s, t.q) /\ t.quotes = Quotes(s, t.q)
    BY <2>3 DEF TaskOK
  <2>6. EntryOK(s) /\ s \in SampleState
    BY <2>1, <2>4, <2>5 DEF EntriesOK, TypeOK
  <2>7. s.next \in Nat
    BY <2>6 DEF SampleState
  <2>8. ASSUME stream[s.src].conv, NEW p \in 1 .. (t.q - 1) PROVE Settled(s, p)
    <3>1. p \in 1 .. (s.next - 2)
      BY <2>4, <2>5, <2>7
    <3>2. QED
      BY <2>6, <2>8, <3>1 DEF EntryOK
  <2>9. QED
    BY <2>5, <2>8 DEF t
<1>2. QED
  BY <1>1, CleanRuns, PTL

OutcomesKept ==
    \A k \in Keys :
      LET after == IF states'[k] # NoState THEN states'[k] ELSE file'[Len(file')]
      IN (states[k] # NoState /\ after.src = states[k].src) =>
           \A q \in Questions :
             Settled(states[k], q) => Outcome(after, q) = Outcome(states[k], q)

\* Storing an outcome touches that of no other question, in the entry and in the line
\* that follows it.
LEMMA KeptByAnswer ==
    ASSUME Clean, TypeOK, CleanInv, ApplyOutput \/ AskAlone \/ RecordError
    PROVE  OutcomesKept
<1>1. InFlush /\ MoreTasks /\ stream' = stream
  BY AnswerStep
<1>2. PICK s1, o, k, q :
        /\ k = CurrentTask.key /\ q = CurrentTask.q
        /\ Settles(states[k], s1, q) /\ Advance(k, s1, o) /\ Store(o, k)
  BY AnswerStep
<1>3. PICK s : s = states[k]
  OBVIOUS
<1>4. /\ k \in Keys /\ q \in Questions /\ s \in SampleState /\ EntryOK(s) /\ q < s.next
      /\ ~Settled(s, q) /\ Settles(s, s1, q)
      /\ stream \in Streams /\ states \in [Keys -> SampleState \cup {NoState}] /\ file \in Seq(Line)
  BY <1>1, <1>2, <1>3, CurrentOpen DEF TypeOK
<1>5. \A p \in Questions : p # q => s1.preds[p] = s.preds[p] /\ (p \in s1.errs <=> p \in s.errs)
  BY <1>4 DEF Settles
<1>6. After(s1) \in SampleState /\ After(s1).preds = s1.preds /\ After(s1).errs = s1.errs
  BY <1>4, AfterEntry
<1>7. states'[k] = o.state /\ \A h \in Keys : h # k => states'[h] = states[h]
  BY <1>2, <1>4 DEF Store
<1>8. PICK after : after = IF states'[k] # NoState THEN states'[k] ELSE file'[Len(file')]
  OBVIOUS
<1>9. after.preds = s1.preds /\ after.errs = s1.errs
  <2>1. CASE Unsettled(s1) = {}
    <3>1. states'[k] = NoState /\ file' = Append(file, AnswersLine(After(s1)))
      BY <1>2, <1>7, <2>1 DEF Advance, Store
    <3>2. AnswersLine(After(s1)) \in Line
      BY <1>6 DEF AnswersLine, Line, SampleState
    <3>3. file'[Len(file')] = AnswersLine(After(s1))
      BY <1>4, <3>1, <3>2, LenProperties, AppendProperties
    <3>4. QED
      BY <1>6, <1>8, <3>1, <3>3 DEF AnswersLine
  <2>2. CASE Unsettled(s1) # {}
    <3>1. states'[k] = After(s1)
      BY <1>2, <1>7, <2>2 DEF Advance
    <3>2. QED
      BY <1>6, <1>8, <3>1, SchedulerAssumption
  <2>3. QED
    BY <2>1, <2>2
<1>10. \A p \in Questions : Settled(s, p) => Outcome(after, p) = Outcome(s, p)
  <2> SUFFICES ASSUME NEW p \in Questions, Settled(s, p) PROVE Outcome(after, p) = Outcome(s, p)
    OBVIOUS
  <2>1. p # q
    BY <1>4
  <2>2. after.preds[p] = s.preds[p] /\ (p \in after.errs) = (p \in s.errs)
    BY <1>5, <1>9, <2>1
  <2>3. QED
    BY <2>2 DEF Outcome
<1>11. QED
  BY <1>3, <1>7, <1>8, <1>10 DEF OutcomesKept

\* Once a question has its answer or its error, no repeated batch, recovery or late
\* failure replaces it, up to and including the step that writes its sample.
THEOREM OutcomesNeverChange == ASSUME Clean PROVE Spec => OutcomesFinal
<1> DEFINE Kept ==
      \A k \in Keys :
        LET after == IF states'[k] # NoState THEN states'[k] ELSE file'[Len(file')]
        IN (states[k] # NoState /\ after.src = states[k].src) =>
             \A q \in Questions :
               Settled(states[k], q) => Outcome(after, q) = Outcome(states[k], q)
<1>1. ASSUME TypeOK, CleanInv, [Next]_vars PROVE OutcomesKept
  <2>1. CASE ApplyOutput \/ AskAlone \/ RecordError
    BY <1>1, <2>1, KeptByAnswer
  <2>2. CASE Admit
    <3>1. pos \in 1 .. N /\ Sample.n > 0 /\ states' = [states EXCEPT ![Sample.key] = Admission.state]
      BY <1>1, <2>2, SampleType DEF Admit, New
    <3>2. Admission.state \in SampleState /\ Admission.state.src = pos /\ EntriesOK
      BY <1>1, <2>2, <3>1, Admitted DEF CleanInv, Over, Admit, New, Reading
    <3>3. ASSUME NEW k \in Keys, states[k] # NoState, states'[k] # states[k]
          PROVE  states'[k] # NoState /\ states'[k].src # states[k].src
      <4>1. states'[k] = Admission.state /\ states[k].src < pos
        BY <1>1, <3>1, <3>2, <3>3 DEF TypeOK, EntriesOK, EntryOK
      <4>2. QED
        BY <3>1, <3>2, <4>1, SchedulerAssumption
    <3>4. QED
      BY <3>3 DEF OutcomesKept
  <2>3. CASE AdmitFails
    <3>1. pos \in 1 .. N /\ Sample.n > 0 /\ ~Admission.ok
      BY <1>1, <2>3, SampleType DEF AdmitFails, New
    <3>2. QED
      BY <1>1, <3>1, Admitted
  <2>4. CASE \E k \in Keys : Fallback(k)
    BY <1>1, <2>4, NoFallback
  <2>5. CASE states' = states
    BY <2>5 DEF OutcomesKept
  <2>6. QED
    BY <1>1, <2>1, <2>2, <2>3, <2>4, <2>5
       DEF Next, ReadStep, DrainStep, FlushStep, Finished, vars, SkipRecorded, StopReading,
           RecordEmpty, LoadFails, DrainFlush, Return, Generate, GenerateFails, AskAloneFails, EndFlush
<1>2. ASSUME TypeOK, CleanInv, [Next]_vars PROVE Kept
  BY <1>1, <1>2 DEF OutcomesKept
<1>3. Spec => [][Next]_vars
  BY PTL DEF Spec
<1>4. QED
  BY <1>2, <1>3, CleanRuns, PTL DEF OutcomesFinal

-----------------------------------------------------------------------------
(* How long the queue becomes.                                               *)
(*                                                                           *)
(* QueueBound is not inductive: what follows a flush depends on how far the  *)
(* conversations of the batch are.  One conversation joins per admission and *)
(* every flush takes each of them a turn further, so past the place of the   *)
(* batch size each is at least a turn ahead of the one behind it.            *)

\* The task is of a conversation.
Talk(t) == \E j \in 1 .. N : stream[j].key = t.key /\ stream[j].conv

\* Past the place of the batch size, the conversations of L from place lo on are at
\* earlier and earlier turns.
Steep(L, lo) ==
    \A x, y \in lo .. Len(L) :
      (BatchSize <= x /\ x <= y /\ Talk(L[x]) /\ Talk(L[y])) => y - x <= L[x].q - L[y].q

\* The same across the follow-ups F and what is left of the batch P at place c.
SteepAcross(P, F, c) ==
    \A x \in BatchSize .. Len(F), y \in c .. Len(P) :
      Talk(P[y]) => (Len(F) + y) + (P[y].q + 2) <= F[x].q + (x + c)

\* A queue between flushes: past the batch size there are later turns only.
QueueSteep(L) ==
    /\ \A x \in BatchSize .. Len(L) : Talk(L[x]) /\ L[x].q \in 2 .. MaxQ
    /\ Steep(L, 1)

\* A batch P the flush is at place c of, and its follow-ups F.
FlushSteep(P, F, c) ==
    /\ Steep(P, c)
    /\ Len(F) <= c - 1
    /\ \A x \in 1 .. Len(F) : Talk(F[x]) /\ F[x].q \in 2 .. MaxQ
    /\ Steep(F, 1)
    /\ SteepAcross(P, F, c)

BoundInv ==
    /\ QueueBound
    /\ pc = "loop" => QueueSteep(pending)
    /\ InFlush => FlushSteep(pending, follow, cursor)

\* A queue between two flushes is at most MaxQ - 2 tasks longer than a batch.
LEMMA LoopBound ==
    ASSUME NEW L \in Seq(Task), MaxQ # 0, QueueSteep(L)
    PROVE  Len(L) <= BatchSize + MaxQ - 2 \/ Len(L) <= BatchSize - 1
<1>1. Len(L) \in Nat /\ BatchSize \in Nat \ {0} /\ MaxQ \in Nat
  BY LenProperties, SchedulerAssumption
<1>2. CASE BatchSize <= Len(L)
  <2>1. BatchSize \in 1 .. Len(L) /\ Len(L) \in 1 .. Len(L)
        /\ BatchSize \in BatchSize .. Len(L) /\ Len(L) \in BatchSize .. Len(L)
    BY <1>1, <1>2
  <2>2. Talk(L[BatchSize]) /\ Talk(L[Len(L)])
        /\ L[BatchSize].q \in 2 .. MaxQ /\ L[Len(L)].q \in 2 .. MaxQ
    BY <2>1 DEF QueueSteep
  <2>3. Len(L) - BatchSize <= L[BatchSize].q - L[Len(L)].q
    BY <1>1, <1>2, <2>1, <2>2 DEF QueueSteep, Steep
  <2>4. QED
    BY <1>1, <2>2, <2>3
<1>3. QED
  BY <1>1, <1>2

\* A queue with the questions of one sample added to it, which are of a conversation
\* only if there is one.
LEMMA JoinBound ==
    ASSUME NEW L \in Seq(Task), NEW new \in Seq(Task), NEW p, p = L \o new,
           MaxQ # 0, QueueSteep(L), Len(new) <= MaxQ,
           \A i \in 1 .. Len(new) : Talk(new[i]) => Len(new) = 1 /\ new[i].q = 1
    PROVE  Len(p) <= BatchSize + 2 * (MaxQ - 1) /\ Steep(p, 1)
<1>1. MaxQ \in Nat /\ BatchSize \in Nat \ {0} /\ Len(L) \in Nat /\ Len(new) \in Nat
      /\ Len(p) = Len(L) + Len(new)
  BY LenProperties, ConcatProperties, SchedulerAssumption
<1>2. /\ \A x \in 1 .. Len(L) : p[x] = L[x]
      /\ \A x \in (Len(L) + 1) .. (Len(L) + Len(new)) : p[x] = new[x - Len(L)]
  <2>1. \A x \in 1 .. Len(L) + Len(new) : p[x] = IF x <= Len(L) THEN L[x] ELSE new[x - Len(L)]
    BY ConcatProperties
  <2>2. QED
    BY <1>1, <2>1
<1>3. /\ \A x \in BatchSize .. Len(L) : Talk(L[x]) /\ L[x].q \in 2 .. MaxQ
      /\ Steep(L, 1)
  BY DEF QueueSteep
<1>4. Len(p) <= BatchSize + 2 * (MaxQ - 1)
  <2>1. Len(L) <= BatchSize + MaxQ - 2 \/ Len(L) <= BatchSize - 1
    BY LoopBound
  <2>2. QED
    BY <1>1, <2>1
<1>5. ASSUME NEW x \in 1 .. Len(p), NEW y \in 1 .. Len(p),
             BatchSize <= x, x <= y, Talk(p[x]), Talk(p[y])
      PROVE  y - x <= p[x].q - p[y].q
  <2>1. CASE y <= Len(L)
    <3>1. x \in 1 .. Len(L) /\ y \in 1 .. Len(L)
      BY <1>1, <1>5, <2>1
    <3>2. p[x] = L[x] /\ p[y] = L[y]
      BY <1>2, <3>1
    <3>3. y - x <= L[x].q - L[y].q
      BY <1>3, <1>5, <3>1, <3>2 DEF Steep
    <3>4. QED
      BY <3>2, <3>3
  <2>2. CASE ~(y <= Len(L))
    <3>1. y \in (Len(L) + 1) .. (Len(L) + Len(new)) /\ y - Len(L) \in 1 .. Len(new)
      BY <1>1, <2>2
    <3>2. p[y] = new[y - Len(L)]
      BY <1>2, <3>1
    <3>3. Len(new) = 1 /\ p[y].q = 1
      BY <1>5, <3>1, <3>2
    <3>4. y = Len(L) + 1
      BY <1>1, <3>1, <3>3
    <3>5. CASE x = y
      BY <3>3, <3>5
    <3>6. CASE x # y
      <4>1. x \in 1 .. Len(L) /\ Len(L) \in 1 .. Len(L)
            /\ x \in BatchSize .. Len(L) /\ Len(L) \in BatchSize .. Len(L)
            /\ x <= Len(L)
        BY <1>1, <1>5, <3>4, <3>6
      <4>2. Talk(L[Len(L)]) /\ Talk(L[x])
            /\ L[x].q \in 2 .. MaxQ /\ L[Len(L)].q \in 2 .. MaxQ
        BY <1>3, <4>1
      <4>3. Len(L) - x <= L[x].q - L[Len(L)].q
        BY <1>3, <1>5, <4>1, <4>2 DEF Steep
      <4>4. p[x] = L[x]
        BY <1>2, <4>1
      <4>5. QED
        BY <1>1, <3>3, <3>4, <4>1, <4>2, <4>3, <4>4, SMTT(30)
    <3>7. QED
      BY <3>5, <3>6
  <2>3. QED
    BY <2>1, <2>2
<1>6. QED
  BY <1>4, <1>5 DEF Steep

\* A flush starts.
LEMMA StartSteep ==
    ASSUME NEW p \in Seq(Task), Steep(p, 1), NEW F, F = <<>>
    PROVE  FlushSteep(p, F, 1)
<1>1. Len(F) = 0 /\ BatchSize \in Nat \ {0}
  BY SchedulerAssumption
<1>2. BatchSize .. Len(F) = {} /\ 1 .. Len(F) = {}
  BY <1>1
<1>3. QED
  BY <1>1, <1>2 DEF FlushSteep, Steep, SteepAcross

\* An outcome is stored: the batch has a task less, and the next turn of its
\* conversation may follow.
LEMMA PassedSteep ==
    ASSUME NEW P \in Seq(Task), NEW F \in Seq(Task), NEW c \in 1 .. Len(P), FlushSteep(P, F, c)
    PROVE  FlushSteep(P, F, c + 1)
<1>1. BatchSize \in Nat \ {0} /\ Len(P) \in Nat /\ Len(F) \in Nat /\ c \in Nat
  BY LenProperties, SchedulerAssumption
<1>2. \A y \in (c + 1) .. Len(P) : y \in c .. Len(P)
  BY <1>1
<1>3. Steep(P, c + 1)
  BY <1>2 DEF FlushSteep, Steep
<1>4. ASSUME NEW x \in BatchSize .. Len(F), NEW y \in (c + 1) .. Len(P), Talk(P[y])
      PROVE  (Len(F) + y) + (P[y].q + 2) <= F[x].q + (x + (c + 1))
  <2>1. (Len(F) + y) + (P[y].q + 2) <= F[x].q + (x + c)
    BY <1>2, <1>4 DEF FlushSteep, SteepAcross
  <2>2. PICK f, p : f = F[x] /\ p = P[y]
    OBVIOUS
  <2>3. f \in Task /\ p \in Task
    <3>1. x \in 1 .. Len(F) /\ y \in 1 .. Len(P)
      BY <1>1
    <3>2. QED
      BY <2>2, <3>1, ElementOfSeq
  <2>4. PICK n, a, b : n = Len(F) /\ a = f.q /\ b = p.q
    OBVIOUS
  <2>5. a \in Nat /\ b \in Nat
    BY <2>3, <2>4 DEF Task
  <2>6. /\ n \in Nat /\ x \in Nat /\ y \in Nat /\ c \in Nat
        /\ (n + y) + (b + 2) <= a + (x + c)
    BY <1>1, <2>1, <2>2, <2>4
  <2>7. (n + y) + (b + 2) <= a + (x + (c + 1))
    BY <2>5, <2>6
  <2>8. QED
    BY <2>2, <2>4, <2>7
<1>5. Len(F) <= (c + 1) - 1
  BY <1>1 DEF FlushSteep
<1>6. SteepAcross(P, F, c + 1)
  BY <1>4 DEF SteepAcross
<1>7. QED
  BY <1>3, <1>5, <1>6 DEF FlushSteep

\* G is F and then u, the next turn after t in a conversation.
Follows(F, t, u, G) == G = Append(F, u) /\ Talk(u) /\ Talk(t) /\ u.q = t.q + 1 /\ u.q <= MaxQ

LEMMA FollowedSteep ==
    ASSUME NEW P \in Seq(Task), NEW F \in Seq(Task), NEW c \in 1 .. Len(P), FlushSteep(P, F, c),
           NEW u \in Task, NEW G, Follows(F, P[c], u, G)
    PROVE  FlushSteep(P, G, c + 1)
<1>1. /\ BatchSize \in Nat \ {0} /\ MaxQ \in Nat /\ Len(P) \in Nat /\ Len(F) \in Nat /\ c \in Nat
      /\ Len(G) = Len(F) + 1 /\ G[Len(F) + 1] = u
      /\ \A x \in 1 .. Len(F) : G[x] = F[x]
  BY LenProperties, AppendProperties, SchedulerAssumption DEF Follows
<1>2. /\ Steep(P, c) /\ Len(F) <= c - 1
      /\ \A x \in 1 .. Len(F) : Talk(F[x]) /\ F[x].q \in 2 .. MaxQ
      /\ Steep(F, 1) /\ SteepAcross(P, F, c)
  BY DEF FlushSteep
<1>3. /\ P[c].q \in Nat \ {0} /\ u.q = P[c].q + 1 /\ u.q \in 2 .. MaxQ
      /\ Talk(u) /\ Talk(P[c])
  <2>1. P[c] \in Task
    BY ElementOfSeq
  <2>2. QED
    BY <1>1, <2>1 DEF Task, Follows
<1>4. \A x \in 1 .. Len(G) : x \in 1 .. Len(F) \/ x = Len(F) + 1
  BY <1>1
<1>5. \A x \in 1 .. Len(G) : Talk(G[x]) /\ G[x].q \in 2 .. MaxQ
  BY <1>1, <1>2, <1>3, <1>4
\* The last follow-up is behind the others by as much as its question was.
<1>6. ASSUME NEW x \in BatchSize .. Len(F) PROVE Len(F) + 1 - x <= F[x].q - u.q
  <2>1. c \in c .. Len(P)
    BY <1>1
  <2>2. (Len(F) + c) + (P[c].q + 2) <= F[x].q + (x + c)
    BY <1>2, <1>3, <2>1 DEF SteepAcross
  <2>3. x \in 1 .. Len(F)
    BY <1>1
  <2>4. F[x].q \in 2 .. MaxQ
    BY <1>2, <2>3
  <2>5. PICK n, a, b : n = Len(F) /\ a = F[x].q /\ b = P[c].q
    OBVIOUS
  <2>6. n \in Nat /\ a \in Nat /\ b \in Nat /\ x \in Nat /\ c \in Nat /\ u.q = b + 1
    BY <1>1, <1>3, <2>4, <2>5
  <2>7. (n + c) + (b + 2) <= a + (x + c)
    BY <2>2, <2>5
  <2>8. n + 1 - x <= a - (b + 1)
    BY <2>6, <2>7
  <2>9. QED
    BY <2>5, <2>6, <2>8
<1>7. ASSUME NEW x \in 1 .. Len(G), NEW y \in 1 .. Len(G),
             BatchSize <= x, x <= y, Talk(G[x]), Talk(G[y])
      PROVE  y - x <= G[x].q - G[y].q
  <2>1. CASE y \in 1 .. Len(F)
    <3>1. x \in 1 .. Len(F)
      BY <1>1, <1>7, <2>1
    <3>2. Talk(F[x]) /\ Talk(F[y]) /\ G[x] = F[x] /\ G[y] = F[y]
      BY <1>1, <1>7, <2>1, <3>1
    <3>3. y - x <= F[x].q - F[y].q
      BY <1>2, <1>7, <2>1, <3>1, <3>2 DEF Steep
    <3>4. QED
      BY <3>2, <3>3
  <2>2. CASE y = Len(F) + 1 /\ x \in 1 .. Len(F)
    <3>1. x \in BatchSize .. Len(F)
      BY <1>1, <1>7, <2>2
    <3>2. Len(F) + 1 - x <= F[x].q - u.q
      BY <1>6, <3>1
    <3>3. QED
      BY <1>1, <2>2, <3>2
  <2>3. CASE y = Len(F) + 1 /\ x = Len(F) + 1
    BY <1>1, <1>3, <2>3
  <2>4. QED
    BY <1>4, <2>1, <2>2, <2>3
<1>8. ASSUME NEW x \in BatchSize .. Len(G), NEW y \in (c + 1) .. Len(P), Talk(P[y])
      PROVE  (Len(G) + y) + (P[y].q + 2) <= G[x].q + (x + (c + 1))
  <2>1. x \in 1 .. Len(G) /\ y \in c .. Len(P) /\ c \in c .. Len(P) /\ y \in 1 .. Len(P)
    BY <1>1
  <2>2. P[y].q \in Nat
    <3>1. P[y] \in Task
      BY <2>1, ElementOfSeq
    <3>2. QED
      BY <3>1 DEF Task
  <2>3. PICK n, m, g, p : n = Len(F) /\ m = Len(G) /\ g = G[x].q /\ p = P[y].q
    OBVIOUS
  <2>4. n \in Nat /\ m = n + 1 /\ p \in Nat /\ x \in Nat /\ y \in Nat /\ c \in Nat
    BY <1>1, <2>1, <2>2, <2>3
  <2>5. (m + y) + (p + 2) <= g + (x + (c + 1))
    <3>1. CASE x \in 1 .. Len(F)
      <4>1. x \in BatchSize .. Len(F)
        BY <1>1, <3>1
      <4>2. (Len(F) + y) + (P[y].q + 2) <= F[x].q + (x + c)
        BY <1>2, <1>8, <2>1, <4>1 DEF SteepAcross
      <4>3. g = F[x].q /\ F[x].q \in 2 .. MaxQ
        BY <1>1, <1>2, <2>3, <3>1
      <4>4. g \in Nat
        BY <4>3
      <4>5. (n + y) + (p + 2) <= g + (x + c)
        BY <2>3, <4>2, <4>3
      <4>6. QED
        BY <2>4, <4>4, <4>5
    <3>2. CASE x = Len(F) + 1
      <4>1. BatchSize <= c /\ c <= y
        BY <1>1, <1>2, <3>2
      <4>2. y - c <= P[c].q - P[y].q
        BY <1>2, <1>3, <1>8, <2>1, <4>1 DEF Steep
      <4>3. PICK b : b = P[c].q
        OBVIOUS
      <4>4. y - c <= b - p /\ b \in Nat /\ g = b + 1 /\ x = n + 1
        BY <1>1, <1>3, <2>3, <3>2, <4>2, <4>3
      <4>5. QED
        BY <2>4, <4>4
    <3>3. QED
      BY <1>4, <2>1, <3>1, <3>2
  <2>6. QED
    BY <2>3, <2>5
<1>9. Len(G) <= (c + 1) - 1
  BY <1>1, <1>2
<1>10. Steep(P, c + 1)
  <2>1. \A y \in (c + 1) .. Len(P) : y \in c .. Len(P)
    BY <1>1
  <2>2. QED
    BY <1>2, <2>1 DEF Steep
<1>11. Steep(G, 1)
  BY <1>7 DEF Steep
<1>12. SteepAcross(P, G, c + 1)
  BY <1>8 DEF SteepAcross
<1>13. QED
  BY <1>5, <1>9, <1>10, <1>11, <1>12 DEF FlushSteep

\* A flush ends: its follow-ups are the queue.
LEMMA EndSteep ==
    ASSUME NEW P, NEW F \in Seq(Task), NEW c, FlushSteep(P, F, c), MaxQ # 0
    PROVE  QueueSteep(F) /\ Len(F) <= BatchSize + 2 * (MaxQ - 1)
<1>1. BatchSize \in Nat \ {0} /\ MaxQ \in Nat /\ Len(F) \in Nat
  BY LenProperties, SchedulerAssumption
<1>2. \A x \in BatchSize .. Len(F) : x \in 1 .. Len(F)
  BY <1>1
<1>3. QueueSteep(F)
  BY <1>2 DEF FlushSteep, QueueSteep
<1>4. Len(F) <= BatchSize + MaxQ - 2 \/ Len(F) <= BatchSize - 1
  BY <1>3, LoopBound
<1>5. QED
  BY <1>1, <1>3, <1>4

\* The stream stays, so the invariant may be shown of the next queues as they are seen
\* from here.
LEMMA BoundNext ==
    ASSUME stream' = stream, Len(pending') <= BatchSize + 2 * (MaxQ - 1),
           pc' = "loop" => QueueSteep(pending'),
           InFlush' => FlushSteep(pending', follow', cursor')
    PROVE  BoundInv'
<1>1. QueueBound'
  BY DEF QueueBound
<1>2. pc' = "loop" => QueueSteep(pending)'
  BY DEF QueueSteep, Steep, Talk
<1>3. InFlush' => FlushSteep(pending, follow, cursor)'
  BY DEF FlushSteep, SteepAcross, Steep, Talk
<1>4. QED
  BY <1>1, <1>2, <1>3 DEF BoundInv

\* An outcome queues the next turn of a conversation, or nothing.
LEMMA FollowOn ==
    ASSUME Clean, TypeOK, CleanInv, ApplyOutput \/ AskAlone \/ RecordError
    PROVE  \/ follow' = follow
           \/ \E u \in Task : Follows(follow, CurrentTask, u, follow')
<1> DEFINE t == CurrentTask
           s == states[t.key]
<1>1. PICK s1, o : /\ Settles(s, s1, t.q) /\ Advance(t.key, s1, o) /\ Store(o, t.key)
                   /\ InFlush /\ MoreTasks
  BY AnswerStep
<1>2. /\ t \in Task /\ t.key \in Keys /\ t.q \in Questions /\ s \in SampleState
      /\ stream[s.src].key = t.key /\ EntryOK(s) /\ t.q < s.next /\ ~Settled(s, t.q)
      /\ stream \in Streams
  BY <1>1, CurrentOpen DEF TypeOK
<1> HIDE DEF t, s
<1>3. s1 \in SampleState /\ s1.src = s.src /\ s1.next = s.next
  BY <1>1 DEF Settles
<1>4. /\ Due(s1) \in {0, 1}
      /\ Due(s1) = 1 => stream[s.src].conv /\ s.next \in Unsettled(s1)
  BY <1>1, <1>2, AfterEntry, ZenonT(60)
<1>5. stream[s.src].conv => t.q = s.next - 1
  BY <1>1, <1>2, SettledFacts
<1>6. follow \in Seq(Task) /\ follow' = follow \o o.tasks /\ o.tasks \in Seq(Task)
      /\ Len(o.tasks) = Due(s1)
  BY <1>1 DEF TypeOK, Store, Advance
<1>7. CASE Due(s1) = 0
  <2>1. o.tasks = <<>>
    BY <1>6, <1>7, EmptySeq
  <2>2. QED
    BY <1>6, <2>1, ConcatEmptySeq
<1>8. CASE Due(s1) = 1
  <2>1. o.tasks[1] = [key |-> t.key, q |-> s1.next + 1 - 1, quotes |-> Quotes(s1, s1.next + 1 - 1)]
    BY <1>1, <1>8 DEF Advance
  <2>2. PICK u : u = o.tasks[1]
    OBVIOUS
  <2>3. u \in Task /\ u.key = t.key /\ u.q = s1.next + 1 - 1
    BY <1>6, <1>8, <2>1, <2>2, ElementOfSeq
  <2>4. follow' = Append(follow, u)
    <3>1. PICK w : w = o.tasks
      OBVIOUS
    <3>2. w \in Seq(Task) /\ Len(w) = 1 /\ w[1] = u /\ follow' = follow \o w
      BY <1>6, <1>8, <2>2, <3>1
    <3>3. w = <<u>>
      BY <3>2
    <3>4. QED
      BY <1>6, <2>3, <3>2, <3>3
  <2>5. s.src \in 1 .. N /\ stream[s.src].n \in 0 .. MaxQ /\ MaxQ \in Nat
    BY <1>2, EntryShape, SchedulerAssumption DEF SampleState
  <2>6. Talk(u) /\ Talk(t)
    BY <1>2, <1>4, <1>8, <2>3, <2>5 DEF Talk
  <2>7. s.next \in 1 .. stream[s.src].n
    BY <1>3, <1>4, <1>8 DEF Unsettled
  <2>8. u.q = t.q + 1 /\ u.q <= MaxQ
    BY <1>2, <1>3, <1>4, <1>5, <1>8, <2>3, <2>5, <2>7 DEF Questions
  <2>9. QED
    BY <2>3, <2>4, <2>6, <2>8 DEF t, Follows
<1>9. QED
  BY <1>4, <1>7, <1>8

\* The sample the loop is at joins the queue.
LEMMA AdmitBound ==
    ASSUME Clean, TypeOK, TypeOK', CleanInv, BoundInv, MaxQ # 0, Admit
    PROVE  BoundInv'
<1>1. PICK new, p : new = Admission.tasks /\ p = pending'
  OBVIOUS
<1>2. /\ pc = "loop" /\ pos \in 1 .. N /\ Sample.n > 0 /\ stream' = stream
      /\ follow' = follow /\ p = pending \o new
  BY <1>1, SampleType DEF Admit, New, Reading
<1>3. follow = <<>> /\ pending \in Seq(Task) /\ p \in Seq(Task) /\ QueueSteep(pending)
  BY <1>1, <1>2 DEF TypeOK, CleanInv, ControlOK, Over, BoundInv
<1>4. /\ new \in Seq(Task)
      /\ Len(new) = IF Sample.conv THEN 1 ELSE Sample.n
      /\ \A i \in 1 .. Len(new) : new[i].key = Sample.key /\ new[i].q = i
  <2>1. PICK a : a = Admission.state
    OBVIOUS
  <2>2. /\ new \in Seq(Task)
        /\ Len(new) = IF Sample.conv THEN 1 ELSE Sample.n
        /\ \A i \in 1 .. Len(new) : new[i] = [key |-> Sample.key, q |-> i, quotes |-> Quotes(a, i)]
    BY <1>1, <1>2, <2>1, Admitted
  <2>3. ASSUME NEW i \in 1 .. Len(new) PROVE new[i].key = Sample.key /\ new[i].q = i
    <3>1. PICK z : z = Quotes(a, i)
      OBVIOUS
    <3>2. new[i] = [key |-> Sample.key, q |-> i, quotes |-> z]
      BY <2>2, <3>1
    <3>3. QED
      BY <3>2
  <2>4. QED
    BY <2>2, <2>3
<1>5. Sample = stream[pos] /\ Sample.n \in 1 .. MaxQ /\ stream \in Streams
  <2>1. stream \in Streams /\ Sample = stream[pos] /\ stream[pos] \in SampleShape
    BY <1>2, SchedulerAssumption DEF TypeOK, Sample
  <2>2. QED
    BY <1>2, <2>1, SchedulerAssumption DEF SampleShape
<1>6. ASSUME NEW i \in 1 .. Len(new), Talk(new[i]) PROVE Len(new) = 1 /\ new[i].q = 1
  <2>1. PICK j \in 1 .. N : stream[j].key = new[i].key /\ stream[j].conv
    BY <1>6 DEF Talk
  <2>2. stream[j].key = stream[pos].key
    BY <1>4, <1>5, <2>1
  <2>3. j = pos
    BY <1>2, <1>5, <2>2 DEF Clean
  <2>4. Len(new) = 1
    BY <1>4, <1>5, <2>1, <2>3
  <2>5. QED
    BY <1>4, <2>4
<1>7. Len(new) <= MaxQ
  BY <1>4, <1>5, SchedulerAssumption
<1>8. Len(p) <= BatchSize + 2 * (MaxQ - 1) /\ Steep(p, 1)
  BY <1>2, <1>3, <1>4, <1>6, <1>7, JoinBound
<1>9. Len(p) \in Nat /\ BatchSize \in Nat
  BY <1>3, LenProperties, SchedulerAssumption
<1>10. CASE BatchSize <= Len(p)
  <2>1. pc' = "flush" /\ cursor' = 1
    BY <1>1, <1>9, <1>10 DEF Admit
  <2>2. FlushSteep(p, follow', 1)
    BY <1>2, <1>3, <1>8, StartSteep
  <2>3. QED
    BY <1>1, <1>2, <1>8, <2>1, <2>2, BoundNext
<1>11. CASE ~(BatchSize <= Len(p))
  <2>1. pc' = "loop"
    BY <1>1, <1>2, <1>9, <1>11 DEF Admit
  <2>2. BatchSize .. Len(p) = {}
    BY <1>9, <1>11
  <2>3. QueueSteep(p)
    BY <1>8, <2>2 DEF QueueSteep
  <2>4. QED
    BY <1>1, <1>2, <1>8, <2>1, <2>3, BoundNext DEF InFlush
<1>12. QED
  BY <1>10, <1>11

\* An outcome is stored.
LEMMA AnswerBound ==
    ASSUME Clean, TypeOK, CleanInv, BoundInv, ApplyOutput \/ AskAlone \/ RecordError
    PROVE  BoundInv'
<1>1. /\ InFlush /\ MoreTasks /\ pc' \in {"apply", "single"} /\ cursor' = cursor + 1
      /\ pending' = pending /\ stream' = stream
  BY AnswerStep
<1>2. /\ pending \in Seq(Task) /\ follow \in Seq(Task) /\ cursor \in 1 .. Len(pending)
      /\ CurrentTask = pending[cursor]
  BY <1>1, LenProperties DEF TypeOK, InFlush, MoreTasks, CurrentTask
<1>3. FlushSteep(pending, follow, cursor) /\ Len(pending) <= BatchSize + 2 * (MaxQ - 1)
  BY <1>1 DEF BoundInv, QueueBound
<1>4. PICK f : f = follow'
  OBVIOUS
<1>5. FlushSteep(pending, f, cursor + 1)
  <2>1. CASE f = follow
    BY <1>2, <1>3, <2>1, PassedSteep
  <2>2. CASE \E u \in Task : Follows(follow, CurrentTask, u, f)
    BY <1>2, <1>3, <2>2, FollowedSteep
  <2>3. QED
    BY <1>4, <2>1, <2>2, FollowOn
<1>6. QED
  BY <1>1, <1>3, <1>4, <1>5, BoundNext

LEMMA BoundStep ==
    ASSUME Clean, TypeOK, TypeOK', CleanInv, BoundInv, MaxQ # 0, [Next]_vars
    PROVE  BoundInv'
<1>1. CASE ApplyOutput \/ AskAlone \/ RecordError
  BY <1>1, AnswerBound
<1>2. CASE Admit
  BY <1>2, AdmitBound
<1>3. CASE AdmitFails
  <2>1. pos \in 1 .. N /\ Sample.n > 0 /\ ~Admission.ok
    BY <1>3, SampleType DEF AdmitFails, New
  <2>2. QED
    BY <2>1, Admitted
<1>4. CASE \E k \in Keys : Fallback(k)
  BY <1>4, NoFallback
<1>5. CASE DrainFlush
  <2>1. /\ pc = "loop" /\ stream' = stream /\ pending' = pending /\ follow' = follow
        /\ pc' = "flush" /\ cursor' = 1
    BY <1>5 DEF DrainFlush
  <2>2. /\ QueueSteep(pending) /\ Len(pending) <= BatchSize + 2 * (MaxQ - 1)
        /\ follow = <<>> /\ pending \in Seq(Task)
    BY <2>1 DEF BoundInv, QueueBound, CleanInv, ControlOK, Over, TypeOK
  <2>3. FlushSteep(pending, follow, 1)
    BY <2>2, StartSteep DEF QueueSteep
  <2>4. QED
    BY <2>1, <2>2, <2>3, BoundNext
<1>6. CASE GenerateFails
  <2>1. /\ pc = "flush" /\ stream' = stream /\ pending' = pending /\ follow' = follow
        /\ RecoverOrRaise
    BY <1>6 DEF GenerateFails
  <2>2. /\ FlushSteep(pending, follow, cursor) /\ Len(pending) <= BatchSize + 2 * (MaxQ - 1)
        /\ cursor = 1
    BY <2>1 DEF BoundInv, QueueBound, CleanInv, ControlOK, Over, InFlush
  <2>3. pc' = "raised" \/ (pc' = "single" /\ cursor' = 1)
    BY <2>1 DEF RecoverOrRaise
  <2>4. QED
    BY <2>1, <2>2, <2>3, BoundNext DEF InFlush
<1>7. CASE EndFlush
  <2>1. stream' = stream /\ pending' = follow /\ pc' = "loop" /\ InFlush
    BY <1>7 DEF EndFlush, InFlush
  <2>2. follow \in Seq(Task) /\ FlushSteep(pending, follow, cursor)
    BY <2>1 DEF BoundInv, TypeOK
  <2>3. QueueSteep(follow) /\ Len(follow) <= BatchSize + 2 * (MaxQ - 1)
    BY <2>2, EndSteep
  <2>4. QED
    BY <2>1, <2>3, BoundNext DEF InFlush
<1>8. CASE /\ stream' = stream /\ pending' = pending /\ follow' = follow /\ cursor' = cursor
           /\ pc' = "loop" => pc = "loop"
           /\ InFlush' => InFlush
  BY <1>8, BoundNext DEF BoundInv, QueueBound
<1>9. CASE Generate \/ AskAloneFails
  BY <1>8, <1>9 DEF Generate, AskAloneFails, queueVars, InFlush
<1>10. CASE SkipRecorded \/ StopReading \/ RecordEmpty \/ LoadFails
  BY <1>8, <1>10 DEF SkipRecorded, StopReading, RecordEmpty, LoadFails, RecordLoadError,
                     New, Reading, queueVars, InFlush
<1>11. CASE Return \/ UNCHANGED vars
  BY <1>8, <1>11 DEF Return, vars, queueVars, InFlush
<1>12. QED
  BY <1>1, <1>2, <1>3, <1>4, <1>5, <1>6, <1>7, <1>9, <1>10, <1>11
     DEF Next, ReadStep, DrainStep, FlushStep, Finished

\* The queue, whose length is what one generate call has to hold, does not grow with
\* the dataset.
THEOREM QueueNeverGrows == ASSUME Clean, MaxQ # 0 PROVE Spec => []QueueBound
<1>1. Init => BoundInv
  <2> SUFFICES ASSUME Init PROVE BoundInv
    OBVIOUS
  <2>1. pending = <<>> /\ Len(pending) = 0 /\ pc = "loop"
    BY DEF Init
  <2>2. MaxQ \in Nat /\ BatchSize \in Nat \ {0}
    BY SchedulerAssumption
  <2>3. BatchSize .. Len(pending) = {} /\ 1 .. Len(pending) = {}
    BY <2>1, <2>2
  <2>4. QED
    BY <2>1, <2>2, <2>3 DEF BoundInv, QueueBound, QueueSteep, Steep, InFlush
<1>2. BoundInv => QueueBound
  BY DEF BoundInv
<1>3. TypeOK /\ TypeOK' /\ CleanInv /\ BoundInv /\ [Next]_vars => BoundInv'
  BY BoundStep
<1>4. Spec => [][Next]_vars /\ Init
  BY PTL DEF Spec
<1>5. QED
  BY <1>1, <1>2, <1>3, <1>4, CleanRuns, PTL

-----------------------------------------------------------------------------
(* A clean job implements the safety part of the ledger (EvalLedger), for every *)
(* dataset, batch size and fault of loading or generating: each step of the     *)
(* queue, of a batch or of its recovery is a step of the ledger or changes       *)
(* nothing there.  First, what the ledger sees of one sample.                    *)

LEMMA SampleFacts ==
    ASSUME TypeOK, NEW i \in 1 .. N
    PROVE  /\ stream[i].n \in Nat /\ stream[i].conv \in BOOLEAN /\ stream[i].key \in Keys
           /\ 1 .. stream[i].n \subseteq Questions
<1>1. stream[i] \in SampleShape
  BY SchedulerAssumption DEF TypeOK
<1>2. QED
  BY <1>1, SchedulerAssumption DEF SampleShape, Questions

\* A step that keeps the entry of a sample and adds no line of it.
LEMMA SampleKept ==
    ASSUME NEW i \in 1 .. N, stream' = stream, states'[stream[i].key] = states[stream[i].key],
           file \in Seq(Line),
           \/ file' = file
           \/ \E line \in Line : line.src # i /\ file' = Append(file, line)
    PROVE  StatusOf(i)' = StatusOf(i) /\ SettledOf(i)' = SettledOf(i)
<1>1. Open(i)' <=> Open(i)
  BY DEF Open
<1>2. /\ \A j \in 1 .. Len(file') :
           file'[j].src = i => \E l \in 1 .. Len(file) : file[l] = file'[j]
      /\ \A j \in 1 .. Len(file) :
           file[j].src = i => \E l \in 1 .. Len(file') : file'[l] = file[j]
  <2>1. CASE file' = file
    BY <2>1
  <2>2. ASSUME NEW line \in Line, line.src # i, file' = Append(file, line)
        PROVE  /\ \A j \in 1 .. Len(file') :
                    file'[j].src = i => \E l \in 1 .. Len(file) : file[l] = file'[j]
               /\ \A j \in 1 .. Len(file) :
                    file[j].src = i => \E l \in 1 .. Len(file') : file'[l] = file[j]
    <3>1. /\ Len(file) \in Nat /\ Len(file') = Len(file) + 1 /\ file'[Len(file) + 1] = line
          /\ \A j \in 1 .. Len(file) : file'[j] = file[j]
      BY <2>2, LenProperties, AppendProperties
    <3>2. \A j \in 1 .. Len(file') : j \in 1 .. Len(file) \/ j = Len(file) + 1
      BY <3>1
    <3>3. 1 .. Len(file) \subseteq 1 .. Len(file')
      BY <3>1
    <3>4. QED
      BY <2>2, <3>1, <3>2, <3>3
  <2>3. QED
    BY <2>1, <2>2
<1>3. AnsweredLine(i)' <=> AnsweredLine(i)
  BY <1>2 DEF AnsweredLine
<1>4. \A line : LoadFailed(line, i)' <=> LoadFailed(line, i)
  BY DEF LoadFailed
<1>5. (\E j \in 1 .. Len(file') : LoadFailed(file'[j], i)) <=> (\E j \in 1 .. Len(file) : LoadFailed(file[j], i))
  BY <1>2 DEF LoadFailed
<1>6. (\E j \in 1 .. Len(file) : LoadFailed(file[j], i))' <=> (\E j \in 1 .. Len(file') : LoadFailed(file'[j], i))
  BY DEF LoadFailed
<1>7. StatusOf(i)' = StatusOf(i)
  BY <1>1, <1>3, <1>5, <1>6 DEF StatusOf
<1>8. \A q : (\E j \in 1 .. Len(file') : file'[j].src = i /\ Settled(file'[j], q))
               <=> (\E j \in 1 .. Len(file) : file[j].src = i /\ Settled(file[j], q))
  <2>1. ASSUME NEW q, NEW j \in 1 .. Len(file'), file'[j].src = i, Settled(file'[j], q)
        PROVE  \E l \in 1 .. Len(file) : file[l].src = i /\ Settled(file[l], q)
    <3>1. PICK l \in 1 .. Len(file) : file[l] = file'[j]
      BY <1>2, <2>1
    <3>2. QED
      BY <2>1, <3>1
  <2>2. ASSUME NEW q, NEW j \in 1 .. Len(file), file[j].src = i, Settled(file[j], q)
        PROVE  \E l \in 1 .. Len(file') : file'[l].src = i /\ Settled(file'[l], q)
    <3>1. PICK l \in 1 .. Len(file') : file'[l] = file[j]
      BY <1>2, <2>2
    <3>2. QED
      BY <2>2, <3>1
  <2>3. QED
    BY <2>1, <2>2
<1>9. SettledOf(i)' = SettledOf(i)
  BY <1>1, <1>8 DEF SettledOf, Settled
<1>10. QED
  BY <1>7, <1>9

\* The sample the loop is at is unread.
LEMMA SampleUnread ==
    ASSUME TypeOK, CleanInv, pc = "loop", pos \in 1 .. N
    PROVE  /\ StatusOf(pos) = "unread" /\ SettledOf(pos) = {} /\ ~Open(pos)
           /\ \A j \in 1 .. Len(file) : file[j].src # pos
<1>1. EntriesOK /\ RecordsClosed
  BY DEF CleanInv, Over
<1>2. ~Open(pos)
  <2>1. stream[pos].key \in Keys
    BY SampleFacts
  <2>2. states[stream[pos].key] # NoState => states[stream[pos].key].src < pos
    BY <1>1, <2>1 DEF EntriesOK, EntryOK
  <2>3. QED
    BY <2>2, SchedulerAssumption DEF Open
<1>3. \A j \in 1 .. Len(file) : file[j].src # pos
  <2> SUFFICES ASSUME NEW j \in 1 .. Len(file) PROVE file[j].src # pos
    OBVIOUS
  <2>1. file[j].src < pos
    BY <1>1 DEF RecordsClosed
  <2>2. QED
    BY <2>1, SchedulerAssumption
<1>4. \A j \in 1 .. Len(file) : ~LoadFailed(file[j], pos)
  BY <1>3 DEF LoadFailed
<1>5. StatusOf(pos) = "unread"
  BY <1>2, <1>3, <1>4 DEF StatusOf, AnsweredLine
<1>6. SettledOf(pos) = {}
  BY <1>2, <1>3 DEF SettledOf
<1>7. QED
  BY <1>2, <1>3, <1>5, <1>6

-----------------------------------------------------------------------------
(* The steps of the ledger. *)

\* A step that only one sample can notice.
LEMMA OneSample ==
    ASSUME NEW i \in 1 .. N, stream' = stream, (pc' = "done") = (pc = "done"),
           \A j \in 1 .. N : j # i => StatusOf(j)' = StatusOf(j) /\ SettledOf(j)' = SettledOf(j)
    PROVE  /\ [j \in 1 .. N |-> StatusOf(j)]' = [[j \in 1 .. N |-> StatusOf(j)] EXCEPT ![i] = StatusOf(i)']
           /\ [j \in 1 .. N |-> SettledOf(j)]' = [[j \in 1 .. N |-> SettledOf(j)] EXCEPT ![i] = SettledOf(i)']
           /\ [j \in 1 .. N |-> stream[j].n]' = [j \in 1 .. N |-> stream[j].n]
           /\ {j \in 1 .. N : stream[j].conv}' = {j \in 1 .. N : stream[j].conv}
           /\ (pc = "done")' = (pc = "done")
           /\ SettledOf(i)' = SettledOf(i) =>
                [j \in 1 .. N |-> SettledOf(j)]' = [j \in 1 .. N |-> SettledOf(j)]
<1>1. SettledOf(i)' = SettledOf(i) => \A j \in 1 .. N : SettledOf(j)' = SettledOf(j)
  OBVIOUS
<1>2. QED
  BY <1>1

\* A step that no sample can notice.
LEMMA LedgerStutter ==
    ASSUME TypeOK, stream' = stream, states' = states, file' = file, (pc' = "done") = (pc = "done")
    PROVE  UNCHANGED Ledger!ledgerVars
<1>1. \A i \in 1 .. N : StatusOf(i)' = StatusOf(i) /\ SettledOf(i)' = SettledOf(i)
  BY SampleKept DEF TypeOK
<1>2. QED
  BY <1>1 DEF Ledger!ledgerVars

\* A record written at once: an unread sample is accepted, with no question, or rejected.
LEMMA LedgerRecord ==
    ASSUME Clean, TypeOK, CleanInv, RecordEmpty \/ LoadFails
    PROVE  Ledger!LedgerNext
<1>1. /\ pc = "loop" /\ pc' \in {"loop", "raised"} /\ pos \in 1 .. N
      /\ stream' = stream /\ states' = states
  BY RecordedHere
<1>2. PICK line \in Line :
        /\ Whole(line) /\ CompleteLine(line) /\ line.src = pos /\ file' = Append(file, line)
        /\ \/ Sample.n = 0 /\ line.kind = "answers"
           \/ Sample.n > 0 /\ line = LoadLine(pos)
  BY RecordedHere
<1>3. PICK i \in 1 .. N : i = pos
  BY <1>1
<1>4. StatusOf(i) = "unread" /\ SettledOf(i) = {} /\ ~Open(i) /\ \A j \in 1 .. Len(file) : file[j].src # i
  BY <1>1, <1>3, SampleUnread
<1>5. \A j \in 1 .. N : j # i => StatusOf(j)' = StatusOf(j) /\ SettledOf(j)' = SettledOf(j)
  BY <1>1, <1>2, <1>3, SampleKept DEF TypeOK
<1>6. /\ Len(file) \in Nat /\ Len(file') = Len(file) + 1 /\ file'[Len(file) + 1] = line
      /\ \A j \in 1 .. Len(file) : file'[j] = file[j]
  BY <1>2, LenProperties, AppendProperties DEF TypeOK
<1>7. \A j \in 1 .. Len(file') : file'[j].src = i <=> j = Len(file) + 1
  <2>1. \A j \in 1 .. Len(file') : j \in 1 .. Len(file) \/ j = Len(file) + 1
    BY <1>6
  <2>2. QED
    BY <1>2, <1>3, <1>4, <1>6, <2>1
<1>8. Len(file) + 1 \in 1 .. Len(file') /\ file'[Len(file) + 1] = line /\ ~Open(i)'
  BY <1>1, <1>4, <1>6 DEF Open
<1>9. stream[i].n \in Nat /\ 1 .. stream[i].n \subseteq Questions
  BY SampleFacts
<1>10. CASE Sample.n = 0 /\ line.kind = "answers"
  <2>1. stream[i].n = 0
    BY <1>3, <1>10 DEF Sample
  <2>2. StatusOf(i)' = "recorded"
    BY <1>2, <1>3, <1>8, <1>10 DEF StatusOf, AnsweredLine
  <2>3. SettledOf(i)' = {}
    BY <1>1, <2>1 DEF SettledOf
  <2>4. Ledger!Accept(i)
    BY <1>1, <1>4, <1>5, <2>1, <2>2, <2>3, OneSample DEF Ledger!Accept, Ledger!data
  <2>5. QED
    BY <2>4 DEF Ledger!LedgerNext
<1>11. CASE Sample.n > 0 /\ line = LoadLine(pos)
  <2>1. stream[i].n > 0 /\ line = LoadLine(i) /\ line.kind = "load"
    BY <1>3, <1>11 DEF Sample, LoadLine
  <2>2. ~AnsweredLine(i)'
    BY <1>7, <1>8, <2>1 DEF AnsweredLine
  <2>3. StatusOf(i)' = "rejected"
    <3>1. (\E j \in 1 .. Len(file) : LoadFailed(file[j], i))'
      BY <1>2, <1>3, <1>8, <2>1 DEF LoadFailed
    <3>2. QED
      BY <1>8, <2>2, <3>1 DEF StatusOf
  <2>4. \A q \in Questions : ~Settled(line, q)
    BY <2>1 DEF LoadLine, NoPredictions, Settled
  <2>5. \A q \in 1 .. stream[i].n : \A j \in 1 .. Len(file') : file'[j].src = i => ~Settled(file'[j], q)
    BY <1>7, <1>8, <1>9, <2>4
  <2>6. SettledOf(i)' = {}
    BY <1>1, <1>8, <2>5 DEF SettledOf, Settled
  <2>7. Ledger!Reject(i)
    BY <1>1, <1>4, <1>5, <2>1, <2>3, <2>6, OneSample DEF Ledger!Reject, Ledger!data
  <2>8. QED
    BY <2>7 DEF Ledger!LedgerNext
<1>12. QED
  BY <1>2, <1>10, <1>11

\* A sample becomes an entry: an unread sample is accepted.
LEMMA LedgerAdmit ==
    ASSUME Clean, TypeOK, CleanInv, Admit
    PROVE  Ledger!LedgerNext
<1>1. /\ pc = "loop" /\ pc' \in {"loop", "flush"} /\ pos \in 1 .. N /\ Sample.n > 0
      /\ stream' = stream /\ file' = file
      /\ states' = [states EXCEPT ![Sample.key] = Admission.state]
  <2>1. pos \in 1 .. N
    BY SchedulerAssumption DEF Admit, New, Reading, TypeOK
  <2>2. QED
    BY <2>1 DEF Admit, New, Reading
<1>2. PICK i \in 1 .. N : i = pos
  BY <1>1
<1>3. PICK a : a = Admission.state
  OBVIOUS
<1>4. StatusOf(i) = "unread" /\ SettledOf(i) = {}
  BY <1>1, <1>2, SampleUnread
<1>5. a \in SampleState /\ a.src = i /\ a.preds = NoPredictions /\ a.errs = {}
  BY <1>1, <1>2, <1>3, Admitted
<1>6. a # NoState
  BY <1>5, SchedulerAssumption
<1>7. stream[i].key \in Keys /\ stream[i].n \in Nat /\ 1 .. stream[i].n \subseteq Questions /\ stream[i].n > 0
  BY <1>1, <1>2, SampleFacts DEF Sample
<1>8. states'[stream[i].key] = a /\ \A k \in Keys : k # stream[i].key => states'[k] = states[k]
  BY <1>1, <1>2, <1>3, <1>7 DEF Sample, TypeOK
<1>9. \A j \in 1 .. N : j # i => StatusOf(j)' = StatusOf(j) /\ SettledOf(j)' = SettledOf(j)
  <2> SUFFICES ASSUME NEW j \in 1 .. N, j # i
               PROVE  StatusOf(j)' = StatusOf(j) /\ SettledOf(j)' = SettledOf(j)
    OBVIOUS
  <2>1. stream[j].key \in Keys /\ stream[j].key # stream[i].key
    BY SampleFacts DEF Clean, TypeOK
  <2>2. states'[stream[j].key] = states[stream[j].key]
    BY <1>8, <2>1
  <2>3. QED
    BY <1>1, <2>2, SampleKept DEF TypeOK
<1>10. Open(i)'
  BY <1>1, <1>5, <1>6, <1>8 DEF Open
<1>11. StatusOf(i)' = "open"
  BY <1>10 DEF StatusOf
<1>12. \A q \in Questions : ~Settled(a, q)
  BY <1>5 DEF NoPredictions, Settled
<1>13. SettledOf(i)' = {}
  BY <1>1, <1>7, <1>8, <1>10, <1>12 DEF SettledOf, Settled
<1>14. stream' = stream /\ (pc' = "done") = (pc = "done") /\ pc # "done" /\ stream[i].n # 0
  BY <1>1, <1>7
<1>15. Ledger!Accept(i)
  BY <1>4, <1>9, <1>11, <1>13, <1>14, OneSample DEF Ledger!Accept, Ledger!data
<1>16. QED
  BY <1>15 DEF Ledger!LedgerNext

\* An outcome is stored: a question of an open sample is settled, in turn, and the
\* sample recorded with its last question.
LEMMA LedgerSettle ==
    ASSUME Clean, TypeOK, CleanInv, ApplyOutput \/ AskAlone \/ RecordError
    PROVE  Ledger!LedgerNext
<1>1. /\ InFlush /\ MoreTasks /\ pc' \in {"apply", "single"} /\ stream' = stream
  BY AnswerStep
<1>2. PICK s1, o, k, q :
        /\ k = CurrentTask.key /\ q = CurrentTask.q
        /\ Settles(states[k], s1, q) /\ Advance(k, s1, o) /\ Store(o, k)
  BY AnswerStep
<1>3. PICK s : s = states[k]
  OBVIOUS
<1>4. /\ k \in Keys /\ q \in Questions /\ s \in SampleState /\ s # NoState
      /\ stream[s.src].key = k /\ EntryOK(s) /\ q < s.next /\ ~Settled(s, q)
  BY <1>1, <1>2, <1>3, CurrentOpen
<1>5. PICK i \in 1 .. N : i = s.src
  BY <1>4 DEF SampleState
<1>6. /\ stream \in Streams /\ states \in [Keys -> SampleState \cup {NoState}] /\ file \in Seq(Line)
  BY DEF TypeOK
<1>7. /\ Settled(s1, q) /\ q \in 1 .. stream[i].n
      /\ \A p \in Questions : p # q => (Settled(s1, p) <=> Settled(s, p))
      /\ stream[i].conv => q = s.next - 1
      /\ Unsettled(s1) = Unsettled(s) \ {q}
  BY <1>2, <1>3, <1>4, <1>5, <1>6, SettledFacts
<1>8. /\ After(s1).src = i /\ After(s1).preds = s1.preds /\ After(s1).errs = s1.errs
      /\ After(s1) \in SampleState /\ s1.src = i
  <2>1. Settles(s, s1, q)
    BY <1>2, <1>3
  <2>2. /\ After(s1) \in SampleState /\ After(s1).src = s.src
        /\ After(s1).preds = s1.preds /\ After(s1).errs = s1.errs
    BY <1>4, <1>6, <2>1, AfterEntry
  <2>3. s1.src = s.src
    BY <2>1 DEF Settles
  <2>4. QED
    BY <1>5, <2>2, <2>3
<1>9. stream[i].n \in Nat /\ stream[i].conv \in BOOLEAN /\ 1 .. stream[i].n \subseteq Questions
      /\ s.next \in Nat
  BY <1>4, SampleFacts DEF SampleState
<1>10. states' = [states EXCEPT ![k] = o.state] /\ file' = o.file
  BY <1>2 DEF Store
<1>11. /\ Unsettled(s1) = {} => o.state = NoState /\ o.file = Append(file, AnswersLine(After(s1)))
       /\ Unsettled(s1) # {} => o.state = After(s1) /\ o.file = file
  BY <1>2 DEF Advance
<1>12. states'[k] = o.state /\ \A h \in Keys : h # k => states'[h] = states[h]
  BY <1>4, <1>6, <1>10
<1>13. Open(i) /\ StatusOf(i) = "open" /\ SettledOf(i) = {p \in 1 .. stream[i].n : Settled(s, p)}
  BY <1>3, <1>4, <1>5 DEF Open, StatusOf, SettledOf
<1>14. AnswersLine(After(s1)) \in Line /\ AnswersLine(After(s1)).src = i
       /\ AnswersLine(After(s1)).kind = "answers"
       /\ AnswersLine(After(s1)).preds = s1.preds /\ AnswersLine(After(s1)).errs = s1.errs
  BY <1>8 DEF AnswersLine, Line, SampleState
<1>15. PICK line \in Line : line = AnswersLine(After(s1))
  BY <1>14
<1>16. \A j \in 1 .. N : j # i => StatusOf(j)' = StatusOf(j) /\ SettledOf(j)' = SettledOf(j)
  <2> SUFFICES ASSUME NEW j \in 1 .. N, j # i
               PROVE  StatusOf(j)' = StatusOf(j) /\ SettledOf(j)' = SettledOf(j)
    OBVIOUS
  <2>1. stream[j].key \in Keys /\ stream[j].key # k
    BY <1>4, <1>5, <1>6, SampleFacts DEF Clean
  <2>2. states'[stream[j].key] = states[stream[j].key]
    BY <1>12, <2>1
  <2>3. file' = file \/ (line.src # j /\ file' = Append(file, line))
    BY <1>10, <1>11, <1>14, <1>15
  <2>4. QED
    BY <1>1, <1>6, <2>2, <2>3, SampleKept
<1>17. {p \in 1 .. stream[i].n : Settled(s1, p)} = SettledOf(i) \cup {q}
  BY <1>7, <1>9, <1>13
<1>18. SettledOf(i)' = SettledOf(i) \cup {q}
  <2>1. CASE Unsettled(s1) = {}
    <3>1. states'[k] = NoState /\ file' = Append(file, line)
      BY <1>10, <1>11, <1>12, <1>15, <2>1
    <3>2. ~Open(i)'
      BY <1>1, <1>4, <1>5, <3>1 DEF Open
    <3>3. \A p \in 1 .. stream[i].n : Settled(s1, p) /\ Settled(line, p)
      BY <1>8, <1>14, <1>15, <2>1 DEF Unsettled, Settled
    <3>4. Len(file) + 1 \in 1 .. Len(file') /\ file'[Len(file) + 1] = line
      BY <1>6, <3>1, LenProperties, AppendProperties
    <3>5. \E j \in 1 .. Len(file') : file'[j].src = i /\ \A p \in 1 .. stream[i].n : Settled(file'[j], p)
      BY <1>14, <1>15, <3>3, <3>4
    <3>6. SettledOf(i)' = 1 .. stream[i].n
      BY <1>1, <3>2, <3>5 DEF SettledOf, Settled
    <3>7. QED
      BY <1>17, <3>3, <3>6
  <2>2. CASE Unsettled(s1) # {}
    <3>1. PICK a : a = After(s1)
      OBVIOUS
    <3>2. states'[k] = a /\ a # NoState /\ a.src = i /\ a.preds = s1.preds /\ a.errs = s1.errs
      BY <1>8, <1>11, <1>12, <2>2, <3>1, SchedulerAssumption
    <3>3. Open(i)'
      BY <1>1, <1>4, <1>5, <3>2 DEF Open
    <3>4. SettledOf(i)' = {p \in 1 .. stream[i].n : Settled(s1, p)}
      BY <1>1, <1>4, <1>5, <3>2, <3>3 DEF SettledOf, Settled
    <3>5. QED
      BY <1>17, <3>4
  <2>3. QED
    BY <2>1, <2>2
<1>19. StatusOf(i)' = IF SettledOf(i)' = 1 .. stream[i].n THEN "recorded" ELSE "open"
  <2>1. CASE Unsettled(s1) = {}
    <3>1. states'[k] = NoState /\ file' = Append(file, line)
      BY <1>10, <1>11, <1>12, <1>15, <2>1
    <3>2. ~Open(i)'
      BY <1>1, <1>4, <1>5, <3>1 DEF Open
    <3>3. Len(file) + 1 \in 1 .. Len(file') /\ file'[Len(file) + 1] = line
      BY <1>6, <3>1, LenProperties, AppendProperties
    <3>4. StatusOf(i)' = "recorded"
      BY <1>14, <1>15, <3>2, <3>3 DEF StatusOf, AnsweredLine
    <3>5. \A p \in 1 .. stream[i].n : Settled(s1, p)
      BY <1>8, <2>1 DEF Unsettled
    <3>6. SettledOf(i)' = 1 .. stream[i].n
      BY <1>17, <1>18, <3>5
    <3>7. QED
      BY <3>4, <3>6
  <2>2. CASE Unsettled(s1) # {}
    <3>1. PICK a : a = After(s1)
      OBVIOUS
    <3>2. states'[k] = a /\ a # NoState /\ a.src = i
      BY <1>8, <1>11, <1>12, <2>2, <3>1, SchedulerAssumption
    <3>3. Open(i)'
      BY <1>1, <1>4, <1>5, <3>2 DEF Open
    <3>4. StatusOf(i)' = "open"
      BY <3>3 DEF StatusOf
    <3>5. PICK p \in 1 .. stream[i].n : ~Settled(s1, p)
      BY <1>8, <2>2 DEF Unsettled
    <3>6. p \notin SettledOf(i)'
      BY <1>17, <1>18, <3>5
    <3>7. QED
      BY <3>4, <3>5, <3>6
  <2>3. QED
    BY <2>1, <2>2
<1>20. q \notin SettledOf(i) /\ (stream[i].conv => \A p \in 1 .. (q - 1) : p \in SettledOf(i))
  <2>1. q \notin SettledOf(i)
    BY <1>4, <1>13
  <2>2. ASSUME stream[i].conv, NEW p \in 1 .. (q - 1) PROVE p \in SettledOf(i)
    <3>1. q \in 1 .. stream[i].n /\ q = s.next - 1
      BY <1>7, <2>2
    <3>2. p \in 1 .. stream[i].n /\ p \in 1 .. (s.next - 2)
      BY <1>9, <3>1
    <3>3. Settled(s, p)
      BY <1>4, <1>5, <2>2, <3>2 DEF EntryOK
    <3>4. QED
      BY <1>13, <3>2, <3>3
  <2>3. QED
    BY <2>1, <2>2
<1>21. (pc' = "done") = (pc = "done") /\ pc # "done"
  BY <1>1 DEF InFlush
<1>22. Ledger!Settle(i, q)
  BY <1>1, <1>13, <1>16, <1>18, <1>19, <1>20, <1>21, OneSample DEF Ledger!Settle, Ledger!data
<1>23. QED
  BY <1>7, <1>22 DEF Ledger!LedgerNext, Ledger!Progress

\* The call returns: no sample is open, the job is over.
LEMMA LedgerClose ==
    ASSUME TypeOK, Return
    PROVE  Ledger!LedgerNext
<1>1. /\ stream' = stream /\ states' = states /\ file' = file
      /\ pc = "loop" /\ pc' = "done" /\ InFlight = {}
  BY DEF Return
<1>2. \A i \in 1 .. N : StatusOf(i)' = StatusOf(i) /\ SettledOf(i)' = SettledOf(i)
  BY <1>1, SampleKept DEF TypeOK
<1>3. \A i \in 1 .. N : StatusOf(i) # "open"
  <2> SUFFICES ASSUME NEW i \in 1 .. N PROVE ~Open(i)
    BY DEF StatusOf
  <2>1. stream[i].key \in Keys
    BY SampleFacts
  <2>2. QED
    BY <1>1, <2>1 DEF InFlight, Open
<1>4. Ledger!Close
  BY <1>1, <1>2, <1>3 DEF Ledger!Close, Ledger!data
<1>5. QED
  BY <1>4 DEF Ledger!LedgerNext

\* Every step of a clean call is a step of the ledger, or the ledger does not see it.
LEMMA LedgerStep ==
    ASSUME Clean, TypeOK, CleanInv, [Next]_vars
    PROVE  [Ledger!LedgerNext]_(Ledger!ledgerVars)
<1>1. CASE SkipRecorded \/ StopReading \/ DrainFlush \/ Generate \/ GenerateFails \/ AskAloneFails
           \/ EndFlush \/ UNCHANGED vars
  <2>1. stream' = stream /\ states' = states /\ file' = file /\ (pc' = "done") = (pc = "done")
    BY <1>1 DEF SkipRecorded, StopReading, DrainFlush, Generate, GenerateFails, AskAloneFails,
                EndFlush, vars, Reading, RecoverOrRaise
  <2>2. QED
    BY <2>1, LedgerStutter
<1>2. CASE RecordEmpty \/ LoadFails
  BY <1>2, LedgerRecord
<1>3. CASE Admit
  BY <1>3, LedgerAdmit
<1>4. CASE AdmitFails
  <2>1. pos \in 1 .. N /\ Sample.n > 0 /\ ~Admission.ok
    BY <1>4, SampleType DEF AdmitFails, New
  <2>2. QED
    BY <2>1, Admitted
<1>5. CASE ApplyOutput \/ AskAlone \/ RecordError
  BY <1>5, LedgerSettle
<1>6. CASE Return
  BY <1>6, LedgerClose
<1>7. ASSUME NEW k \in Keys, Fallback(k) PROVE FALSE
  BY <1>7, NoFallback
<1>8. QED
  BY <1>1, <1>2, <1>3, <1>4, <1>5, <1>6, <1>7 DEF Next, ReadStep, DrainStep, FlushStep, Finished

LEMMA LedgerStart == Init => Ledger!LedgerInit
<1> SUFFICES ASSUME Init PROVE Ledger!LedgerInit
  OBVIOUS
<1>1. TypeOK
  BY TypeInit
<1>2. Len(file) = 0 /\ pc = "loop" /\ \A k \in Keys : states[k] = NoState
  BY DEF Init
<1>3. \A i \in 1 .. N : stream[i].n \in Nat /\ ~Open(i)
  BY <1>1, <1>2, SampleFacts DEF Open
<1>4. \A i \in 1 .. N : StatusOf(i) = "unread" /\ SettledOf(i) = {}
  BY <1>2, <1>3 DEF StatusOf, SettledOf, AnsweredLine
<1>5. QED
  BY <1>2, <1>3, <1>4 DEF Ledger!LedgerInit

\* The safety part of ImplementsLedger: a clean call of evaluate_dataset starts as the
\* ledger and takes only steps of the ledger, whatever its batches, failing generate
\* calls and recoveries do. (That it also makes the ledger's progress is checked by TLC.)
THEOREM ImplementsLedgerSafely ==
    ASSUME Clean
    PROVE  Spec => Ledger!LedgerInit /\ [][Ledger!LedgerNext]_(Ledger!ledgerVars)
<1>1. TypeOK /\ CleanInv /\ [Next]_vars => [Ledger!LedgerNext]_(Ledger!ledgerVars)
  BY LedgerStep
<1>2. QED
  BY <1>1, LedgerStart, CleanRuns, PTL DEF Spec
=============================================================================
