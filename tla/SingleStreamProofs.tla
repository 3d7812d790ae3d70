------------------------- MODULE SingleStreamProofs -------------------------
(***************************************************************************)
(* Proofs about SingleStream: whatever the datasets, options, faults,      *)
(* kills and number of runs, temporary images are left behind by killed    *)
(* runs only, a complete run loses no record but to interrupted writes, a  *)
(* strict job gets further with every rerun, and credit is earned.         *)
(***************************************************************************)
EXTENDS SingleStream, FiniteSetTheorems, WellFoundedInduction, TLAPS

\* Outside of a sample no temporary file is remembered; together with the count of
\* the files, this makes TempFilesRemoved inductive.
Idle == pc \notin {"infer", "except", "finally"}
Held == IF temp THEN 1 ELSE 0
Counted ==
    /\ temps \in Int /\ partials \in Int /\ kills \in Int /\ temp \in BOOLEAN
    /\ temps - partials <= kills + Held
TempInv == Counted /\ (Idle => ~temp)

LEMMA HeldType ==
    ASSUME temp \in BOOLEAN PROVE Held \in {0, 1} /\ (Held = 0 <=> ~temp)
<1>1. CASE temp = TRUE
  BY <1>1 DEF Held
<1>2. CASE temp = FALSE
  BY <1>2 DEF Held
<1> QED BY <1>1, <1>2

\* The steps that create, remove or forget a temporary file.
LEMMA TempFileSteps ==
    ASSUME TempInv,
           Materialize \/ MaterializeFails \/ TempWriteFails \/ Finally \/ Kill
    PROVE  TempInv'
<1>0. /\ temps \in Int /\ partials \in Int /\ kills \in Int
      /\ Held = 0 \/ Held = 1
      /\ temps - partials <= kills + Held
  BY HeldType DEF TempInv, Counted
<1>1. CASE Materialize
  <2>1. Held = 0
    <3>1. ~temp
      BY <1>1 DEF Materialize, New, AtSample, AtLine, TempInv, Idle
    <3> QED BY <3>1 DEF Held
  <2>2. /\ temp' \in BOOLEAN /\ temps' = IF temp' THEN temps + 1 ELSE temps
        /\ partials' = partials /\ kills' = kills /\ ~Idle'
    BY <1>1 DEF Materialize, history, Idle
  <2>3. \/ Held' = 0 /\ temps' = temps
        \/ Held' = 1 /\ temps' = temps + 1
    <3>1. CASE temp' = TRUE
      BY <1>0, <2>2, <3>1 DEF Held
    <3>2. CASE temp' = FALSE
      BY <1>0, <2>2, <3>2 DEF Held
    <3> QED BY <2>2, <3>1, <3>2
  <2>4. partials' = partials /\ kills' = kills
    BY <2>2
  <2>5. /\ temps' \in Int /\ partials' \in Int /\ kills' \in Int
        /\ temps' - partials' <= kills' + Held'
    BY <1>0, <2>1, <2>3, <2>4
  <2>6. Counted'
    BY <2>2, <2>5 DEF Counted
  <2> QED BY <2>2, <2>6 DEF TempInv
<1>2. CASE MaterializeFails
  <2>1. UNCHANGED <<temps, partials, kills, temp>> /\ ~Idle'
    BY <1>2 DEF MaterializeFails, Idle, disk, sample, history
  <2> QED BY <2>1 DEF TempInv, Counted, Held
<1>3. CASE TempWriteFails
  <2>1. temps' = temps + 1 /\ partials' = partials + 1 /\ kills' = kills
    BY <1>3 DEF TempWriteFails, history
  <2>2. temp' = temp /\ ~Idle'
    BY <1>3 DEF TempWriteFails, Idle, sample
  <2>3. Held' = Held
    BY <2>2 DEF Held
  <2>4. /\ temps' \in Int /\ partials' \in Int /\ kills' \in Int
        /\ temps' - partials' <= kills' + Held'
    BY <1>0, <2>1, <2>3
  <2> QED BY <2>2, <2>4 DEF TempInv, Counted
<1>4. CASE Finally
  <2>1. /\ temps' = IF temp THEN temps - 1 ELSE temps
        /\ temp' = FALSE /\ partials' = partials /\ kills' = kills
    BY <1>4 DEF Finally, history
  <2>2. \/ Held = 0 /\ temps' = temps
        \/ Held = 1 /\ temps' = temps - 1
    <3>1. CASE temp = TRUE
      BY <1>0, <2>1, <3>1 DEF Held
    <3>2. CASE temp = FALSE
      BY <1>0, <2>1, <3>2 DEF Held
    <3> QED BY <3>1, <3>2 DEF TempInv, Counted
  <2>3. Held' = 0
    BY <2>1 DEF Held
  <2>4. partials' = partials /\ kills' = kills
    BY <2>1
  <2>5. /\ temps' \in Int /\ partials' \in Int /\ kills' \in Int
        /\ temps' - partials' <= kills' + Held'
    BY <1>0, <2>2, <2>3, <2>4
  <2>6. Counted'
    BY <2>1, <2>5 DEF Counted
  <2> QED BY <2>1, <2>6 DEF TempInv
<1>5. CASE Kill
  <2>1. temps' = temps /\ partials' = partials /\ kills' = kills + 1
    BY <1>5 DEF Kill
  <2>2. temp' = FALSE
    BY <1>5 DEF Kill
  <2>3. Held' = 0
    BY <2>2 DEF Held
  <2>4. /\ temps' \in Int /\ partials' \in Int /\ kills' \in Int
        /\ temps' - partials' <= kills' + Held'
    BY <1>0, <2>1, <2>3
  <2>5. Counted'
    BY <2>2, <2>4 DEF Counted
  <2> QED BY <2>2, <2>5 DEF TempInv
<1> QED BY <1>1, <1>2, <1>3, <1>4, <1>5

\* All others leave the files alone, and none of them ends a sample.
LEMMA OtherSteps ==
    ASSUME TempInv,
           \/ LoopStep \/ Answer \/ InferFails \/ AllAnswered \/ Except
           \/ Write \/ Leave \/ (\E a \in ArgSets : Start(a)) \/ UNCHANGED vars
    PROVE  TempInv'
<1> SUFFICES /\ temps' = temps /\ partials' = partials /\ kills' = kills /\ temp' = temp
             /\ Idle' => Idle
  BY DEF TempInv, Counted, Held
<1>1. CASE LoopStep
  BY <1>1 DEF LoopStep, OpenDataset, SkipBlank, ReaderRaises, SkipRecorded, EndLoop,
              AtSample, AtLine, Idle, disk, sample, history
<1>2. CASE Answer \/ InferFails \/ AllAnswered \/ Except
  BY <1>2 DEF Answer, InferFails, AllAnswered, Except, Idle, disk, place, sample, history
<1>3. CASE Write
  BY <1>3 DEF Write, Idle, history
<1>4. CASE Leave
  BY <1>4 DEF Leave, Idle, disk
<1>5. CASE \E a \in ArgSets : Start(a)
  BY <1>5 DEF Start, Over, Idle, disk, sample
<1>6. CASE UNCHANGED vars
  BY <1>6 DEF vars, Idle, disk, place, sample, history
<1> QED BY <1>1, <1>2, <1>3, <1>4, <1>5, <1>6

\* Temporary image files that were written whole are left behind by killed runs only,
\* at most one by each: for every input, command line, fault and number of runs
\* (materialize_sample_image and the finally clause of evaluate_dataset).
THEOREM OnlyKilledRunsLeaveFiles == Spec => []TempFilesRemoved
<1>1. Init => TempInv
  <2> SUFFICES ASSUME Init PROVE TempInv
    OBVIOUS
  <2>1. temps = 0 /\ partials = 0 /\ kills = 0 /\ temp = FALSE
    BY DEF Init
  <2>2. Held = 0
    BY <2>1 DEF Held
  <2>3. temps - partials <= kills + Held
    BY <2>1, <2>2
  <2>4. temps \in Int /\ partials \in Int /\ kills \in Int /\ temp \in BOOLEAN
    <3>1. temps = 0 /\ partials = 0 /\ kills = 0
      BY <2>1
    <3>2. temps \in Int /\ partials \in Int /\ kills \in Int
      BY <3>1
    <3> QED BY <2>1, <3>2
  <2>5. Counted
    BY <2>3, <2>4 DEF Counted
  <2> QED BY <2>1, <2>5 DEF TempInv
<1>2. TempInv /\ [Next]_vars => TempInv'
  <2> SUFFICES ASSUME TempInv, [Next]_vars PROVE TempInv'
    OBVIOUS
  <2>1. CASE Materialize \/ MaterializeFails \/ TempWriteFails \/ Finally \/ Kill
    BY <2>1, TempFileSteps
  <2>2. CASE \/ LoopStep \/ Answer \/ InferFails \/ AllAnswered \/ Except
             \/ Write \/ Leave \/ (\E a \in ArgSets : Start(a)) \/ UNCHANGED vars
    BY <2>2, OtherSteps
  <2> QED BY <2>1, <2>2 DEF Next, Work, SampleStep, Finished
<1>3. TempInv => TempFilesRemoved
  BY DEF TempInv, Counted, Held, TempFilesRemoved
<1> QED BY <1>1, <1>2, <1>3, PTL DEF Spec

-----------------------------------------------------------------------------
(* Records, in the order they are made: what a run went past is in the file.   *)

PredictionLine == [ended : BOOLEAN, ok : BOOLEAN, holds : SUBSET Nat, preds : Seq(Texts)]

\* The samples whose records are somewhere in the file, on readable lines or not.
AllHeld(f) == UNION {f[j].holds : j \in 1 .. Len(f)}
IdsOf(lines, f) == {SampleId(lines, i) : i \in AllHeld(f)}
HeldIds(k) == IdsOf(input[k], files[k])
Covered(k, i) == SampleId(input[k], i) \in HeldIds(k)
Done(k) == \A i \in SampleLines(input[k]) : Covered(k, i)

InFile == pc \in {"next", "infer", "except", "finally", "write", "leave"}

Typed ==
    /\ input \in Seq(Seq(AnnotationLine))
    /\ files \in [1 .. Len(input) -> Seq(PredictionLine)]
    /\ d \in 1 .. Len(input) /\ pos \in Nat
    /\ preds \in Seq(Texts)

\* The ids passed over are held, and so is every line before the current one; a
\* dataset that ended without an exception, and all of those before it while the
\* exit code is 0, are held as a whole.
Passed == InFile => /\ completed \subseteq HeldIds(d)
                    /\ \A i \in SampleLines(input[d]) : i < pos => Covered(d, i)
Ended == pc = "leave" /\ exc = "none" /\ args.cap = 0 => Done(d)
Before == code = 0 /\ args.cap = 0 =>
            /\ \A k \in 1 .. Len(input) : k < d => Done(k)
            /\ pc = "exit" => d = Len(input) /\ Done(d)
LossInv == Typed /\ Passed /\ Ended /\ Before

LEMMA AppendType ==
    ASSUME NEW f \in Seq(PredictionLine), NEW i \in Nat, NEW p \in Seq(Texts),
           NEW outcome \in {"none", "ok", "cut", "bare"}
    PROVE  JsonlAppend(f, outcome, i, p) \in Seq(PredictionLine)
<1>0. <<>> \in Seq(Texts)
  OBVIOUS
<1>1. CASE outcome = "none"
  BY <1>1 DEF JsonlAppend
<1>2. ASSUME outcome # "none" PROVE NewLine(outcome, i, p) \in PredictionLine
  BY <1>0, <1>2 DEF NewLine, PredictionLine
<1>3. CASE outcome # "none" /\ Unended(f)
  <2>1. f[Len(f)] \in PredictionLine /\ Len(f) \in 1 .. Len(f)
    BY <1>3 DEF Unended
  <2>2. NewLine(outcome, i, p).holds \subseteq Nat /\ f[Len(f)].holds \subseteq Nat
    BY <1>2, <1>3, <2>1 DEF PredictionLine
  <2> DEFINE last == [ended |-> outcome = "ok", ok |-> FALSE, preds |-> <<>>,
                      holds |-> f[Len(f)].holds \cup NewLine(outcome, i, p).holds]
  <2>3. last \in PredictionLine
    BY <1>0, <2>2 DEF PredictionLine
  <2>4. JsonlAppend(f, outcome, i, p) = [f EXCEPT ![Len(f)] = last]
    BY <1>3 DEF JsonlAppend
  <2> HIDE DEF last
  <2> QED BY <2>1, <2>3, <2>4
<1>4. CASE outcome # "none" /\ ~Unended(f)
  BY <1>2, <1>4 DEF JsonlAppend
<1> QED BY <1>1, <1>3, <1>4

LEMMA InHeld ==
    ASSUME NEW f, NEW i PROVE i \in AllHeld(f) <=> \E j \in 1 .. Len(f) : i \in f[j].holds
BY DEF AllHeld

\* Nothing that is appended takes a record away, and a write that ends normally adds its own.
LEMMA AppendHolds ==
    ASSUME NEW f \in Seq(PredictionLine), NEW i \in Nat, NEW p \in Seq(Texts),
           NEW outcome \in {"none", "ok", "cut", "bare"}
    PROVE  /\ AllHeld(f) \subseteq AllHeld(JsonlAppend(f, outcome, i, p))
           /\ outcome = "ok" => i \in AllHeld(JsonlAppend(f, outcome, i, p))
<1> DEFINE g == JsonlAppend(f, outcome, i, p)
<1>1. CASE outcome = "none"
  BY <1>1 DEF JsonlAppend
<1>2. outcome = "ok" => i \in NewLine(outcome, i, p).holds
  BY DEF NewLine
<1>3. CASE outcome # "none" /\ Unended(f)
  <2> DEFINE last == [ended |-> outcome = "ok", ok |-> FALSE, preds |-> <<>>,
                      holds |-> f[Len(f)].holds \cup NewLine(outcome, i, p).holds]
  <2>1. g = [f EXCEPT ![Len(f)] = last] /\ Len(f) \in 1 .. Len(f)
    BY <1>3 DEF JsonlAppend, Unended
  <2>2. /\ f[Len(f)].holds \subseteq last.holds
        /\ NewLine(outcome, i, p).holds \subseteq last.holds
    OBVIOUS
  <2> HIDE DEF last
  <2>3. /\ Len(g) = Len(f)
        /\ \A j \in 1 .. Len(f) : f[j].holds \subseteq g[j].holds
        /\ g[Len(f)] = last
    BY <2>1, <2>2
  <2> HIDE DEF g
  <2>4. AllHeld(f) \subseteq AllHeld(g)
    BY <2>3, InHeld
  <2>5. outcome = "ok" => i \in AllHeld(g)
    BY <1>2, <2>1, <2>2, <2>3, InHeld
  <2> QED BY <2>4, <2>5 DEF g
<1>4. CASE outcome # "none" /\ ~Unended(f)
  <2>1. g = Append(f, NewLine(outcome, i, p))
    BY <1>4 DEF JsonlAppend
  <2> DEFINE new == NewLine(outcome, i, p)
  <2> HIDE DEF new
  <2>2. /\ Len(g) = Len(f) + 1 /\ Len(f) \in Nat
        /\ \A j \in 1 .. Len(f) : g[j] = f[j]
        /\ g[Len(f) + 1] = new
    BY <2>1 DEF new
  <2>3. outcome = "ok" => i \in new.holds
    BY <1>2 DEF new
  <2> HIDE DEF g
  <2>4. AllHeld(f) \subseteq AllHeld(g)
    <3> SUFFICES ASSUME NEW s \in AllHeld(f) PROVE s \in AllHeld(g)
      OBVIOUS
    <3>1. PICK j \in 1 .. Len(f) : s \in f[j].holds
      BY InHeld
    <3>2. j \in 1 .. Len(g) /\ g[j] = f[j]
      BY <2>2
    <3> QED BY <3>1, <3>2, InHeld
  <2>5. outcome = "ok" => i \in AllHeld(g)
    <3>1. Len(g) \in 1 .. Len(g)
      BY <2>2
    <3> QED BY <2>2, <2>3, <3>1, InHeld
  <2> QED BY <2>4, <2>5 DEF g
<1> QED BY <1>1, <1>3, <1>4

LEMMA IdsGrow ==
    ASSUME NEW lines, NEW f, NEW g, AllHeld(f) \subseteq AllHeld(g)
    PROVE  IdsOf(lines, f) \subseteq IdsOf(lines, g)
BY DEF IdsOf

FilesGrow ==
    /\ files' \in [1 .. Len(input) -> Seq(PredictionLine)]
    /\ \A k \in 1 .. Len(input) : IdsOf(input[k], files[k]) \subseteq IdsOf(input[k], files'[k])

\* A write to the current file, however it ends.
LEMMA WriteGrows ==
    ASSUME Typed, NEW p \in Seq(Texts), NEW outcome \in {"none", "ok", "cut", "bare"},
           files' = [files EXCEPT ![d] = JsonlAppend(@, outcome, pos, p)]
    PROVE  /\ FilesGrow
           /\ outcome = "ok" => SampleId(input[d], pos) \in IdsOf(input[d], files'[d])
<1>1. d \in 1 .. Len(input) /\ files[d] \in Seq(PredictionLine) /\ pos \in Nat
      /\ files \in [1 .. Len(input) -> Seq(PredictionLine)]
  BY DEF Typed
<1> DEFINE g == JsonlAppend(files[d], outcome, pos, p)
<1>2. g \in Seq(PredictionLine)
  BY <1>1, AppendType
<1>3. AllHeld(files[d]) \subseteq AllHeld(g) /\ (outcome = "ok" => pos \in AllHeld(g))
  BY <1>1, AppendHolds
<1>4. files' = [files EXCEPT ![d] = g]
  OBVIOUS
<1> HIDE DEF g
<1>5. /\ files' \in [1 .. Len(input) -> Seq(PredictionLine)]
      /\ files'[d] = g
      /\ \A k \in 1 .. Len(input) : k # d => files'[k] = files[k]
  BY <1>1, <1>2, <1>4
<1>6. \A k \in 1 .. Len(input) : AllHeld(files[k]) \subseteq AllHeld(files'[k])
  BY <1>3, <1>5
<1>7. FilesGrow
  BY <1>5, <1>6, IdsGrow DEF FilesGrow
<1>8. outcome = "ok" => SampleId(input[d], pos) \in IdsOf(input[d], files'[d])
  BY <1>3, <1>5 DEF IdsOf
<1> QED BY <1>7, <1>8

LEMMA UnchangedGrows ==
    ASSUME Typed, UNCHANGED files PROVE FilesGrow
BY DEF Typed, FilesGrow

LEMMA DoneKept ==
    ASSUME Typed, FilesGrow, UNCHANGED input, NEW k \in 1 .. Len(input), Done(k)
    PROVE  Done(k)'
BY DEF Done, Covered, HeldIds, FilesGrow

\* A step within a sample, or out of the file, that stays at its line.
LEMMA StayFrame ==
    ASSUME LossInv, UNCHANGED <<input, args, d, pos, completed, code>>,
           FilesGrow, preds' \in Seq(Texts),
           InFile' => InFile, pc' = "exit" => pc = "exit",
           pc' = "leave" /\ exc' = "none" /\ args.cap = 0 => Done(d)
    PROVE  LossInv'
<1>1. Typed'
  BY DEF LossInv, Typed, FilesGrow
<1>2. d \in 1 .. Len(input) /\ d' = d
  BY DEF LossInv, Typed
<1>3. HeldIds(d) \subseteq (HeldIds(d))'
  BY <1>2 DEF HeldIds, FilesGrow
<1>4. Passed'
  BY <1>2, <1>3 DEF LossInv, Passed, Covered
<1>5. \A k \in 1 .. Len(input) : Done(k) => \A i \in SampleLines(input[k]) :
        SampleId(input[k], i) \in IdsOf(input[k], files'[k])
  BY DEF Done, Covered, HeldIds, FilesGrow
<1>6. Ended'
  BY <1>2, <1>5 DEF Ended, Done, Covered, HeldIds
<1>7. Before'
  BY <1>2, <1>5 DEF LossInv, Before, Done, Covered, HeldIds
<1> QED BY <1>1, <1>4, <1>6, <1>7 DEF LossInv

\* A step to the next line, after which this line's id is held.
LEMMA AdvanceFrame ==
    ASSUME LossInv, UNCHANGED <<input, args, d, code>>, FilesGrow, preds' \in Seq(Texts),
           InFile, pc' = "next", pos' = pos + 1,
           pos \in SampleLines(input[d]) => SampleId(input[d], pos) \in IdsOf(input[d], files'[d]),
           completed' \subseteq completed \cup IdsOf(input[d], files'[d])
    PROVE  LossInv'
<1>1. Typed'
  <2>1. pos' \in Nat
    BY DEF LossInv, Typed
  <2> QED BY <2>1 DEF LossInv, Typed, FilesGrow
<1>2. d \in 1 .. Len(input) /\ d' = d /\ pos \in Nat
  BY DEF LossInv, Typed
<1>3. IdsOf(input[d], files[d]) \subseteq IdsOf(input[d], files'[d])
  BY <1>2 DEF FilesGrow
<1>4. completed' \subseteq IdsOf(input[d], files'[d])
  BY <1>3 DEF LossInv, Passed, HeldIds
<1>5. ASSUME NEW i \in SampleLines(input[d]), i < pos + 1
      PROVE  SampleId(input[d], i) \in IdsOf(input[d], files'[d])
  <2>1. CASE i = pos
    BY <2>1
  <2>2. CASE i # pos
    <3>1. i \in Int
      BY DEF SampleLines
    <3>2. i < pos
      BY <1>2, <1>5, <2>2, <3>1
    <3> QED BY <1>3, <3>2 DEF LossInv, Passed, Covered, HeldIds
  <2> QED BY <2>1, <2>2
<1>6. Passed'
  BY <1>2, <1>4, <1>5 DEF Passed, Covered, HeldIds
<1>7. Ended'
  BY DEF Ended
<1>8. Before'
  <2>1. \A k \in 1 .. Len(input) : Done(k) => \A i \in SampleLines(input[k]) :
          SampleId(input[k], i) \in IdsOf(input[k], files'[k])
    BY DEF Done, Covered, HeldIds, FilesGrow
  <2> QED BY <1>2, <2>1 DEF LossInv, Before, Done, Covered, HeldIds
<1> QED BY <1>1, <1>6, <1>7, <1>8 DEF LossInv

LEMMA LoopSteps ==
    ASSUME LossInv, LoopStep PROVE LossInv'
<1>0. d \in 1 .. Len(input) /\ pos \in Nat /\ Typed /\ Lines = input[d]
  BY DEF LossInv, Typed, Lines
<1>1. CASE OpenDataset
  <2>1. /\ UNCHANGED <<input, args, d, code, preds>> /\ pc' = "next" /\ pos' = 1
        /\ files' = IF args.overwrite THEN [files EXCEPT ![d] = <<>>] ELSE files
        /\ completed' = LoadExistingIds(input[d], files'[d])
    BY <1>0, <1>1 DEF OpenDataset, sample
  <2>2. files' \in [1 .. Len(input) -> Seq(PredictionLine)]
    BY <1>0, <2>1 DEF Typed
  <2>3. Typed'
    BY <1>0, <2>1, <2>2 DEF Typed
  <2>4. completed' \subseteq IdsOf(input[d], files'[d])
    BY <2>1 DEF LoadExistingIds, Recorded, Readable, IdsOf, AllHeld
  <2>5. \A i \in SampleLines(input[d]) : ~(i < 1)
    BY DEF SampleLines
  <2>6. Passed'
    BY <1>0, <2>1, <2>4, <2>5 DEF Passed, HeldIds
  <2>7. \A k \in 1 .. Len(input) : k < d => files'[k] = files[k]
    BY <1>0, <2>1 DEF Typed
  <2>8. Before'
    BY <1>0, <2>1, <2>7 DEF LossInv, Before, Done, Covered, HeldIds
  <2>9. Ended'
    BY <2>1 DEF Ended
  <2> QED BY <2>3, <2>6, <2>8, <2>9 DEF LossInv
<1>2. CASE SkipBlank
  <2>1. /\ UNCHANGED <<input, args, d, code, preds, files, completed>>
        /\ InFile /\ pc' = "next" /\ pos' = pos + 1 /\ pos \notin SampleLines(input[d])
    BY <1>0, <1>2 DEF SkipBlank, AtLine, Here, SampleLines, InFile, disk, sample
  <2> QED BY <1>0, <2>1, UnchangedGrows, AdvanceFrame DEF Typed
<1>3. CASE ReaderRaises
  <2>1. /\ UNCHANGED <<input, args, d, pos, completed, code, preds, files>>
        /\ InFile /\ pc' = "leave" /\ exc' = "reader"
    BY <1>3 DEF ReaderRaises, AtLine, InFile, disk
  <2> QED BY <1>0, <2>1, UnchangedGrows, StayFrame DEF Typed
<1>4. CASE SkipRecorded
  <2>1. /\ UNCHANGED <<input, args, d, code, preds, files, completed>>
        /\ InFile /\ pc' = "next" /\ pos' = pos + 1 /\ SampleId(input[d], pos) \in completed
    BY <1>0, <1>4 DEF SkipRecorded, AtSample, AtLine, HereId, InFile, disk, sample
  <2>2. SampleId(input[d], pos) \in IdsOf(input[d], files'[d])
    BY <2>1 DEF LossInv, Passed, HeldIds
  <2> QED BY <1>0, <2>1, <2>2, UnchangedGrows, AdvanceFrame DEF Typed
<1>5. CASE EndLoop
  <2>1. /\ UNCHANGED <<input, args, d, pos, completed, code, preds, files, exc>>
        /\ InFile /\ pc' = "leave"
        /\ pos > Len(input[d]) \/ args.cap > 0
    BY <1>0, <1>5 DEF EndLoop, New, Capped, InFile, disk, sample
  <2>2. ASSUME args.cap = 0 PROVE Done(d)
    <3>1. pos > Len(input[d])
      BY <2>1, <2>2
    <3>2. Len(input[d]) \in Nat
      BY <1>0 DEF Typed
    <3>3. \A i \in SampleLines(input[d]) : i < pos
      BY <1>0, <3>1, <3>2 DEF SampleLines
    <3> QED BY <2>1, <3>3 DEF LossInv, Passed, Done
  <2> QED BY <1>0, <2>1, <2>2, UnchangedGrows, StayFrame DEF Typed
<1> QED BY <1>1, <1>2, <1>3, <1>4, <1>5 DEF LoopStep

LEMMA SampleSteps ==
    ASSUME LossInv, SampleStep PROVE LossInv'
<1>0. Typed /\ d \in 1 .. Len(input) /\ preds \in Seq(Texts) /\ <<>> \in Seq(Texts) /\ Lines = input[d]
  BY DEF LossInv, Typed, Lines
<1>1. CASE Materialize \/ MaterializeFails \/ TempWriteFails
  <2>1. /\ UNCHANGED <<input, args, d, pos, completed, code, preds, files, exc>>
        /\ InFile /\ pc' \in {"infer", "except"}
    BY <1>1 DEF Materialize, MaterializeFails, TempWriteFails, New, AtSample, AtLine, InFile,
                disk, sample
  <2> QED BY <1>0, <2>1, UnchangedGrows, StayFrame
<1>2. CASE Answer \/ InferFails \/ AllAnswered
  <2>1. /\ UNCHANGED <<input, args, d, pos, completed, code, files, exc>>
        /\ InFile /\ pc' \in {"infer", "except", "finally"} /\ preds' \in Seq(Texts)
    BY <1>0, <1>2 DEF Answer, InferFails, AllAnswered, InFile, disk, place, sample
  <2> QED BY <1>0, <2>1, UnchangedGrows, StayFrame
<1>3. CASE Except
  <2>1. /\ UNCHANGED <<input, args, d, pos, completed, code>>
        /\ InFile /\ pc' = "finally" /\ preds' = <<>>
    BY <1>3 DEF Except, InFile
  <2>2. FilesGrow
    <3>1. CASE ~args.strict
      BY <1>0, <1>3, <3>1, UnchangedGrows DEF Except
    <3>2. CASE args.strict
      <4>1. PICK outcome \in WriteOutcomes :
              files' = [files EXCEPT ![d] = JsonlAppend(@, outcome, pos, <<>>)]
        BY <1>3, <3>2 DEF Except
      <4>2. outcome \in {"none", "ok", "cut", "bare"}
        BY DEF WriteOutcomes, Partial
      <4> QED BY <1>0, <4>1, <4>2, WriteGrows
    <3> QED BY <3>1, <3>2
  <2> QED BY <1>0, <2>1, <2>2, StayFrame
<1>4. CASE Finally
  <2>1. /\ UNCHANGED <<input, args, d, pos, completed, code, preds, files, exc>>
        /\ InFile /\ pc' = IF exc = "none" THEN "write" ELSE "leave"
    BY <1>4 DEF Finally, InFile
  <2>2. pc' # "exit" /\ ~(pc' = "leave" /\ exc' = "none")
    BY <2>1
  <2> QED BY <1>0, <2>1, <2>2, UnchangedGrows, StayFrame
<1>5. CASE Write
  <2>1. PICK outcome \in WriteOutcomes :
          /\ files' = [files EXCEPT ![d] = JsonlAppend(@, outcome, pos, preds)]
          /\ IF outcome = "ok"
             THEN /\ completed' = completed \cup {HereId}
                  /\ processed' = processed + 1
                  /\ pos' = pos + 1 /\ pc' = "next" /\ exc' = exc
             ELSE exc' = "write" /\ pc' = "leave" /\ UNCHANGED <<completed, processed, pos>>
    BY <1>5 DEF Write
  <2>2. outcome \in {"none", "ok", "cut", "bare"}
    BY DEF WriteOutcomes, Partial
  <2>3. UNCHANGED <<input, args, d, code>> /\ InFile /\ preds' = <<>>
    BY <1>5 DEF Write, InFile
  <2>4. FilesGrow /\ (outcome = "ok" => HereId \in IdsOf(input[d], files'[d]))
    BY <1>0, <2>1, <2>2, WriteGrows DEF HereId
  <2>5. CASE outcome = "ok"
    <3>1. /\ completed' = completed \cup {HereId} /\ HereId = SampleId(input[d], pos)
          /\ pos' = pos + 1 /\ pc' = "next"
      BY <1>0, <2>1, <2>5 DEF HereId
    <3> QED BY <1>0, <2>3, <2>4, <2>5, <3>1, AdvanceFrame
  <2>6. CASE outcome # "ok"
    <3>1. exc' = "write" /\ pc' = "leave" /\ UNCHANGED <<completed, pos>>
      BY <2>1, <2>6
    <3> QED BY <1>0, <2>3, <2>4, <3>1, StayFrame
  <2> QED BY <2>5, <2>6
<1> QED BY <1>1, <1>2, <1>3, <1>4, <1>5 DEF SampleStep

LEMMA LeaveStep ==
    ASSUME LossInv, Leave PROVE LossInv'
<1>0. Typed /\ d \in 1 .. Len(input) /\ Len(input) \in Nat
  BY DEF LossInv, Typed
<1>1. /\ UNCHANGED <<input, files, args, pos, preds>> /\ pc = "leave"
      /\ code' = IF exc = "none" THEN code ELSE 1
      /\ \/ pc' = "exit" /\ d' = d /\ (exc = "none" => d = Len(input))
         \/ pc' = "open" /\ d' = d + 1 /\ d # Len(input)
  BY DEF Leave, disk
<1>2. d' \in 1 .. Len(input) /\ (d' = d + 1 => \A k \in 1 .. Len(input) : k < d' => k < d \/ k = d)
  <2>1. CASE d' = d
    BY <1>0, <2>1
  <2>2. CASE d' = d + 1 /\ d # Len(input)
    BY <1>0, <2>2
  <2> QED BY <1>1, <2>1, <2>2
<1>3. Typed'
  BY <1>0, <1>1, <1>2 DEF Typed
<1>4. Passed' /\ Ended'
  BY <1>1 DEF Passed, Ended, InFile
<1>5. ASSUME code' = 0, args.cap = 0
      PROVE  Done(d) /\ exc = "none" /\ \A k \in 1 .. Len(input) : k < d => Done(k)
  <2>1. exc = "none" /\ code = 0
    BY <1>1, <1>5
  <2> QED BY <1>1, <1>5, <2>1 DEF LossInv, Ended, Before
<1>6. \A k : Done(k) => \A i \in SampleLines(input'[k]) :
        SampleId(input'[k], i) \in IdsOf(input'[k], files'[k])
  BY <1>1 DEF Done, Covered, HeldIds
<1>7. Before'
  <2>1. CASE d' = d
    BY <1>0, <1>1, <1>5, <1>6, <2>1 DEF Before, Done, Covered, HeldIds
  <2>2. CASE pc' = "open" /\ d' = d + 1
    <3>1. ASSUME code' = 0, args.cap = 0, NEW k \in 1 .. Len(input), k < d'
          PROVE  Done(k)
      BY <1>2, <1>5, <2>2, <3>1
    <3> QED BY <1>1, <1>6, <2>2, <3>1 DEF Before, Done, Covered, HeldIds
  <2> QED BY <1>1, <2>1, <2>2
<1> QED BY <1>3, <1>4, <1>7 DEF LossInv

LEMMA KillStep ==
    ASSUME LossInv, Kill PROVE LossInv'
<1>0. Typed /\ preds \in Seq(Texts) /\ <<>> \in Seq(Texts)
  BY DEF LossInv, Typed
<1>1. /\ UNCHANGED <<input, args, d, pos, completed, code>> /\ pc' = "killed" /\ preds' = <<>>
  BY DEF Kill
<1>2. FilesGrow
  <2>1. CASE files' = files
    BY <1>0, <2>1, UnchangedGrows
  <2>2. CASE \E outcome \in {"ok", "cut", "bare"} :
               files' = [files EXCEPT ![d] =
                           JsonlAppend(@, outcome, pos, IF pc = "write" THEN preds ELSE <<>>)]
    BY <1>0, <2>2, WriteGrows
  <2> QED BY <2>1, <2>2 DEF Kill
<1> QED BY <1>0, <1>1, <1>2, StayFrame DEF InFile

LEMMA StartStep ==
    ASSUME LossInv, NEW a \in ArgSets, Start(a) PROVE LossInv'
<1>1. UNCHANGED <<input, files, pos, preds>> /\ d' = 1 /\ pc' = "open"
  BY DEF Start, disk, sample
<1>2. 1 \in 1 .. Len(input)
  BY DEF LossInv, Typed
<1>3. Typed'
  BY <1>1, <1>2 DEF LossInv, Typed
<1>4. \A k \in 1 .. Len(input) : ~(k < 1)
  OBVIOUS
<1> QED BY <1>1, <1>3, <1>4 DEF LossInv, Passed, Ended, Before, InFile

LEMMA LossStep == LossInv /\ [Next]_vars => LossInv'
<1> SUFFICES ASSUME LossInv, [Next]_vars PROVE LossInv'
  OBVIOUS
<1>1. CASE UNCHANGED vars
  <2>1. UNCHANGED <<input, files, args, d, pos, pc, completed, code, preds, exc>>
    BY <1>1 DEF vars, disk, place, sample
  <2>2. /\ FilesGrow /\ preds' \in Seq(Texts) /\ (InFile' => InFile)
        /\ pc' = "leave" /\ exc' = "none" /\ args.cap = 0 => Done(d)
    BY <2>1, UnchangedGrows DEF LossInv, Typed, Ended, InFile
  <2> QED BY <2>1, <2>2, StayFrame
<1> QED BY <1>1, LoopSteps, SampleSteps, LeaveStep, KillStep, StartStep DEF Next, Work, Finished

LEMMA LossInit == Init => LossInv
<1> SUFFICES ASSUME Init PROVE LossInv
  OBVIOUS
<1>1. input \in Seq(Seq(AnnotationLine)) /\ input # <<>>
  BY SingleStreamAssumption DEF Init
<1>2. /\ files = [k \in 1 .. Len(input) |-> <<>>] /\ d = 1 /\ pos = 1 /\ pc = "open"
      /\ preds = <<>>
  BY DEF Init
<1>3. 1 \in 1 .. Len(input) /\ \A k \in 1 .. Len(input) : ~(k < 1)
  BY <1>1
<1>4. Typed
  BY <1>1, <1>2, <1>3 DEF Typed
<1> QED BY <1>2, <1>3, <1>4 DEF LossInv, Passed, Ended, Before, InFile

LEMMA CompleteDone ==
    ASSUME LossInv, Complete, NEW k \in 1 .. Len(input) PROVE Done(k)
<1>1. Done(d) /\ d = Len(input) /\ \A l \in 1 .. Len(input) : l < d => Done(l)
  BY DEF Complete, LossInv, Before
<1>2. Len(input) \in Nat
  BY DEF LossInv, Typed
<1>3. k < d \/ k = d
  BY <1>1, <1>2
<1> QED BY <1>1, <1>3

\* After a run that returns 0 and had no cap, an id without a record is one whose
\* record was glued to an interrupted write: for every input, command line, fault, kill
\* and number of earlier runs (jsonl_append and load_existing_sample_ids).
THEOREM NoRecordLostUnexplained == Spec => []LossExplained
<1>1. Init => LossInv
  BY LossInit
<1>2. LossInv => LossExplained
  <2> SUFFICES ASSUME LossInv, Complete, NEW k \in 1 .. Len(input),
                      NEW id \in SampleIds(input[k]) \ LoadExistingIds(input[k], files[k])
               PROVE  id \in {SampleId(input[k], i) :
                        i \in UNION {files[k][j].holds : j \in (1 .. Len(files[k])) \ Readable(files[k])}}
    BY DEF LossExplained
  <2>1. Done(k)
    BY CompleteDone
  <2>2. PICK i \in SampleLines(input[k]) : id = SampleId(input[k], i)
    BY DEF SampleIds
  <2>3. id \in IdsOf(input[k], files[k])
    BY <2>1, <2>2 DEF Done, Covered, HeldIds
  <2>4. PICK s \in AllHeld(files[k]) : id = SampleId(input[k], s)
    BY <2>3 DEF IdsOf
  <2>5. PICK j \in 1 .. Len(files[k]) : s \in files[k][j].holds
    BY <2>4, InHeld
  <2>6. j \notin Readable(files[k])
    BY <2>4, <2>5 DEF LoadExistingIds, Recorded
  <2> QED BY <2>4, <2>5, <2>6
<1> QED BY <1>1, <1>2, LossStep, PTL DEF Spec

-----------------------------------------------------------------------------
(* Reports: a file that can be scored has one line for each sample in it.      *)

\* Every line holds one sample of the dataset, and no other line holds the same.
Single(lines, f) ==
    Scorable(f) =>
        /\ \A j \in 1 .. Len(f) : \E i \in SampleLines(lines) : f[j].holds = {i}
        /\ \A j, l \in 1 .. Len(f) : f[j].holds = f[l].holds => j = l

\* The current sample is not recorded yet, and completed_ids has all that are.
InSample == pc \in {"infer", "except", "write"} \/ (pc = "finally" /\ exc = "none")
Fresh ==
    /\ pc = "next" \/ InSample => LoadExistingIds(input[d], files[d]) \subseteq completed
    /\ InSample => pos \in SampleLines(input[d]) /\ SampleId(input[d], pos) \notin completed
    /\ pos # 0
Singles == \A k \in 1 .. Len(input) : Single(input[k], files[k])
OnceInv == LossInv /\ Fresh /\ Singles

\* What can be scored after a write was scorable before it, and has a new line or none.
Extended(f, g, i) ==
    \/ g = f
    \/ \E line \in PredictionLine : g = Append(f, line) /\ Scorable(f) /\ line.holds = {i}

LEMMA AppendScorable ==
    ASSUME NEW f \in Seq(PredictionLine), NEW i \in Nat, NEW p \in Seq(Texts),
           NEW outcome \in {"none", "ok", "cut", "bare"},
           Scorable(JsonlAppend(f, outcome, i, p))
    PROVE  Extended(f, JsonlAppend(f, outcome, i, p), i)
<1>1. CASE outcome = "none"
  BY <1>1 DEF JsonlAppend, Extended
<1>2. CASE outcome # "none" /\ Unended(f)
  <2> DEFINE last == [ended |-> outcome = "ok", ok |-> FALSE, preds |-> <<>>,
                      holds |-> f[Len(f)].holds \cup NewLine(outcome, i, p).holds]
  <2>1. JsonlAppend(f, outcome, i, p) = [f EXCEPT ![Len(f)] = last] /\ Len(f) \in 1 .. Len(f)
    BY <1>2 DEF JsonlAppend, Unended
  <2>2. ~last.ok
    OBVIOUS
  <2> HIDE DEF last
  <2>3. ~Scorable([f EXCEPT ![Len(f)] = last])
    BY <2>1, <2>2 DEF Scorable
  <2> QED BY <2>1, <2>3
<1>3. CASE outcome # "none" /\ ~Unended(f)
  <2> DEFINE new == NewLine(outcome, i, p)
  <2>1. JsonlAppend(f, outcome, i, p) = Append(f, new)
    BY <1>3 DEF JsonlAppend
  <2>2. <<>> \in Seq(Texts)
    OBVIOUS
  <2>3. /\ new \in PredictionLine
        /\ new.ok => new.holds = {i}
    BY <1>3, <2>2 DEF NewLine, PredictionLine
  <2> HIDE DEF new
  <2>4. /\ Len(Append(f, new)) = Len(f) + 1 /\ Len(f) \in Nat
        /\ \A j \in 1 .. Len(f) : Append(f, new)[j] = f[j]
        /\ Append(f, new)[Len(f) + 1] = new
    BY <2>3
  <2>5. /\ \A j \in 1 .. (Len(f) + 1) : Append(f, new)[j].ok
        /\ Len(f) + 1 \in 1 .. (Len(f) + 1) /\ 1 .. Len(f) \subseteq 1 .. (Len(f) + 1)
    BY <2>1, <2>4 DEF Scorable
  <2>6. Scorable(f) /\ new.ok
    BY <2>4, <2>5 DEF Scorable
  <2> QED BY <2>1, <2>3, <2>6 DEF Extended
<1> QED BY <1>1, <1>2, <1>3

LEMMA AppendSingle ==
    ASSUME NEW lines, NEW f \in Seq(PredictionLine), NEW i \in Nat, NEW p \in Seq(Texts),
           NEW outcome \in {"none", "ok", "cut", "bare"},
           Single(lines, f), i \in SampleLines(lines),
           SampleId(lines, i) \notin LoadExistingIds(lines, f)
    PROVE  Single(lines, JsonlAppend(f, outcome, i, p))
<1> DEFINE g == JsonlAppend(f, outcome, i, p)
<1> SUFFICES ASSUME Scorable(g) PROVE Single(lines, g)
  BY DEF Single
<1>1. CASE g = f
  BY <1>1
<1>2. ASSUME NEW line \in PredictionLine, g = Append(f, line), Scorable(f), line.holds = {i}
      PROVE  Single(lines, g)
  <2>1. /\ Len(g) = Len(f) + 1 /\ Len(f) \in Nat
        /\ \A j \in 1 .. Len(f) : g[j] = f[j]
        /\ g[Len(f) + 1] = line
    BY <1>2
  <2>2. \A j \in 1 .. Len(f) : f[j].holds # {i}
    <3> SUFFICES ASSUME NEW j \in 1 .. Len(f), f[j].holds = {i} PROVE FALSE
      OBVIOUS
    <3>1. j \in Readable(f)
      BY <1>2 DEF Scorable, Readable
    <3> QED BY <3>1 DEF LoadExistingIds, Recorded
  <2> HIDE DEF g
  <2>3. \A j \in 1 .. Len(g) : j \in 1 .. Len(f) \/ j = Len(f) + 1
    BY <2>1
  <2>4. ASSUME NEW j \in 1 .. Len(g) PROVE \E s \in SampleLines(lines) : g[j].holds = {s}
    <3>1. CASE j \in 1 .. Len(f)
      <4>1. \E s \in SampleLines(lines) : f[j].holds = {s}
        BY <1>2, <3>1 DEF Single
      <4>2. g[j] = f[j]
        BY <2>1, <3>1
      <4> QED BY <4>1, <4>2
    <3>2. CASE j = Len(f) + 1
      BY <1>2, <2>1, <3>2
    <3> QED BY <2>3, <3>1, <3>2
  <2>5. ASSUME NEW j \in 1 .. Len(g), NEW l \in 1 .. Len(g), g[j].holds = g[l].holds PROVE j = l
    BY <1>2, <2>1, <2>2, <2>3, <2>5 DEF Single
  <2> QED BY <2>4, <2>5 DEF Single
<1>3. Extended(f, g, i)
  BY AppendScorable
<1> QED BY <1>1, <1>2, <1>3 DEF Extended

\* A write makes no other id known than its own.
LEMMA AppendKnown ==
    ASSUME NEW lines, NEW f \in Seq(PredictionLine), NEW i \in Nat, NEW p \in Seq(Texts),
           NEW outcome \in {"none", "ok", "cut", "bare"}
    PROVE  LoadExistingIds(lines, JsonlAppend(f, outcome, i, p))
             \subseteq LoadExistingIds(lines, f) \cup {SampleId(lines, i)}
<1> DEFINE g == JsonlAppend(f, outcome, i, p)
<1>1. ASSUME NEW j \in Readable(g), NEW s \in g[j].holds
      PROVE  s = i \/ (j \in Readable(f) /\ s \in f[j].holds)
  <2>1. CASE outcome = "none"
    BY <1>1, <2>1 DEF JsonlAppend
  <2>2. CASE outcome # "none" /\ Unended(f)
    <3> DEFINE last == [ended |-> outcome = "ok", ok |-> FALSE, preds |-> <<>>,
                        holds |-> f[Len(f)].holds \cup NewLine(outcome, i, p).holds]
    <3>1. g = [f EXCEPT ![Len(f)] = last] /\ Len(f) \in 1 .. Len(f) /\ ~last.ok
      BY <2>2 DEF JsonlAppend, Unended
    <3> HIDE DEF last, g
    <3> QED BY <1>1, <3>1 DEF Readable
  <2>3. CASE outcome # "none" /\ ~Unended(f)
    <3> DEFINE new == NewLine(outcome, i, p)
    <3>1. g = Append(f, new)
      BY <2>3 DEF JsonlAppend
    <3>2. new.holds \subseteq {i}
      BY <2>3 DEF NewLine
    <3> HIDE DEF new, g
    <3>3. /\ Len(g) = Len(f) + 1 /\ Len(f) \in Nat
          /\ \A l \in 1 .. Len(f) : g[l] = f[l]
          /\ g[Len(f) + 1] = new
      BY <3>1
    <3>4. j \in 1 .. Len(f) \/ j = Len(f) + 1
      BY <1>1, <3>3 DEF Readable
    <3> QED BY <1>1, <3>2, <3>3, <3>4 DEF Readable
  <2> QED BY <2>1, <2>2, <2>3
<1> HIDE DEF g
<1>2. Recorded(g) \subseteq Recorded(f) \cup {i}
  BY <1>1 DEF Recorded
<1> QED BY <1>2 DEF LoadExistingIds, g

\* A write of the current sample, while it is fresh.
LEMMA WriteOnce ==
    ASSUME OnceInv, InSample, NEW p \in Seq(Texts), NEW outcome \in {"none", "ok", "cut", "bare"},
           files' = [files EXCEPT ![d] = JsonlAppend(@, outcome, pos, p)], UNCHANGED input
    PROVE  /\ Singles'
           /\ LoadExistingIds(input[d], files'[d]) \subseteq completed \cup {SampleId(input[d], pos)}
<1>1. /\ d \in 1 .. Len(input) /\ files[d] \in Seq(PredictionLine) /\ pos \in Nat
      /\ files \in [1 .. Len(input) -> Seq(PredictionLine)]
  BY DEF OnceInv, LossInv, Typed
<1>2. /\ pos \in SampleLines(input[d]) /\ SampleId(input[d], pos) \notin completed
      /\ LoadExistingIds(input[d], files[d]) \subseteq completed
      /\ Single(input[d], files[d])
  BY <1>1 DEF OnceInv, Fresh, Singles
<1>3. SampleId(input[d], pos) \notin LoadExistingIds(input[d], files[d])
  BY <1>2
<1> DEFINE g == JsonlAppend(files[d], outcome, pos, p)
<1>4. Single(input[d], g)
  BY <1>1, <1>2, <1>3, AppendSingle
<1>5. LoadExistingIds(input[d], g) \subseteq LoadExistingIds(input[d], files[d]) \cup {SampleId(input[d], pos)}
  BY <1>1, AppendKnown
<1>6. files' = [files EXCEPT ![d] = g]
  OBVIOUS
<1> HIDE DEF g
<1>7. files'[d] = g /\ \A k \in 1 .. Len(input) : k # d => files'[k] = files[k]
  BY <1>1, <1>6
<1>8. Singles'
  BY <1>4, <1>7 DEF Singles, OnceInv
<1> QED BY <1>2, <1>5, <1>7, <1>8

\* The steps that leave the prediction files alone.
LEMMA OnceLoop ==
    ASSUME OnceInv, LoopStep PROVE Fresh' /\ Singles'
<1>0. d \in 1 .. Len(input) /\ pos \in Nat /\ Lines = input[d]
      /\ files \in [1 .. Len(input) -> Seq(PredictionLine)]
  BY DEF OnceInv, LossInv, Typed, Lines
<1>1. CASE OpenDataset
  <2>1. /\ UNCHANGED <<input, d>> /\ pc' = "next" /\ pos' = 1
        /\ files' = IF args.overwrite THEN [files EXCEPT ![d] = <<>>] ELSE files
        /\ completed' = LoadExistingIds(input[d], files'[d])
    BY <1>0, <1>1 DEF OpenDataset
  <2>2. \A k \in 1 .. Len(input) : files'[k] = files[k] \/ files'[k] = <<>>
    BY <1>0, <2>1
  <2>3. \A k \in 1 .. Len(input) : Single(input[k], <<>>)
    BY DEF Single
  <2>4. Singles'
    BY <2>1, <2>2, <2>3 DEF OnceInv, Singles
  <2> QED BY <2>1, <2>4 DEF Fresh, InSample
<1>2. CASE SkipBlank \/ SkipRecorded
  <2>1. /\ UNCHANGED <<input, d, files, completed, pc>> /\ pc = "next" /\ pos' = pos + 1
    BY <1>2 DEF SkipBlank, SkipRecorded, AtSample, AtLine, disk
  <2>2. pos' # 0
    BY <1>0, <2>1
  <2> QED BY <2>1, <2>2 DEF OnceInv, Fresh, InSample, Singles
<1>3. CASE ReaderRaises \/ EndLoop
  <2>1. UNCHANGED <<input, d, files, completed, pos>> /\ pc' = "leave"
    BY <1>3 DEF ReaderRaises, EndLoop, disk
  <2> QED BY <2>1 DEF OnceInv, Fresh, InSample, Singles
<1> QED BY <1>1, <1>2, <1>3 DEF LoopStep

LEMMA OnceSample ==
    ASSUME OnceInv, SampleStep PROVE Fresh' /\ Singles'
<1>0. d \in 1 .. Len(input) /\ pos \in Nat /\ pos # 0 /\ Lines = input[d] /\ input \in Seq(Seq(AnnotationLine))
      /\ preds \in Seq(Texts) /\ <<>> \in Seq(Texts)
  BY DEF OnceInv, LossInv, Typed, Lines, Fresh
<1>1. CASE Materialize \/ MaterializeFails \/ TempWriteFails
  <2>1. /\ UNCHANGED <<input, d, files, completed, pos>> /\ pc = "next" /\ New
        /\ pc' \in {"infer", "except"}
    BY <1>1 DEF Materialize, MaterializeFails, TempWriteFails, New, AtSample, AtLine, disk
  <2>2. pos \in SampleLines(input[d]) /\ SampleId(input[d], pos) \notin completed
    <3>1. pos <= Len(input[d]) /\ input[d][pos].kind = "sample" /\ Len(input[d]) \in Nat
      BY <1>0, <2>1 DEF New, AtSample, AtLine, Here
    <3>2. pos \in 1 .. Len(input[d])
      BY <1>0, <3>1
    <3> QED BY <1>0, <2>1, <3>1, <3>2 DEF New, HereId, SampleLines
  <2> QED BY <2>1, <2>2 DEF OnceInv, Fresh, InSample, Singles
<1>2. CASE Answer \/ InferFails \/ AllAnswered
  <2>1. /\ UNCHANGED <<input, d, files, completed, pos>> /\ InSample
        /\ pc' \in {"infer", "except", "finally"}
    BY <1>2 DEF Answer, InferFails, AllAnswered, InSample, disk, place
  <2> QED BY <2>1 DEF OnceInv, Fresh, InSample, Singles
<1>3. CASE Except
  <2>1. UNCHANGED <<input, d, completed, pos>> /\ InSample /\ pc' = "finally"
    BY <1>3 DEF Except, InSample
  <2>2. CASE ~args.strict
    <3>1. files' = files
      BY <1>3, <2>2 DEF Except
    <3> QED BY <2>1, <3>1 DEF OnceInv, Fresh, InSample, Singles
  <2>3. CASE args.strict
    <3>1. PICK outcome \in WriteOutcomes :
            /\ files' = [files EXCEPT ![d] = JsonlAppend(@, outcome, pos, <<>>)]
            /\ exc' = IF outcome = "ok" THEN "sample" ELSE "write"
      BY <1>3, <2>3 DEF Except
    <3>2. outcome \in {"none", "ok", "cut", "bare"}
      BY DEF WriteOutcomes, Partial
    <3>3. Singles'
      BY <1>0, <2>1, <3>1, <3>2, WriteOnce
    <3>4. exc' # "none"
      BY <3>1
    <3> QED BY <2>1, <3>3, <3>4 DEF OnceInv, Fresh, InSample
  <2> QED BY <2>2, <2>3
<1>4. CASE Finally
  <2>1. /\ UNCHANGED <<input, d, files, completed, pos>> /\ pc = "finally"
        /\ pc' = IF exc = "none" THEN "write" ELSE "leave"
    BY <1>4 DEF Finally
  <2> QED BY <2>1 DEF OnceInv, Fresh, InSample, Singles
<1>5. CASE Write
  <2>1. PICK outcome \in WriteOutcomes :
          /\ files' = [files EXCEPT ![d] = JsonlAppend(@, outcome, pos, preds)]
          /\ IF outcome = "ok"
             THEN /\ completed' = completed \cup {HereId}
                  /\ processed' = processed + 1
                  /\ pos' = pos + 1 /\ pc' = "next" /\ exc' = exc
             ELSE exc' = "write" /\ pc' = "leave" /\ UNCHANGED <<completed, processed, pos>>
    BY <1>5 DEF Write
  <2>2. outcome \in {"none", "ok", "cut", "bare"}
    BY DEF WriteOutcomes, Partial
  <2>3. UNCHANGED <<input, d>> /\ InSample
    BY <1>5 DEF Write, InSample
  <2>4. Singles' /\ LoadExistingIds(input[d], files'[d]) \subseteq completed \cup {HereId}
    BY <1>0, <2>1, <2>2, <2>3, WriteOnce DEF HereId
  <2>5. \/ completed' = completed \cup {HereId} /\ pos' = pos + 1 /\ pc' = "next"
        \/ pc' = "leave" /\ pos' = pos
    BY <2>1
  <2>6. pos' # 0
    BY <1>0, <2>5
  <2> QED BY <2>3, <2>4, <2>5, <2>6 DEF Fresh, InSample
<1> QED BY <1>1, <1>2, <1>3, <1>4, <1>5 DEF SampleStep

LEMMA OnceMain ==
    ASSUME OnceInv, Leave \/ Kill \/ (\E a \in ArgSets : Start(a)) \/ UNCHANGED vars
    PROVE  Fresh' /\ Singles'
<1>1. CASE Leave
  <2>1. UNCHANGED <<input, files, pos>> /\ pc' \in {"exit", "open"}
    BY <1>1 DEF Leave, disk
  <2> QED BY <2>1 DEF OnceInv, Fresh, InSample, Singles
<1>2. CASE Kill
  <2>1. UNCHANGED <<input, pos>> /\ pc' = "killed"
    BY <1>2 DEF Kill
  <2>2. Singles'
    <3>1. CASE files' = files
      BY <2>1, <3>1 DEF OnceInv, Singles
    <3>2. CASE files' # files
      <4>1. WriteDue /\ \E outcome \in {"ok", "cut", "bare"} :
              files' = [files EXCEPT ![d] =
                          JsonlAppend(@, outcome, pos, IF pc = "write" THEN preds ELSE <<>>)]
        BY <1>2, <3>2 DEF Kill
      <4>2. InSample
        BY <4>1 DEF WriteDue, InSample
      <4>3. (IF pc = "write" THEN preds ELSE <<>>) \in Seq(Texts)
        BY DEF OnceInv, LossInv, Typed
      <4> QED BY <2>1, <4>1, <4>2, <4>3, WriteOnce
    <3> QED BY <3>1, <3>2
  <2> QED BY <2>1, <2>2 DEF OnceInv, Fresh, InSample
<1>3. CASE \E a \in ArgSets : Start(a)
  <2>1. UNCHANGED <<input, files, pos>> /\ pc' = "open"
    BY <1>3 DEF Start, disk
  <2> QED BY <2>1 DEF OnceInv, Fresh, InSample, Singles
<1>4. CASE UNCHANGED vars
  BY <1>4 DEF vars, disk, place, sample, OnceInv, Fresh, InSample, Singles
<1> QED BY <1>1, <1>2, <1>3, <1>4

LEMMA OnceStep == OnceInv /\ [Next]_vars => OnceInv'
<1> SUFFICES ASSUME OnceInv, [Next]_vars PROVE OnceInv'
  OBVIOUS
<1>1. LossInv'
  BY LossStep DEF OnceInv
<1>2. Fresh' /\ Singles'
  BY OnceLoop, OnceSample, OnceMain DEF Next, Work, Finished
<1> QED BY <1>1, <1>2 DEF OnceInv

LEMMA OnceInit == Init => OnceInv
<1> SUFFICES ASSUME Init PROVE OnceInv
  OBVIOUS
<1>1. /\ pc = "open" /\ pos = 1 /\ files = [k \in 1 .. Len(input) |-> <<>>]
  BY DEF Init
<1>2. Singles
  BY <1>1 DEF Singles, Single
<1> QED BY <1>1, <1>2, LossInit DEF OnceInv, Fresh, InSample

\* The lines of a file that can be scored are as many as the samples they cover.
LEMMA LinesAreSamples ==
    ASSUME NEW lines, NEW f \in Seq(PredictionLine), Scorable(f), Single(lines, f),
           SampleLines(lines) \subseteq AllHeld(f)
    PROVE  /\ Cardinality(Readable(f)) = Cardinality(SampleLines(lines))
           /\ Recorded(f) = SampleLines(lines)
<1>1. Readable(f) = 1 .. Len(f) /\ Len(f) \in Nat
  BY DEF Scorable, Readable
<1>2. /\ \A j \in 1 .. Len(f) : \E i \in SampleLines(lines) : f[j].holds = {i}
      /\ \A j, l \in 1 .. Len(f) : f[j].holds = f[l].holds => j = l
  BY DEF Single
<1> DEFINE at == [j \in 1 .. Len(f) |-> CHOOSE i \in SampleLines(lines) : f[j].holds = {i}]
<1>3. \A j \in 1 .. Len(f) : at[j] \in SampleLines(lines) /\ f[j].holds = {at[j]}
  BY <1>2
<1>4. at \in [1 .. Len(f) -> SampleLines(lines)]
  BY <1>3
<1> HIDE DEF at
<1>5. \A j, l \in 1 .. Len(f) : at[j] = at[l] => j = l
  BY <1>2, <1>3
<1>6. \A i \in SampleLines(lines) : \E j \in 1 .. Len(f) : at[j] = i
  BY <1>3, InHeld
<1>7. ExistsBijection(1 .. Len(f), SampleLines(lines))
  <2>1. at \in Bijection(1 .. Len(f), SampleLines(lines))
    BY <1>4, <1>5, <1>6 DEF Bijection, Injection, IsInjective, Surjection
  <2> QED BY <2>1 DEF ExistsBijection
<1>8. Cardinality(1 .. Len(f)) = Cardinality(SampleLines(lines))
  <2>1. IsFiniteSet(1 .. Len(f))
    BY <1>1, FS_Interval
  <2> QED BY <1>7, <2>1, FS_Bijection
<1>9. Recorded(f) = SampleLines(lines)
  BY <1>1, <1>3, <1>6 DEF Recorded
<1> QED BY <1>1, <1>8, <1>9

\* After a run that returns 0 and had no cap, the scorer refuses a prediction file or
\* counts every sample of its dataset exactly once: for every input, command line,
\* fault, kill and number of earlier runs (evaluate_dataset and accuracy_calc.py).
THEOREM NothingTruncatedIsReported == Spec => []ReportComplete
<1>1. OnceInv => ReportComplete
  <2> SUFFICES ASSUME OnceInv, Complete, NEW k \in 1 .. Len(input),
                      DistinctIds(input[k]), Scorable(files[k])
               PROVE  /\ Report(input[k], files[k]).total = Cardinality(SampleLines(input[k]))
                      /\ Recorded(files[k]) = SampleLines(input[k])
    BY DEF ReportComplete
  <2>1. files[k] \in Seq(PredictionLine) /\ Single(input[k], files[k]) /\ Done(k)
    BY CompleteDone DEF OnceInv, LossInv, Typed, Singles
  <2>2. SampleLines(input[k]) \subseteq AllHeld(files[k])
    <3> SUFFICES ASSUME NEW i \in SampleLines(input[k]) PROVE i \in AllHeld(files[k])
      OBVIOUS
    <3>1. PICK s \in AllHeld(files[k]) : SampleId(input[k], s) = SampleId(input[k], i)
      BY <2>1 DEF Done, Covered, HeldIds, IdsOf
    <3>2. s \in SampleLines(input[k])
      BY <2>1, InHeld DEF Single
    <3> QED BY <3>1, <3>2 DEF DistinctIds
  <2> QED BY <2>1, <2>2, LinesAreSamples DEF Report
<1> QED BY <1>1, OnceInit, OnceStep, PTL DEF Spec

-----------------------------------------------------------------------------
(* Strict runs: what a failing sample ends, it has recorded first.             *)

RecordedIds ==
    UNION {{<<k, id>> : id \in LoadExistingIds(input[k], files[k])} : k \in 1 .. Len(input)}
AllScorable == \A k \in 1 .. Len(input) : Scorable(files[k])

\* The failure on its way out has its record already, and is not counted yet; a run
\* that deletes the files counts from none, and ends with its first failure.
Stops == IF exc = "sample" THEN stopped + 1 ELSE stopped
StopInv ==
    /\ stopped \in Nat /\ IsFiniteSet(RecordedIds)
    /\ exc = "sample" => pc \in {"finally", "leave"} /\ args.strict
    /\ args.overwrite /\ ~Over => stopped = 0
    /\ AllScorable => Stops <= Cardinality(RecordedIds)

LEMMA InRecordedIds ==
    ASSUME NEW x
    PROVE  x \in RecordedIds <=> \E k \in 1 .. Len(input) :
                                   \E id \in LoadExistingIds(input[k], files[k]) : x = <<k, id>>
BY DEF RecordedIds

\* A file that can be scored holds nothing that is not recorded.
LEMMA ScorableHolds ==
    ASSUME NEW f, Scorable(f) PROVE Recorded(f) = AllHeld(f)
<1>1. Readable(f) = 1 .. Len(f)
  BY DEF Scorable, Readable
<1> QED BY <1>1 DEF Recorded, AllHeld

\* What a write does to the ids recorded in its file.
LEMMA AppendIds ==
    ASSUME NEW lines, NEW f \in Seq(PredictionLine), NEW i \in Nat, NEW p \in Seq(Texts),
           NEW outcome \in {"none", "ok", "cut", "bare"},
           Scorable(JsonlAppend(f, outcome, i, p))
    PROVE  /\ Scorable(f)
           /\ LoadExistingIds(lines, f) \subseteq LoadExistingIds(lines, JsonlAppend(f, outcome, i, p))
           /\ outcome = "ok" => SampleId(lines, i) \in LoadExistingIds(lines, JsonlAppend(f, outcome, i, p))
<1> DEFINE g == JsonlAppend(f, outcome, i, p)
<1>1. Scorable(f)
  <2>1. Extended(f, g, i)
    BY AppendScorable
  <2> HIDE DEF g
  <2>2. Scorable(g)
    BY DEF g
  <2> QED BY <2>1, <2>2 DEF Extended
<1>2. AllHeld(f) \subseteq AllHeld(g) /\ (outcome = "ok" => i \in AllHeld(g))
  BY AppendHolds
<1>3. Recorded(f) = AllHeld(f) /\ Recorded(g) = AllHeld(g)
  BY <1>1, ScorableHolds
<1> HIDE DEF g
<1> QED BY <1>1, <1>2, <1>3 DEF LoadExistingIds, g

LEMMA WriteIds ==
    ASSUME OnceInv, InSample, NEW p \in Seq(Texts), NEW outcome \in {"none", "ok", "cut", "bare"},
           files' = [files EXCEPT ![d] = JsonlAppend(@, outcome, pos, p)], UNCHANGED input,
           IsFiniteSet(RecordedIds)
    PROVE  /\ IsFiniteSet(RecordedIds') /\ Cardinality(RecordedIds') \in Nat
           /\ AllScorable' => AllScorable /\ Cardinality(RecordedIds) <= Cardinality(RecordedIds')
           /\ AllScorable' /\ outcome = "ok" => Cardinality(RecordedIds) + 1 <= Cardinality(RecordedIds')
<1>1. /\ d \in 1 .. Len(input) /\ files[d] \in Seq(PredictionLine) /\ pos \in Nat
      /\ files \in [1 .. Len(input) -> Seq(PredictionLine)]
  BY DEF OnceInv, LossInv, Typed
<1> DEFINE g == JsonlAppend(files[d], outcome, pos, p)
           sid == SampleId(input[d], pos)
           new == <<d, sid>>
<1>2. sid \notin LoadExistingIds(input[d], files[d])
  BY DEF OnceInv, Fresh
<1>3. LoadExistingIds(input[d], g) \subseteq LoadExistingIds(input[d], files[d]) \cup {sid}
  BY <1>1, AppendKnown
<1>4. Scorable(g) => /\ Scorable(files[d])
                     /\ LoadExistingIds(input[d], files[d]) \subseteq LoadExistingIds(input[d], g)
                     /\ outcome = "ok" => sid \in LoadExistingIds(input[d], g)
  BY <1>1, AppendIds
<1>5. files' = [files EXCEPT ![d] = g]
  OBVIOUS
<1> HIDE DEF g, sid
<1>6. files'[d] = g /\ \A k \in 1 .. Len(input) : k # d => files'[k] = files[k]
  BY <1>1, <1>5
<1>7. \A x : x \in RecordedIds' <=> \E k \in 1 .. Len(input) :
                                      \E id \in LoadExistingIds(input[k], files'[k]) : x = <<k, id>>
  BY DEF RecordedIds
<1>8. RecordedIds' \subseteq RecordedIds \cup {new}
  BY <1>3, <1>6, <1>7, InRecordedIds
<1>9. new \notin RecordedIds
  BY <1>2, InRecordedIds
<1>10. AllScorable' => Scorable(g) /\ AllScorable
  <2>1. AllScorable' => \A k \in 1 .. Len(input) : Scorable(files'[k])
    BY DEF AllScorable
  <2> QED BY <1>1, <1>4, <1>6, <2>1 DEF AllScorable
<1>11. AllScorable' => RecordedIds \subseteq RecordedIds'
  BY <1>4, <1>6, <1>7, <1>10, InRecordedIds
<1>12. AllScorable' /\ outcome = "ok" => new \in RecordedIds'
  BY <1>1, <1>4, <1>6, <1>7, <1>10
<1> HIDE DEF new
<1>13. IsFiniteSet(RecordedIds \cup {new}) /\ Cardinality(RecordedIds \cup {new}) = Cardinality(RecordedIds) + 1
  BY <1>9, FS_AddElement
<1>14. IsFiniteSet(RecordedIds') /\ Cardinality(RecordedIds') \in Nat
  BY <1>8, <1>13, FS_Subset, FS_CardinalityType
<1>15. AllScorable' => Cardinality(RecordedIds) <= Cardinality(RecordedIds')
  BY <1>11, <1>14, FS_Subset
<1>16. AllScorable' /\ outcome = "ok" => RecordedIds' = RecordedIds \cup {new}
  BY <1>8, <1>11, <1>12
<1>17. Cardinality(RecordedIds) \in Nat
  BY FS_CardinalityType
<1>18. AllScorable' /\ outcome = "ok" => Cardinality(RecordedIds) + 1 <= Cardinality(RecordedIds')
  <2> SUFFICES ASSUME AllScorable', outcome = "ok"
               PROVE  Cardinality(RecordedIds) + 1 <= Cardinality(RecordedIds')
    OBVIOUS
  <2>1. Cardinality(RecordedIds') = Cardinality(RecordedIds) + 1
    BY <1>13, <1>16
  <2> QED BY <1>17, <2>1
<1> QED BY <1>10, <1>14, <1>15, <1>18

\* The steps that leave the files alone.
LEMMA StopFrame ==
    ASSUME StopInv, UNCHANGED <<input, files, args>>, NEW n \in Nat, stopped' = n,
           (IF exc' = "sample" THEN n + 1 ELSE n) <= Stops,
           exc' = "sample" => exc = "sample" /\ pc' \in {"finally", "leave"},
           n = stopped \/ Over', ~Over' => ~Over
    PROVE  StopInv'
<1>1. RecordedIds' = RecordedIds /\ (AllScorable' <=> AllScorable)
  BY DEF RecordedIds, AllScorable
<1>2. Cardinality(RecordedIds) \in Nat
  BY FS_CardinalityType DEF StopInv
<1>3. PICK b \in Nat : b = IF exc' = "sample" THEN n + 1 ELSE n
  OBVIOUS
<1>4. Stops' = b
  BY <1>3 DEF Stops
<1>5. AllScorable => b <= Cardinality(RecordedIds)
  <2> SUFFICES ASSUME AllScorable PROVE b <= Cardinality(RecordedIds)
    OBVIOUS
  <2>1. Stops <= Cardinality(RecordedIds) /\ stopped \in Nat
    BY DEF StopInv
  <2>2. PICK a \in Nat : a = Stops
    BY <2>1 DEF Stops
  <2>3. b <= a /\ a <= Cardinality(RecordedIds)
    BY <1>3, <2>1, <2>2
  <2> QED BY <1>2, <2>3
<1>6. AllScorable' => Stops' <= Cardinality(RecordedIds')
  BY <1>1, <1>4, <1>5, Zenon
<1> QED BY <1>1, <1>6 DEF StopInv

LEMMA StopWrite ==
    ASSUME OnceInv, StopInv, InSample, NEW p \in Seq(Texts),
           NEW outcome \in {"none", "ok", "cut", "bare"},
           files' = [files EXCEPT ![d] = JsonlAppend(@, outcome, pos, p)],
           UNCHANGED <<input, args, stopped>>, ~Over' => ~Over,
           exc' = "sample" => outcome = "ok" /\ args.strict /\ pc' \in {"finally", "leave"}
    PROVE  StopInv'
<1>1. IsFiniteSet(RecordedIds) /\ stopped \in Nat /\ exc # "sample"
  BY DEF StopInv, InSample
<1>2. /\ IsFiniteSet(RecordedIds') /\ Cardinality(RecordedIds') \in Nat
      /\ AllScorable' => AllScorable /\ Cardinality(RecordedIds) <= Cardinality(RecordedIds')
      /\ AllScorable' /\ outcome = "ok" => Cardinality(RecordedIds) + 1 <= Cardinality(RecordedIds')
  BY <1>1, WriteIds
<1>3. PICK c \in Nat : c = Cardinality(RecordedIds)
  BY <1>1, FS_CardinalityType
<1>4. PICK e \in Nat : e = Cardinality(RecordedIds')
  BY <1>2, Zenon
<1>5. PICK n \in Nat : n = stopped
  BY <1>1
<1>6. AllScorable => n <= c
  BY <1>1, <1>3, <1>5 DEF StopInv, Stops
<1>7. AllScorable' => n <= e /\ (outcome = "ok" => n + 1 <= e)
  <2>1. /\ AllScorable' => AllScorable /\ c <= e
        /\ AllScorable' /\ outcome = "ok" => c + 1 <= e
    BY <1>2, <1>3, <1>4, Zenon
  <2> QED BY <1>6, <2>1
<1>8. AllScorable' => Stops' <= Cardinality(RecordedIds')
  <2>1. Stops' = IF exc' = "sample" THEN n + 1 ELSE n
    BY <1>5 DEF Stops
  <2>2. AllScorable' => (IF exc' = "sample" THEN n + 1 ELSE n) <= e
    BY <1>7
  <2> QED BY <1>4, <2>1, <2>2, Zenon
<1> QED BY <1>1, <1>2, <1>8 DEF StopInv

LEMMA StopLoop ==
    ASSUME OnceInv, StopInv, LoopStep PROVE StopInv'
<1>0. d \in 1 .. Len(input) /\ files \in [1 .. Len(input) -> Seq(PredictionLine)] /\ stopped \in Nat
  BY DEF OnceInv, LossInv, Typed, StopInv
<1>1. CASE OpenDataset
  <2>1. /\ UNCHANGED <<input, args, exc, stopped>> /\ pc = "open" /\ pc' = "next"
        /\ files' = IF args.overwrite THEN [files EXCEPT ![d] = <<>>] ELSE files
    BY <1>1 DEF OpenDataset, sample, history
  <2>2. exc # "sample" /\ exc' # "sample" /\ ~Over /\ ~Over'
    BY <2>1 DEF StopInv, Over
  <2>3. CASE args.overwrite
    <3>1. stopped = 0 /\ Stops' = 0
      BY <2>1, <2>2, <2>3 DEF StopInv, Stops
    <3>2. \A k \in 1 .. Len(input) : files'[k] = files[k] \/ files'[k] = <<>>
      BY <1>0, <2>1, <2>3
    <3>3. \A lines : LoadExistingIds(lines, <<>>) = {}
      <4>1. Recorded(<<>>) = {}
        BY DEF Recorded, Readable
      <4> QED BY <4>1 DEF LoadExistingIds
    <3>4. RecordedIds' \subseteq RecordedIds
      <4>1. \A x : x \in RecordedIds' => \E k \in 1 .. Len(input) :
                                          \E id \in LoadExistingIds(input[k], files'[k]) : x = <<k, id>>
        BY <2>1 DEF RecordedIds
      <4> QED BY <3>2, <3>3, <4>1, InRecordedIds
    <3>5. IsFiniteSet(RecordedIds') /\ Cardinality(RecordedIds') \in Nat
      BY <3>4, FS_Subset, FS_CardinalityType DEF StopInv
    <3>6. PICK e \in Nat : e = Cardinality(RecordedIds')
      BY <3>5, Zenon
    <3>7. 0 <= e
      OBVIOUS
    <3>8. Stops' <= Cardinality(RecordedIds')
      BY <3>1, <3>6, <3>7, Zenon
    <3> QED BY <2>1, <2>2, <3>1, <3>5, <3>8 DEF StopInv
  <2>4. CASE ~args.overwrite
    <3>1. files' = files
      BY <2>1, <2>4
    <3>2. PICK n \in Nat : n = stopped
      BY <1>0
    <3>3. (IF exc' = "sample" THEN n + 1 ELSE n) <= Stops
      BY <2>2, <3>2 DEF Stops
    <3> QED BY <2>1, <2>2, <3>1, <3>2, <3>3, StopFrame
  <2> QED BY <2>3, <2>4
<1>2. CASE SkipBlank \/ SkipRecorded \/ ReaderRaises \/ EndLoop
  <2>1. /\ UNCHANGED <<input, files, args, stopped>> /\ pc = "next" /\ pc' \in {"next", "leave"}
        /\ exc' = exc \/ exc' = "reader"
    BY <1>2 DEF SkipBlank, SkipRecorded, ReaderRaises, EndLoop, AtSample, AtLine, disk, sample, history
  <2>2. exc # "sample" /\ exc' # "sample" /\ ~Over /\ ~Over'
    BY <2>1 DEF StopInv, Over
  <2>3. PICK n \in Nat : n = stopped
    BY <1>0
  <2>4. (IF exc' = "sample" THEN n + 1 ELSE n) <= Stops
    BY <2>2, <2>3 DEF Stops
  <2> QED BY <2>1, <2>2, <2>3, <2>4, StopFrame
<1> QED BY <1>1, <1>2 DEF LoopStep

LEMMA StopSample ==
    ASSUME OnceInv, StopInv, SampleStep PROVE StopInv'
<1>0. stopped \in Nat /\ preds \in Seq(Texts) /\ <<>> \in Seq(Texts)
  BY DEF OnceInv, LossInv, Typed, StopInv
<1>1. PICK n \in Nat : n = stopped
  BY <1>0
<1>2. ASSUME UNCHANGED <<input, files, args, stopped, exc>>, ~Over, ~Over',
             exc = "sample" => pc' \in {"finally", "leave"}
      PROVE  StopInv'
  <2>1. (IF exc' = "sample" THEN n + 1 ELSE n) <= Stops
    BY <1>1, <1>2 DEF Stops
  <2>2. stopped' = n /\ n = stopped
    BY <1>1, <1>2
  <2> QED BY <1>2, <2>1, <2>2, StopFrame
<1>3. CASE Materialize \/ MaterializeFails \/ TempWriteFails \/ Answer \/ InferFails \/ AllAnswered
  <2>1. /\ UNCHANGED <<input, files, args, stopped, exc>> /\ pc \in {"next", "infer"}
        /\ pc' \in {"infer", "except", "finally"}
    BY <1>3 DEF Materialize, MaterializeFails, TempWriteFails, Answer, InferFails, AllAnswered,
                New, AtSample, AtLine, disk, sample, history, place
  <2>2. exc # "sample" /\ ~Over /\ ~Over'
    BY <2>1 DEF StopInv, Over
  <2> QED BY <1>2, <2>1, <2>2
<1>4. CASE Except
  <2>1. /\ UNCHANGED <<input, args, stopped>> /\ pc = "except" /\ pc' = "finally"
    BY <1>4 DEF Except, history
  <2>2. InSample /\ ~Over /\ ~Over' /\ exc # "sample"
    BY <2>1 DEF InSample, Over, StopInv
  <2>3. CASE ~args.strict
    <3>1. UNCHANGED <<files, exc>>
      BY <1>4, <2>3 DEF Except
    <3> QED BY <1>2, <2>1, <2>2, <3>1
  <2>4. CASE args.strict
    <3>1. PICK outcome \in WriteOutcomes :
            /\ files' = [files EXCEPT ![d] = JsonlAppend(@, outcome, pos, <<>>)]
            /\ exc' = IF outcome = "ok" THEN "sample" ELSE "write"
      BY <1>4, <2>4 DEF Except
    <3>2. outcome \in {"none", "ok", "cut", "bare"}
      BY DEF WriteOutcomes, Partial
    <3>3. exc' = "sample" => outcome = "ok"
      BY <3>1
    <3> QED BY <1>0, <2>1, <2>2, <2>4, <3>1, <3>2, <3>3, StopWrite
  <2> QED BY <2>3, <2>4
<1>5. CASE Finally
  <2>1. /\ UNCHANGED <<input, files, args, stopped, exc>> /\ pc = "finally"
        /\ pc' = IF exc = "none" THEN "write" ELSE "leave"
    BY <1>5 DEF Finally, history
  <2>2. ~Over /\ ~Over' /\ (exc = "sample" => pc' = "leave")
    BY <2>1 DEF Over
  <2> QED BY <1>2, <2>1, <2>2
<1>6. CASE Write
  <2>1. PICK outcome \in WriteOutcomes :
          /\ files' = [files EXCEPT ![d] = JsonlAppend(@, outcome, pos, preds)]
          /\ IF outcome = "ok"
             THEN /\ completed' = completed \cup {HereId}
                  /\ processed' = processed + 1
                  /\ pos' = pos + 1 /\ pc' = "next" /\ exc' = exc
             ELSE exc' = "write" /\ pc' = "leave" /\ UNCHANGED <<completed, processed, pos>>
    BY <1>6 DEF Write
  <2>2. outcome \in {"none", "ok", "cut", "bare"}
    BY DEF WriteOutcomes, Partial
  <2>3. UNCHANGED <<input, args, stopped>> /\ InSample /\ pc = "write"
    BY <1>6 DEF Write, InSample, history
  <2>4. pc' \in {"next", "leave"} /\ (exc' = exc \/ exc' = "write")
    BY <2>1
  <2>5. exc' # "sample" /\ ~Over /\ ~Over'
    BY <2>3, <2>4 DEF StopInv, Over
  <2> QED BY <1>0, <2>1, <2>2, <2>3, <2>5, StopWrite
<1> QED BY <1>3, <1>4, <1>5, <1>6 DEF SampleStep

LEMMA StopMain ==
    ASSUME OnceInv, StopInv, Leave \/ Kill \/ (\E a \in ArgSets : Start(a)) \/ UNCHANGED vars
    PROVE  StopInv'
<1>0. stopped \in Nat /\ preds \in Seq(Texts) /\ <<>> \in Seq(Texts)
  BY DEF OnceInv, LossInv, Typed, StopInv
<1>1. PICK n \in Nat : n = stopped
  BY <1>0
<1>2. CASE Leave
  <2>1. /\ UNCHANGED <<input, files, args>> /\ pc = "leave" /\ exc' = "none"
        /\ stopped' = IF exc = "sample" THEN n + 1 ELSE n
        /\ pc' \in {"exit", "open"} /\ (exc # "none" /\ args.strict => pc' = "exit")
    BY <1>1, <1>2 DEF Leave, disk
  <2>2. PICK m \in Nat : m = IF exc = "sample" THEN n + 1 ELSE n
    OBVIOUS
  <2>3. stopped' = m /\ (IF exc' = "sample" THEN m + 1 ELSE m) <= Stops
    BY <1>1, <2>1, <2>2 DEF Stops
  <2>4. m = stopped \/ Over'
    <3>1. CASE exc = "sample"
      <4>1. exc # "none" /\ args.strict
        BY <3>1 DEF StopInv
      <4> QED BY <2>1, <4>1 DEF Over
    <3>2. CASE exc # "sample"
      BY <1>1, <2>2, <3>2
    <3> QED BY <3>1, <3>2
  <2>5. ~Over /\ exc' # "sample"
    BY <2>1 DEF Over
  <2> QED BY <2>1, <2>3, <2>4, <2>5, StopFrame
<1>3. CASE Kill
  <2>1. /\ UNCHANGED <<input, args, stopped>> /\ pc' = "killed" /\ exc' = "none" /\ Over'
    BY <1>3 DEF Kill, Over
  <2>2. CASE files' = files
    <3>1. (IF exc' = "sample" THEN n + 1 ELSE n) <= Stops
      BY <1>1, <2>1 DEF Stops
    <3>2. stopped' = n /\ n = stopped
      BY <1>1, <2>1
    <3> QED BY <2>1, <2>2, <3>1, <3>2, StopFrame
  <2>3. CASE files' # files
    <3>1. WriteDue /\ \E outcome \in {"ok", "cut", "bare"} :
            files' = [files EXCEPT ![d] =
                        JsonlAppend(@, outcome, pos, IF pc = "write" THEN preds ELSE <<>>)]
      BY <1>3, <2>3 DEF Kill
    <3>2. InSample
      BY <3>1 DEF WriteDue, InSample
    <3>3. (IF pc = "write" THEN preds ELSE <<>>) \in Seq(Texts)
      BY <1>0
    <3> QED BY <2>1, <3>1, <3>2, <3>3, StopWrite
  <2> QED BY <2>2, <2>3
<1>4. CASE \E a \in ArgSets : Start(a)
  <2>1. PICK a \in ArgSets : Start(a)
    BY <1>4
  <2>2. /\ UNCHANGED <<input, files, exc>> /\ Over /\ pc' = "open" /\ args' = a
        /\ stopped' = IF a.overwrite THEN 0 ELSE n
    BY <1>1, <2>1 DEF Start, disk, sample
  <2>3. exc # "sample" /\ exc' # "sample"
    BY <2>2 DEF StopInv, Over
  <2>4. RecordedIds' = RecordedIds /\ (AllScorable' <=> AllScorable)
    BY <2>2 DEF RecordedIds, AllScorable
  <2>5. PICK m \in Nat : m = IF a.overwrite THEN 0 ELSE n
    OBVIOUS
  <2>6. PICK c \in Nat : c = Cardinality(RecordedIds)
    BY FS_CardinalityType DEF StopInv
  <2>7. stopped' = m /\ Stops' = m /\ m <= n
    <3>1. stopped' = m
      BY <2>2, <2>5, Zenon
    <3>2. Stops' = m
      BY <2>3, <3>1 DEF Stops
    <3> QED BY <2>5, <3>1, <3>2
  <2>8. AllScorable => n <= c
    BY <1>1, <2>3, <2>6 DEF StopInv, Stops
  <2>9. AllScorable => m <= c
    BY <2>7, <2>8
  <2>10. AllScorable' => Stops' <= Cardinality(RecordedIds')
    BY <2>4, <2>6, <2>7, <2>9, Zenon
  <2>11. args'.overwrite => stopped' = 0
    BY <2>2
  <2>12. stopped' \in Nat
    BY <2>7, Zenon
  <2> QED BY <2>3, <2>4, <2>10, <2>11, <2>12 DEF StopInv
<1>5. CASE UNCHANGED vars
  <2>1. UNCHANGED <<input, files, args, exc, pc, stopped>>
    BY <1>5 DEF vars, disk, place, sample, history
  <2> QED BY <2>1 DEF StopInv, Stops, Over, RecordedIds, AllScorable
<1> QED BY <1>2, <1>3, <1>4, <1>5

LEMMA StopInit == Init => StopInv
<1> SUFFICES ASSUME Init PROVE StopInv
  OBVIOUS
<1>1. /\ files = [k \in 1 .. Len(input) |-> <<>>] /\ stopped = 0 /\ exc = "none"
  BY DEF Init
<1>2. RecordedIds = {}
  <2>1. Recorded(<<>>) = {}
    BY DEF Recorded, Readable
  <2>2. \A lines : LoadExistingIds(lines, <<>>) = {}
    BY <2>1 DEF LoadExistingIds
  <2> QED BY <1>1, <2>2, InRecordedIds
<1>3. IsFiniteSet(RecordedIds) /\ Cardinality(RecordedIds) = 0
  BY <1>2, FS_EmptySet
<1>4. Stops = 0
  BY <1>1 DEF Stops
<1> QED BY <1>1, <1>3, <1>4 DEF StopInv

\* Without --continue-on-error a sample that fails is recorded before the run ends: while
\* every prediction file can be scored, the runs that samples ended since the last
\* --overwrite are no more than the ids on file, so each rerun gets at least one
\* sample further (the except clause of evaluate_dataset).
THEOREM EachRerunGetsFurther == Spec => []StrictRunsAdvance
<1>1. StopInv => StrictRunsAdvance
  <2> SUFFICES ASSUME StopInv, AllScorable PROVE stopped <= Cardinality(RecordedIds)
    BY DEF StrictRunsAdvance, AllScorable, RecordedIds
  <2>1. Stops <= Cardinality(RecordedIds) /\ stopped \in Nat
    BY DEF StopInv
  <2>2. Cardinality(RecordedIds) \in Nat
    BY FS_CardinalityType DEF StopInv
  <2>3. PICK c \in Nat : c = Cardinality(RecordedIds)
    BY <2>2
  <2> QED BY <2>1, <2>3 DEF Stops
<1>2. OnceInv /\ StopInv /\ [Next]_vars => StopInv'
  BY StopLoop, StopSample, StopMain DEF Next, Work, Finished
<1> QED BY <1>1, <1>2, OnceInit, OnceStep, StopInit, PTL DEF Spec

-----------------------------------------------------------------------------
(* Credit: the questions and answers of a conversation, and the records of one *)
(* sample.                                                                     *)

\* Every non-empty set of naturals has a least element.
LEMMA Least ==
    ASSUME NEW S \in SUBSET Nat, S # {}
    PROVE  \E n \in S : \A m \in S : n <= m
<1> DEFINE R == OpToRel(<, Nat)
<1>1. \E n \in S : \A m \in S : <<m, n>> \notin R
  BY NatLessThanWellFounded, WFMin
<1>2. R = {ss \in Nat \X Nat : ss[1] < ss[2]}
  BY Zenon DEF OpToRel
<1>3. \A m, n \in Nat : m < n => <<m, n>> \in R
  <2> HIDE DEF R
  <2> QED BY <1>2
<1> HIDE DEF R
<1>4. PICK n \in S : \A m \in S : <<m, n>> \notin R
  BY <1>1
<1>5. ASSUME NEW m \in S PROVE n <= m
  <2>1. ~(m < n) /\ m \in Nat /\ n \in Nat
    BY <1>3, <1>4
  <2> QED BY <2>1
<1> QED BY <1>5

\* upto: the numbers up to t that are in S, for every t up to n.
Orders(upto, S, n) ==
    upto = [t \in 0 .. n |->
              IF t = 0 THEN <<>> ELSE IF t \in S THEN Append(upto[t - 1], t) ELSE upto[t - 1]]

LEMMA OrderDef ==
    ASSUME NEW S, NEW n PROVE InOrder(S, n) = (CHOOSE upto : Orders(upto, S, n))[n]
BY DEF InOrder, Orders

LEMMA OrderExtends ==
    ASSUME NEW S, NEW n \in Nat, NEW upto, Orders(upto, S, n)
    PROVE  \E more : Orders(more, S, n + 1)
<1> DEFINE last == IF n + 1 \in S THEN Append(upto[n], n + 1) ELSE upto[n]
           more == [t \in 0 .. (n + 1) |-> IF t = n + 1 THEN last ELSE upto[t]]
           value(t) == IF t = 0 THEN <<>> ELSE IF t \in S THEN Append(more[t - 1], t) ELSE more[t - 1]
<1>1. ASSUME NEW t \in 0 .. (n + 1) PROVE more[t] = value(t)
  <2>1. CASE t = n + 1
    <3>1. t # 0 /\ t - 1 = n /\ n \in 0 .. (n + 1) /\ n # n + 1
      BY <2>1
    <3>2. more[n] = upto[n]
      BY <3>1
    <3> QED BY <2>1, <3>1, <3>2
  <2>2. CASE t # n + 1
    <3>1. t \in 0 .. n
      BY <2>2
    <3>2. more[t] = upto[t]
      BY <2>2
    <3>3. CASE t = 0
      <4>1. upto[t] = <<>>
        BY <3>1, <3>3 DEF Orders
      <4> QED BY <3>2, <3>3, <4>1
    <3>4. CASE t # 0
      <4>1. t - 1 \in 0 .. (n + 1) /\ t - 1 # n + 1
        BY <3>1, <3>4
      <4>2. more[t - 1] = upto[t - 1]
        BY <4>1
      <4>3. upto[t] = IF t \in S THEN Append(upto[t - 1], t) ELSE upto[t - 1]
        BY <3>1, <3>4 DEF Orders
      <4> QED BY <3>2, <3>4, <4>2, <4>3
    <3> QED BY <3>3, <3>4
  <2> QED BY <2>1, <2>2
<1>2. more = [t \in 0 .. (n + 1) |-> value(t)]
  <2> HIDE DEF value
  <2> QED BY <1>1
<1>3. Orders(more, S, n + 1)
  BY <1>2 DEF Orders
<1> QED BY <1>3

LEMMA OrderExists ==
    ASSUME NEW S, NEW n \in Nat PROVE \E upto : Orders(upto, S, n)
<1> DEFINE Bad == {k \in Nat : ~ \E upto : Orders(upto, S, k)}
<1>1. SUFFICES ASSUME Bad # {} PROVE FALSE
  OBVIOUS
<1>2. PICK k \in Bad : \A m \in Bad : k <= m
  BY <1>1, Least
<1>3. k # 0
  <2>1. Orders([t \in 0 .. 0 |-> <<>>], S, 0)
    BY DEF Orders
  <2> QED BY <2>1
<1>4. k - 1 \in Nat /\ (k - 1) + 1 = k /\ ~(k <= k - 1)
  BY <1>3
<1>5. k - 1 \notin Bad
  BY <1>2, <1>4
<1> QED BY <1>4, <1>5, OrderExtends

\* The first t numbers have been sorted out: those in S, and as many as there are.
Sorted(upto, S, t) ==
    /\ upto[t] \in Seq(S)
    /\ IsFiniteSet(S \cap (1 .. t)) /\ Len(upto[t]) = Cardinality(S \cap (1 .. t))

LEMMA SortedNext ==
    ASSUME NEW S, NEW n \in Nat, NEW upto, Orders(upto, S, n),
           NEW t \in Nat, t + 1 <= n, Sorted(upto, S, t)
    PROVE  Sorted(upto, S, t + 1)
<1>1. upto[t + 1] = IF t + 1 \in S THEN Append(upto[t], t + 1) ELSE upto[t]
  <2>1. t + 1 \in 0 .. n /\ t + 1 # 0 /\ (t + 1) - 1 = t
    OBVIOUS
  <2> QED BY <2>1 DEF Orders
<1>2. /\ upto[t] \in Seq(S) /\ IsFiniteSet(S \cap (1 .. t))
      /\ Len(upto[t]) = Cardinality(S \cap (1 .. t))
  BY DEF Sorted
<1>3. CASE t + 1 \in S
  <2> DEFINE old == S \cap (1 .. t)
  <2>1. S \cap (1 .. (t + 1)) = old \cup {t + 1} /\ t + 1 \notin old
    BY <1>3
  <2>2. IsFiniteSet(old) /\ Len(upto[t]) = Cardinality(old)
    BY <1>2
  <2> HIDE DEF old
  <2>3. IsFiniteSet(old \cup {t + 1}) /\ Cardinality(old \cup {t + 1}) = Cardinality(old) + 1
    BY <2>1, <2>2, FS_AddElement
  <2>4. upto[t + 1] \in Seq(S) /\ Len(upto[t + 1]) = Len(upto[t]) + 1
    BY <1>1, <1>2, <1>3
  <2>5. Len(upto[t + 1]) = Cardinality(old \cup {t + 1})
    BY <2>2, <2>3, <2>4, Zenon
  <2> QED BY <2>1, <2>3, <2>4, <2>5 DEF Sorted
<1>4. CASE t + 1 \notin S
  <2>1. S \cap (1 .. (t + 1)) = S \cap (1 .. t)
    BY <1>4
  <2> QED BY <1>1, <1>2, <1>4, <2>1 DEF Sorted
<1> QED BY <1>3, <1>4

\* The sequence has an element of S for each, and no other.
LEMMA OrderOf ==
    ASSUME NEW n \in Nat, NEW S \in SUBSET (1 .. n)
    PROVE  InOrder(S, n) \in Seq(S) /\ Len(InOrder(S, n)) = Cardinality(S)
<1> DEFINE upto == CHOOSE u : Orders(u, S, n)
           Bad == {t \in Nat : t <= n /\ ~Sorted(upto, S, t)}
<1>1. Orders(upto, S, n)
  BY OrderExists
<1>2. InOrder(S, n) = upto[n]
  BY OrderDef
<1> HIDE DEF upto
<1>3. Bad = {}
  <2>1. SUFFICES ASSUME Bad # {} PROVE FALSE
    OBVIOUS
  <2>2. PICK t \in Bad : \A m \in Bad : t <= m
    BY <2>1, Least
  <2>3. t # 0
    <3>1. upto[0] = <<>> /\ S \cap (1 .. 0) = {}
      BY <1>1 DEF Orders
    <3>2. IsFiniteSet({}) /\ Cardinality({}) = 0 /\ Len(<<>>) = 0 /\ <<>> \in Seq(S)
      BY FS_EmptySet
    <3>3. Sorted(upto, S, 0)
      BY <3>1, <3>2 DEF Sorted
    <3> QED BY <3>3
  <2>4. t - 1 \in Nat /\ (t - 1) + 1 = t /\ ~(t <= t - 1) /\ t - 1 <= n /\ t <= n
    BY <2>3
  <2>5. Sorted(upto, S, t - 1)
    BY <2>2, <2>4
  <2>6. Sorted(upto, S, t)
    BY <1>1, <2>4, <2>5, SortedNext
  <2> QED BY <2>6
<1>4. Sorted(upto, S, n)
  BY <1>3
<1>5. S \cap (1 .. n) = S
  OBVIOUS
<1> QED BY <1>2, <1>4, <1>5 DEF Sorted

\* A sample's questions can be counted, and so can its answers.
LEMMA Counts ==
    ASSUME NEW line \in AnnotationLine
    PROVE  /\ Queries(line) \subseteq DOMAIN line.turns /\ Labels(line) \subseteq DOMAIN line.turns
           /\ IsFiniteSet(Queries(line)) /\ IsFiniteSet(Labels(line))
           /\ Len(Questions(line)) \in Nat /\ Len(Questions(line)) = Cardinality(Queries(line))
           /\ Labelled(line) \in Seq(Labels(line))
           /\ Len(Labelled(line)) \in Nat /\ Len(Labelled(line)) = Cardinality(Labels(line))
<1>1. line.turns \in Seq(Turn)
  BY DEF AnnotationLine
<1>2. Len(line.turns) \in Nat /\ DOMAIN line.turns = 1 .. Len(line.turns)
  BY <1>1
<1>3. Queries(line) \in SUBSET (1 .. Len(line.turns)) /\ Labels(line) \in SUBSET (1 .. Len(line.turns))
  BY DEF Queries, Labels
<1>4. IsFiniteSet(1 .. Len(line.turns))
  BY <1>2, FS_Interval
<1>5. IsFiniteSet(Queries(line)) /\ IsFiniteSet(Labels(line))
  BY <1>3, <1>4, FS_Subset
<1>6. Questions(line) \in Seq(Queries(line)) /\ Len(Questions(line)) = Cardinality(Queries(line))
  BY <1>2, <1>3, OrderOf DEF Questions
<1>7. Labelled(line) \in Seq(Labels(line)) /\ Len(Labelled(line)) = Cardinality(Labels(line))
  BY <1>2, <1>3, OrderOf DEF Labelled
<1>8. Len(Questions(line)) \in Nat /\ Len(Labelled(line)) \in Nat
  BY <1>6, <1>7
<1> QED BY <1>2, <1>3, <1>5, <1>6, <1>7, <1>8

\* A readable line is the whole record of one sample, of a failure or with all answers.
RecordOf(lines, line) ==
    \E i \in SampleLines(lines) :
        line.holds = {i} /\ (line.preds = <<>> \/ Len(line.preds) = Len(Questions(lines[i])))
Records(lines, f) ==
    /\ \A j \in Readable(f) : RecordOf(lines, f[j])
    /\ \A j, l \in Readable(f) : f[j].holds = f[l].holds => j = l

LEMMA AppendRecords ==
    ASSUME NEW lines, NEW f \in Seq(PredictionLine), NEW i \in SampleLines(lines), i \in Nat,
           NEW p \in Seq(Texts), p = <<>> \/ Len(p) = Len(Questions(lines[i])),
           NEW outcome \in {"none", "ok", "cut", "bare"}, Records(lines, f),
           SampleId(lines, i) \notin LoadExistingIds(lines, f)
    PROVE  Records(lines, JsonlAppend(f, outcome, i, p))
<1> DEFINE g == JsonlAppend(f, outcome, i, p)
<1>1. CASE outcome = "none"
  BY <1>1 DEF JsonlAppend
<1>2. CASE outcome # "none" /\ Unended(f)
  <2> DEFINE last == [ended |-> outcome = "ok", ok |-> FALSE, preds |-> <<>>,
                      holds |-> f[Len(f)].holds \cup NewLine(outcome, i, p).holds]
  <2>1. g = [f EXCEPT ![Len(f)] = last] /\ Len(f) \in 1 .. Len(f) /\ ~last.ok
    BY <1>2 DEF JsonlAppend, Unended
  <2> HIDE DEF last, g
  <2>2. \A j \in Readable(g) : j \in Readable(f) /\ g[j] = f[j]
    BY <2>1 DEF Readable
  <2> QED BY <2>2 DEF Records, g
<1>3. CASE outcome # "none" /\ ~Unended(f)
  <2> DEFINE new == NewLine(outcome, i, p)
  <2>1. g = Append(f, new)
    BY <1>3 DEF JsonlAppend
  <2>2. new.ok => new.holds = {i} /\ new.preds = p
    BY <1>3 DEF NewLine
  <2> HIDE DEF new, g
  <2>3. /\ Len(g) = Len(f) + 1 /\ Len(f) \in Nat
        /\ \A j \in 1 .. Len(f) : g[j] = f[j]
        /\ g[Len(f) + 1] = new
    BY <2>1
  <2>4. ASSUME NEW j \in Readable(g)
        PROVE  (j \in Readable(f) /\ g[j] = f[j]) \/ (j = Len(f) + 1 /\ g[j] = new /\ new.ok)
    BY <2>3 DEF Readable
  <2>5. \A j \in Readable(f) : f[j].holds # {i}
    BY DEF LoadExistingIds, Recorded
  <2>6. new.ok => RecordOf(lines, new)
    BY <2>2 DEF RecordOf
  <2>7. \A j \in Readable(g) : RecordOf(lines, g[j])
    BY <2>4, <2>6 DEF Records
  <2>8. \A j, l \in Readable(g) : g[j].holds = g[l].holds => j = l
    BY <2>2, <2>4, <2>5 DEF Records
  <2> QED BY <2>7, <2>8 DEF Records, g
<1> QED BY <1>1, <1>2, <1>3

\* The predictions of the sample at hand: none outside of it, and in the end none or
\* one for each question.
Asked ==
    /\ pc \notin {"infer", "except", "finally", "write"} => preds = <<>>
    /\ pc = "infer" => Len(preds) <= Len(Questions(input[d][pos]))
    /\ pc \in {"finally", "write"} => preds = <<>> \/ Len(preds) = Len(Questions(input[d][pos]))
    /\ exc # "none" => pc \in {"finally", "leave"} /\ preds = <<>>
AllRecords == \A k \in 1 .. Len(input) : Records(input[k], files[k])
CreditInv == Asked /\ AllRecords

\* A write of the current sample.
LEMMA WriteRecords ==
    ASSUME OnceInv, AllRecords, InSample, NEW p \in Seq(Texts),
           p = <<>> \/ Len(p) = Len(Questions(input[d][pos])),
           NEW outcome \in {"none", "ok", "cut", "bare"},
           files' = [files EXCEPT ![d] = JsonlAppend(@, outcome, pos, p)], UNCHANGED input
    PROVE  AllRecords'
<1>1. /\ d \in 1 .. Len(input) /\ files[d] \in Seq(PredictionLine) /\ pos \in Nat
      /\ files \in [1 .. Len(input) -> Seq(PredictionLine)]
  BY DEF OnceInv, LossInv, Typed
<1>2. /\ pos \in SampleLines(input[d]) /\ Records(input[d], files[d])
      /\ SampleId(input[d], pos) \notin LoadExistingIds(input[d], files[d])
  BY <1>1 DEF OnceInv, Fresh, AllRecords
<1> DEFINE g == JsonlAppend(files[d], outcome, pos, p)
<1>3. Records(input[d], g)
  BY <1>1, <1>2, AppendRecords
<1>4. files' = [files EXCEPT ![d] = g]
  OBVIOUS
<1> HIDE DEF g
<1>5. files'[d] = g /\ \A k \in 1 .. Len(input) : k # d => files'[k] = files[k]
  BY <1>1, <1>4
<1> QED BY <1>3, <1>5 DEF AllRecords

LEMMA CreditLoop ==
    ASSUME OnceInv, CreditInv, LoopStep PROVE CreditInv'
<1>0. d \in 1 .. Len(input) /\ files \in [1 .. Len(input) -> Seq(PredictionLine)]
  BY DEF OnceInv, LossInv, Typed
<1>1. CASE OpenDataset
  <2>1. /\ UNCHANGED <<input, preds, exc>> /\ pc = "open" /\ pc' = "next"
        /\ files' = IF args.overwrite THEN [files EXCEPT ![d] = <<>>] ELSE files
    BY <1>1 DEF OpenDataset, sample
  <2>2. \A k \in 1 .. Len(input) : files'[k] = files[k] \/ files'[k] = <<>>
    BY <1>0, <2>1
  <2>3. \A lines : Records(lines, <<>>)
    BY DEF Records, Readable
  <2>4. AllRecords'
    BY <2>1, <2>2, <2>3 DEF CreditInv, AllRecords
  <2> QED BY <2>1, <2>4 DEF CreditInv, Asked
<1>2. CASE SkipBlank \/ SkipRecorded \/ ReaderRaises \/ EndLoop
  <2>1. /\ UNCHANGED <<input, files, preds>> /\ pc = "next"
        /\ (pc' = "next" /\ exc' = exc) \/ pc' = "leave"
    BY <1>2 DEF SkipBlank, SkipRecorded, ReaderRaises, EndLoop, AtSample, AtLine, disk, sample
  <2> QED BY <2>1 DEF CreditInv, Asked, AllRecords
<1> QED BY <1>1, <1>2 DEF LoopStep

LEMMA CreditSample ==
    ASSUME OnceInv, CreditInv, SampleStep PROVE CreditInv'
<1>0. preds \in Seq(Texts) /\ <<>> \in Seq(Texts) /\ Here = input[d][pos]
  BY DEF OnceInv, LossInv, Typed, Here, Lines
<1>1. InSample => Len(Questions(input[d][pos])) \in Nat
  <2> SUFFICES ASSUME InSample PROVE Len(Questions(input[d][pos])) \in Nat
    OBVIOUS
  <2>1. input \in Seq(Seq(AnnotationLine)) /\ d \in 1 .. Len(input) /\ pos \in 1 .. Len(input[d])
    BY DEF OnceInv, LossInv, Typed, Fresh, SampleLines
  <2>2. input[d][pos] \in AnnotationLine
    BY <2>1
  <2> QED BY <2>2, Counts
<1>2. CASE Materialize
  <2>1. /\ UNCHANGED <<input, files, d, pos, preds, exc>> /\ pc = "next" /\ pc' = "infer"
    BY <1>2 DEF Materialize, New, AtSample, AtLine
  <2>2. OnceInv' /\ InSample'
    BY <1>2, <2>1, OnceStep DEF InSample, SampleStep, Work, Next
  <2>3. input \in Seq(Seq(AnnotationLine)) /\ d \in 1 .. Len(input) /\ pos \in 1 .. Len(input[d])
    BY <2>1, <2>2 DEF OnceInv, LossInv, Typed, Fresh, SampleLines
  <2>4. input[d][pos] \in AnnotationLine
    BY <2>3
  <2>5. Len(Questions(input[d][pos])) \in Nat
    BY <2>4, Counts
  <2>6. PICK n \in Nat : n = Len(Questions(input[d][pos]))
    BY <2>5
  <2>7. preds = <<>> /\ Len(<<>>) <= n /\ exc = "none"
    BY <2>1 DEF CreditInv, Asked
  <2>8. preds' = <<>> /\ Len(preds') <= Len(Questions(input[d][pos]))'
    BY <2>1, <2>6, <2>7, Zenon
  <2> QED BY <2>1, <2>7, <2>8 DEF CreditInv, Asked, AllRecords
<1>3. CASE MaterializeFails \/ TempWriteFails
  <2>1. /\ UNCHANGED <<input, files, preds, exc>> /\ pc = "next" /\ pc' = "except"
    BY <1>3 DEF MaterializeFails, TempWriteFails, New, AtSample, AtLine, disk, sample
  <2> QED BY <2>1 DEF CreditInv, Asked, AllRecords
<1>4. CASE Answer
  <2>1. /\ UNCHANGED <<input, files, d, pos, exc>> /\ pc = "infer" /\ pc' = "infer"
        /\ Len(preds) < Len(Questions(input[d][pos]))
    BY <1>0, <1>4 DEF Answer, Unanswered, disk, place
  <2>2. PICK text \in Texts : preds' = Append(preds, text)
    BY <1>4 DEF Answer
  <2>3. PICK n \in Nat : n = Len(Questions(input[d][pos]))
    BY <1>1, <2>1 DEF InSample
  <2>4. Len(Append(preds, text)) <= n
    BY <1>0, <2>1, <2>3
  <2>5. Len(preds') <= Len(Questions(input[d][pos]))'
    BY <2>1, <2>2, <2>3, <2>4, Zenon
  <2> QED BY <2>1, <2>5 DEF CreditInv, Asked, AllRecords
<1>5. CASE InferFails
  <2>1. /\ UNCHANGED <<input, files, preds, exc>> /\ pc = "infer" /\ pc' = "except"
    BY <1>5 DEF InferFails, disk, sample
  <2> QED BY <2>1 DEF CreditInv, Asked, AllRecords
<1>6. CASE AllAnswered
  <2>1. /\ UNCHANGED <<input, files, d, pos, preds, exc>> /\ pc = "infer" /\ pc' = "finally"
        /\ ~(Len(preds) < Len(Questions(input[d][pos])))
    BY <1>0, <1>6 DEF AllAnswered, Unanswered, disk, sample
  <2>2. Len(preds) = Len(Questions(input[d][pos]))
    <3>1. Len(Questions(input[d][pos])) \in Nat /\ Len(preds) <= Len(Questions(input[d][pos])) /\ Len(preds) \in Nat
      BY <1>0, <1>1, <2>1 DEF InSample, CreditInv, Asked
    <3> QED BY <2>1, <3>1
  <2> QED BY <2>1, <2>2 DEF CreditInv, Asked, AllRecords
<1>7. CASE Except
  <2>1. UNCHANGED input /\ pc = "except" /\ pc' = "finally" /\ preds' = <<>> /\ InSample
    BY <1>7 DEF Except, InSample
  <2>2. CASE ~args.strict
    BY <1>7, <2>1, <2>2 DEF Except, CreditInv, Asked, AllRecords
  <2>3. CASE args.strict
    <3>1. PICK outcome \in WriteOutcomes :
            files' = [files EXCEPT ![d] = JsonlAppend(@, outcome, pos, <<>>)]
      BY <1>7, <2>3 DEF Except
    <3>2. outcome \in {"none", "ok", "cut", "bare"}
      BY DEF WriteOutcomes, Partial
    <3>3. AllRecords'
      BY <1>0, <2>1, <3>1, <3>2, WriteRecords DEF CreditInv
    <3> QED BY <2>1, <3>3 DEF CreditInv, Asked
  <2> QED BY <2>2, <2>3
<1>8. CASE Finally
  <2>1. /\ UNCHANGED <<input, files, d, pos, preds, exc>> /\ pc = "finally"
        /\ pc' = IF exc = "none" THEN "write" ELSE "leave"
    BY <1>8 DEF Finally
  <2> QED BY <2>1 DEF CreditInv, Asked, AllRecords
<1>9. CASE Write
  <2>1. PICK outcome \in WriteOutcomes :
          /\ files' = [files EXCEPT ![d] = JsonlAppend(@, outcome, pos, preds)]
          /\ IF outcome = "ok" THEN pc' = "next" /\ exc' = exc ELSE exc' = "write" /\ pc' = "leave"
    BY <1>9 DEF Write
  <2>2. outcome \in {"none", "ok", "cut", "bare"}
    BY DEF WriteOutcomes, Partial
  <2>3. UNCHANGED input /\ InSample /\ preds' = <<>> /\ pc = "write"
    BY <1>9 DEF Write, InSample
  <2>4. (preds = <<>> \/ Len(preds) = Len(Questions(input[d][pos]))) /\ exc = "none"
    BY <2>3 DEF CreditInv, Asked
  <2>5. AllRecords'
    BY <1>0, <2>1, <2>2, <2>3, <2>4, WriteRecords DEF CreditInv
  <2>6. (pc' = "next" /\ exc' = "none") \/ pc' = "leave"
    BY <2>1, <2>4
  <2> QED BY <2>3, <2>5, <2>6 DEF CreditInv, Asked
<1> QED BY <1>2, <1>3, <1>4, <1>5, <1>6, <1>7, <1>8, <1>9 DEF SampleStep

LEMMA CreditMain ==
    ASSUME OnceInv, CreditInv, Leave \/ Kill \/ (\E a \in ArgSets : Start(a)) \/ UNCHANGED vars
    PROVE  CreditInv'
<1>1. CASE Leave
  <2>1. /\ UNCHANGED <<input, files, preds>> /\ exc' = "none" /\ pc = "leave" /\ pc' \in {"exit", "open"}
    BY <1>1 DEF Leave, disk
  <2> QED BY <2>1 DEF CreditInv, Asked, AllRecords
<1>2. CASE Kill
  <2>1. UNCHANGED input /\ pc' = "killed" /\ preds' = <<>> /\ exc' = "none"
    BY <1>2 DEF Kill
  <2>2. AllRecords'
    <3>1. CASE files' = files
      BY <2>1, <3>1 DEF CreditInv, AllRecords
    <3>2. CASE files' # files
      <4> DEFINE p == IF pc = "write" THEN preds ELSE <<>>
      <4>1. WriteDue /\ \E outcome \in {"ok", "cut", "bare"} :
              files' = [files EXCEPT ![d] = JsonlAppend(@, outcome, pos, p)]
        BY <1>2, <3>2 DEF Kill
      <4>2. InSample
        BY <4>1 DEF WriteDue, InSample
      <4>3. p \in Seq(Texts)
        BY DEF OnceInv, LossInv, Typed
      <4>4. p = <<>> \/ Len(p) = Len(Questions(input[d][pos]))
        BY DEF CreditInv, Asked
      <4> HIDE DEF p
      <4> QED BY <2>1, <4>1, <4>2, <4>3, <4>4, WriteRecords DEF CreditInv
    <3> QED BY <3>1, <3>2
  <2> QED BY <2>1, <2>2 DEF CreditInv, Asked
<1>3. CASE \E a \in ArgSets : Start(a)
  <2>1. UNCHANGED <<input, files, preds, exc>> /\ Over /\ pc' = "open"
    BY <1>3 DEF Start, disk, sample
  <2> QED BY <2>1 DEF CreditInv, Asked, AllRecords, Over
<1>4. CASE UNCHANGED vars
  <2>1. UNCHANGED <<input, files, d, pos, pc, preds, exc>>
    BY <1>4 DEF vars, disk, place, sample
  <2> QED BY <2>1 DEF CreditInv, Asked, AllRecords
<1> QED BY <1>1, <1>2, <1>3, <1>4

LEMMA CreditInit == Init => CreditInv
<1> SUFFICES ASSUME Init PROVE CreditInv
  OBVIOUS
<1>1. files = [k \in 1 .. Len(input) |-> <<>>] /\ preds = <<>> /\ exc = "none" /\ pc = "open"
  BY DEF Init
<1>2. \A lines : Records(lines, <<>>)
  BY DEF Records, Readable
<1> QED BY <1>1, <1>2 DEF CreditInv, Asked, AllRecords

\* What a credited record says of its line, where there is a label and the questions
\* and answers are of the same turns or of more on one side only.
LEMMA CreditLine ==
    ASSUME NEW line \in AnnotationLine, NEW p \in Seq(Texts),
           p = <<>> \/ Len(p) = Len(Questions(line)),
           Credited(Answers(line), p), ~Misaligned(line), ~Unlabelled(line)
    PROVE  /\ Queries(line) = Labels(line)
           /\ \A q \in DOMAIN Questions(line) : p[q] = line.turns[Questions(line)[q]].label
<1>1. /\ Queries(line) \subseteq DOMAIN line.turns /\ Labels(line) \subseteq DOMAIN line.turns
      /\ IsFiniteSet(Queries(line)) /\ IsFiniteSet(Labels(line))
      /\ Len(Questions(line)) \in Nat /\ Len(Questions(line)) = Cardinality(Queries(line))
      /\ Labelled(line) \in Seq(Labels(line))
      /\ Len(Labelled(line)) \in Nat /\ Len(Labelled(line)) = Cardinality(Labels(line))
  BY Counts
<1>2. /\ Len(Answers(line)) = Len(Labelled(line))
      /\ \A q \in 1 .. Len(Labelled(line)) : Answers(line)[q] = line.turns[Labelled(line)[q]].label
  BY <1>1 DEF Answers
<1>3. Len(p) = Cardinality(Labels(line)) /\ Len(p) \in Nat
  BY <1>1, <1>2 DEF Credited
<1>4. Labels(line) # {}
  <2>1. line.turns \in Seq(Turn)
    BY DEF AnnotationLine
  <2> QED BY <2>1 DEF Unlabelled, Labels
<1>5. Cardinality(Labels(line)) # 0
  BY <1>1, <1>4, FS_EmptySet
<1>6. Cardinality(Queries(line)) = Cardinality(Labels(line))
  <2>1. p # <<>>
    BY <1>3, <1>5
  <2> QED BY <1>1, <1>3, <2>1
<1>7. Queries(line) \subseteq Labels(line) \/ Labels(line) \subseteq Queries(line)
  <2>1. line.turns \in Seq(Turn)
    BY DEF AnnotationLine
  <2> QED BY <2>1 DEF Misaligned, Queries, Labels
<1>8. Queries(line) = Labels(line)
  BY <1>1, <1>6, <1>7, FS_Subset
<1>9. Questions(line) = Labelled(line)
  BY <1>8 DEF Questions, Labelled
<1>10. \A q \in 1 .. Len(Labelled(line)) : PredictionAt(p, q) = p[q]
  <2>1. Len(p) = Len(Labelled(line))
    BY <1>1, <1>3
  <2> QED BY <1>1, <2>1 DEF PredictionAt
<1>11. \A q \in 1 .. Len(Labelled(line)) : p[q] = line.turns[Labelled(line)[q]].label
  BY <1>2, <1>10 DEF Credited
<1> QED BY <1>1, <1>8, <1>9, <1>11

\* A record of ChartBench that counts as correct is that of a sample whose every question
\* was answered with the label of its own turn, however runs failed, were killed or
\* repeated, unless its conversation is one of the two kinds the property names
\* (iter_chartbench, evaluate_dataset and evaluate_chartbench).
THEOREM CreditIsEarned == Spec => []CreditEarned
<1>1. OnceInv /\ CreditInv => CreditEarned
  <2> SUFFICES ASSUME OnceInv, CreditInv, NEW k \in {m \in 1 .. Len(input) : Bench(input[m])},
                      NEW j \in Readable(files[k])
               PROVE  LET i == LineSample(files[k], j)
                          line == input[k][i]
                      IN (i \in Report(input[k], files[k]).credited /\ ~Misaligned(line) /\ ~Unlabelled(line)) =>
                           /\ \A t \in DOMAIN line.turns : line.turns[t].query <=> line.turns[t].label # NoLabel
                           /\ \A q \in DOMAIN Questions(line) :
                                files[k][j].preds[q] = line.turns[Questions(line)[q]].label
    BY Zenon DEF CreditEarned
  <2> DEFINE i == LineSample(files[k], j)
             line == input[k][i]
  <2> SUFFICES ASSUME i \in Report(input[k], files[k]).credited, ~Misaligned(line), ~Unlabelled(line)
               PROVE  /\ \A t \in DOMAIN line.turns : line.turns[t].query <=> line.turns[t].label # NoLabel
                      /\ \A q \in DOMAIN Questions(line) :
                           files[k][j].preds[q] = line.turns[Questions(line)[q]].label
    OBVIOUS
  <2> DEFINE f == files[k]
  <2>1. f \in Seq(PredictionLine) /\ Records(input[k], f) /\ input[k] \in Seq(AnnotationLine)
    <3>1. /\ k \in 1 .. Len(input) /\ input \in Seq(Seq(AnnotationLine))
          /\ files \in [1 .. Len(input) -> Seq(PredictionLine)]
      BY DEF OnceInv, LossInv, Typed
    <3>2. f \in Seq(PredictionLine)
      BY <3>1
    <3>3. input[k] \in Seq(AnnotationLine)
      BY <3>1
    <3> QED BY <3>1, <3>2, <3>3 DEF CreditInv, AllRecords
  <2>2. j \in Readable(f) /\ i = LineSample(f, j) /\ i \in Report(input[k], f).credited
    OBVIOUS
  <2>0. line = input[k][i]
    OBVIOUS
  <2> HIDE DEF f, i, line
  <2>3. \A l \in Readable(f) : f[l].holds = {LineSample(f, l)} /\ RecordOf(input[k], f[l])
    BY <2>1 DEF Records, RecordOf, LineSample
  <2>4. PICK l \in Readable(f) : /\ Credited(Answers(input[k][LineSample(f, l)]), f[l].preds)
                                  /\ LineSample(f, l) = i
    BY <2>2 DEF Report
  <2>5. l = j
    BY <2>1, <2>2, <2>3, <2>4 DEF Records
  <2>6. Credited(Answers(line), f[j].preds)
    BY <2>0, <2>4, <2>5
  <2>7. i \in SampleLines(input[k]) /\ (f[j].preds = <<>> \/ Len(f[j].preds) = Len(Questions(line)))
    BY <2>0, <2>2, <2>3 DEF RecordOf
  <2>8. line \in AnnotationLine /\ line.turns \in Seq(Turn)
    <3>1. line \in AnnotationLine
      BY <2>0, <2>1, <2>7 DEF SampleLines
    <3> QED BY <3>1 DEF AnnotationLine
  <2>9. f[j].preds \in Seq(Texts)
    <3>1. j \in 1 .. Len(f)
      BY <2>2 DEF Readable
    <3>2. f[j] \in PredictionLine
      BY <2>1, <3>1
    <3> QED BY <3>2 DEF PredictionLine
  <2>10. /\ Queries(line) = Labels(line)
         /\ \A q \in DOMAIN Questions(line) : f[j].preds[q] = line.turns[Questions(line)[q]].label
    BY <2>6, <2>7, <2>8, <2>9, CreditLine
  <2>11. \A t \in DOMAIN line.turns : line.turns[t].query <=> line.turns[t].label # NoLabel
    <3>1. \A t \in 1 .. Len(line.turns) : t \in Queries(line) <=> t \in Labels(line)
      BY <2>10
    <3> QED BY <2>8, <3>1 DEF Queries, Labels
  <2> QED BY <2>10, <2>11, Zenon DEF f
<1>2. OnceInv /\ CreditInv /\ [Next]_vars => CreditInv'
  BY CreditLoop, CreditSample, CreditMain DEF Next, Work, Finished
<1> QED BY <1>1, <1>2, OnceInit, OnceStep, CreditInit, PTL DEF Spec
=============================================================================
