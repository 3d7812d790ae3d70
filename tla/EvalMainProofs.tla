--------------------------- MODULE EvalMainProofs ---------------------------
(* Theorems about EvalMain: the engines on the GPU and the visualization budget. *)
EXTENDS EvalMain, TLAPS, WellFoundedInduction, SequenceTheorems, FiniteSetTheorems

Evaluating == {"job", "ask", "askBind"}
Analysing == {"analysis", "capture", "captureBind", "close"}
Building == {"askBind", "captureBind"}
One(b) == IF b THEN 1 ELSE 0

\* live counts the engines the runners hold and the one being built; a runner holds none
\* outside its part of the program, and none without sampling parameters unless those
\* are refused.
EngineInv ==
    /\ pc \in Evaluating \cup Analysing \cup {"finally", "done"}
    /\ llm \subseteq Runners
    /\ live = One("eval" \in llm) + One("analysis" \in llm) + One(pc \in Building)
    /\ pc \in Evaluating \cup {"finally"} => "analysis" \notin llm
    /\ pc \in Analysing => "eval" \notin llm
    /\ pc = "done" => llm = {}
    /\ ~badSampling => /\ llm \subseteq ready
                       /\ pc = "askBind" => "eval" \notin llm
                       /\ pc = "captureBind" => "analysis" \notin llm

LEMMA EngineInvInit == Init => EngineInv
BY DEF Init, EngineInv, Evaluating, Analysing, Building, One, Runners

\* A step that leaves the engines alone and stays in its part of the program, outside
\* of building, or goes from the one to the end.
LEMMA EngineInvFrame ==
    ASSUME EngineInv, UNCHANGED <<engines, badSampling>>,
           \/ pc' = pc
           \/ pc \in {"job", "ask"} /\ pc' \in {"job", "ask", "finally"}
           \/ pc \in {"analysis", "capture"} /\ pc' \in {"analysis", "capture", "close"}
    PROVE  EngineInv'
BY DEF EngineInv, engines, Evaluating, Analysing, Building, One

LEMMA FailStep == ASSUME Fail PROVE pc' \in {"job", "finally"}
BY DEF Fail

LEMMA CallFailsStep ==
    ASSUME NEW id, CallFails(id) PROVE pc' \in {"job", "ask", "finally"}
BY DEF CallFails, Fail

LEMMA CaptureFailsStep ==
    ASSUME NEW id, CaptureFails(id) PROVE pc' \in {"capture", "close"}
BY DEF CaptureFails

LEMMA EngineInvStep == EngineInv /\ [Next]_vars => EngineInv'
<1> SUFFICES ASSUME EngineInv, [Next]_vars PROVE EngineInv'
  OBVIOUS
<1>1. CASE StartJob
  BY <1>1, EngineInvFrame DEF StartJob, options
<1>2. CASE EndJob
  BY <1>2, EngineInvFrame DEF EndJob, options
<1>3. CASE DatasetFails
  BY <1>3, FailStep, EngineInvFrame DEF DatasetFails, options
<1>4. CASE AskBind
  <2>1. pc = "askBind" /\ pc' \in {"job", "ask", "finally"} /\ badSampling' = badSampling
        /\ Bind("eval") /\ (~badSampling => pc' = "ask")
    BY <1>4, CallFailsStep DEF AskBind, options
  <2>2. QED
    BY <2>1 DEF Bind, EngineInv, Evaluating, Analysing, Building, One, Runners
<1>5. ASSUME NEW id \in todo, Ask(id) PROVE EngineInv'
  BY <1>5, CallFailsStep, EngineInvFrame DEF Ask, options
<1>6. ASSUME NEW id \in todo, AskUnloadable(id) PROVE EngineInv'
  BY <1>6, CallFailsStep, EngineInvFrame DEF AskUnloadable, options
<1>7. CASE SkipAnalysis
  BY <1>7, EngineInvFrame DEF SkipAnalysis, options
<1>8. CASE StartAnalysis
  BY <1>8 DEF StartAnalysis, Shutdown, options, EngineInv, Evaluating, Analysing, Building, One
<1>9. CASE Analyse
  BY <1>9, EngineInvFrame DEF Analyse, options
<1>10. CASE AnalysisFails
  BY <1>10, EngineInvFrame DEF AnalysisFails, options
<1>11. CASE CaptureBind
  <2>1. pc = "captureBind" /\ pc' \in {"capture", "close"} /\ badSampling' = badSampling
        /\ Bind("analysis") /\ (~badSampling => pc' = "capture")
    BY <1>11, CaptureFailsStep DEF CaptureBind, options
  <2>2. QED
    BY <2>1 DEF Bind, EngineInv, Evaluating, Analysing, Building, One, Runners
<1>12. CASE EndDataset
  BY <1>12, EngineInvFrame DEF EndDataset, options
<1>13. CASE Aggregate
  BY <1>13, EngineInvFrame DEF Aggregate, options
<1>14. CASE CloseAnalysis
  BY <1>14 DEF CloseAnalysis, Shutdown, options, EngineInv, Evaluating, Analysing, Building, One
<1>15. ASSUME NEW id \in todo, Capture(id) PROVE EngineInv'
  BY <1>15, CaptureFailsStep, EngineInvFrame DEF Capture, options
<1>16. ASSUME NEW id \in todo, CaptureUnloadable(id) PROVE EngineInv'
  BY <1>16, CaptureFailsStep, EngineInvFrame DEF CaptureUnloadable, options
<1>17. CASE Construct
  <2>1. CASE pc = "ask"
    BY <1>17, <2>1 DEF Construct, Loaded, Runner, options,
                       EngineInv, Evaluating, Analysing, Building, One
  <2>2. CASE pc = "capture"
    BY <1>17, <2>2 DEF Construct, Loaded, Runner, options,
                       EngineInv, Evaluating, Analysing, Building, One
  <2>3. QED
    BY <1>17, <2>1, <2>2 DEF Construct
<1>18. CASE Finally
  BY <1>18 DEF Finally, Shutdown, options, EngineInv, Evaluating, Analysing, Building, One, Runners
<1>19. CASE UNCHANGED vars
  BY <1>19, EngineInvFrame DEF vars, options
<1>20. QED
  BY <1>1, <1>2, <1>3, <1>4, <1>5, <1>6, <1>7, <1>8, <1>9, <1>10, <1>11, <1>12, <1>13, <1>14,
     <1>15, <1>16, <1>17, <1>18, <1>19 DEF Next, JobStep, AnalysisStep, Finished

\* While the sampling options are accepted the GPU never holds two engines: load keeps
\* the one there is, and the evaluation's engine goes before the analysis builds its own.
THEOREM EnginesNeverMeet == Spec => []OneEngine
<1>1. EngineInv => OneEngine
  BY DEF EngineInv, OneEngine, Evaluating, Analysing, Building, One, Runners
<1>2. QED
  BY <1>1, EngineInvInit, EngineInvStep, PTL DEF Spec

\* Whichever call fails, the finally clauses leave no engine behind, also when load had
\* to build engines again because the sampling options were refused.
THEOREM NoEngineLeft == Spec => []EnginesReleased
<1>1. EngineInv => EnginesReleased
  BY DEF EngineInv, EnginesReleased, Building, One
<1>2. QED
  BY <1>1, EngineInvInit, EngineInvStep, PTL DEF Spec

-----------------------------------------------------------------------------

\* The questions whose tensors are retained and that no error file names, and what may
\* still be drawn, stay within the budget together.
Drawn == Cardinality(retained \ named)
BudgetInv ==
    /\ remaining \in Nat /\ visualized \in Nat /\ IsFiniteSet(retained)
    /\ Drawn <= NumVisualizations
    /\ pc \in Evaluating => retained = {}
    /\ pc = "analysis" => Drawn + remaining <= NumVisualizations
    /\ pc \in {"capture", "captureBind"} =>
         visualized <= remaining /\ Drawn + (remaining - visualized) <= NumVisualizations

LEMMA DrawnNat == IsFiniteSet(retained) => Drawn \in Nat
BY FS_Subset, FS_CardinalityType, retained \ named \in SUBSET retained DEF Drawn

LEMMA DrawnFewer ==
    ASSUME IsFiniteSet(retained), retained' \ named' \subseteq retained \ named
    PROVE  Drawn' <= Drawn
<1>1. IsFiniteSet(retained \ named)
  BY FS_Subset, retained \ named \in SUBSET retained
<1>2. QED
  BY <1>1, FS_Subset DEF Drawn

LEMMA BudgetInvFrame ==
    ASSUME BudgetInv, UNCHANGED <<remaining, visualized>>, IsFiniteSet(retained'),
           retained' \ named' \subseteq retained \ named,
           pc \in Evaluating => retained' = retained,
           \/ pc' = pc
           \/ pc \in Evaluating /\ pc' \in Evaluating \cup {"finally"}
           \/ pc \in {"capture", "captureBind"} /\ pc' \in {"capture", "captureBind"}
           \/ pc' \in {"close", "finally", "done"}
    PROVE  BudgetInv'
<1>1. NumVisualizations \in Nat
  BY MainAssumption
<1>2. PICK d \in Nat : d = Drawn
  BY DrawnNat DEF BudgetInv
<1>3. PICK e \in Nat : e = Drawn'
  <2>1. Drawn' \in Nat
    <3>1. IsFiniteSet(retained' \ named')
      BY FS_Subset, retained' \ named' \in SUBSET retained'
    <3>2. QED
      BY <3>1, FS_CardinalityType DEF Drawn
  <2>2. QED
    BY <2>1
<1>4. e <= d
  BY <1>2, <1>3, DrawnFewer DEF BudgetInv
<1>5. /\ remaining \in Nat /\ visualized \in Nat /\ d <= NumVisualizations
      /\ pc \in Evaluating => retained = {}
      /\ pc = "analysis" => d + remaining <= NumVisualizations
      /\ pc \in {"capture", "captureBind"} =>
           visualized <= remaining /\ d + (remaining - visualized) <= NumVisualizations
  BY <1>2 DEF BudgetInv
<1>6. /\ e <= NumVisualizations
      /\ pc' = "analysis" => e + remaining <= NumVisualizations
      /\ pc' \in {"capture", "captureBind"} =>
           visualized <= remaining /\ e + (remaining - visualized) <= NumVisualizations
  BY <1>1, <1>4, <1>5 DEF Evaluating
<1>7. pc' \in Evaluating => retained' = {}
  BY <1>5 DEF Evaluating
<1>8. QED
  BY <1>3, <1>5, <1>6, <1>7 DEF BudgetInv

\* All analysis passes of one run together retain at most --num-visualizations questions
\* that no error file names: what one dataset drew is not there for the next, and a render
\* that fails is named before the pass goes on, or ends.
THEOREM BudgetKept == Spec => []DrawnWithinBudget
<1>1. Init => BudgetInv
  <2>1. {} \ {} = {} /\ Cardinality({}) = 0 /\ IsFiniteSet({})
    BY FS_EmptySet
  <2>2. QED
    BY <2>1, MainAssumption DEF Init, BudgetInv, Drawn
<1>2. BudgetInv /\ [Next]_vars => BudgetInv'
  <2> SUFFICES ASSUME BudgetInv, [Next]_vars PROVE BudgetInv'
    OBVIOUS
  <2>0. NumVisualizations \in Nat /\ IsFiniteSet(retained)
    BY MainAssumption DEF BudgetInv
  <2>1. CASE JobStep
    <3>1. UNCHANGED drawing
      BY <2>1 DEF JobStep, StartJob, EndJob, DatasetFails, AskBind, Ask, AskUnloadable
    <3>2. pc \in Evaluating /\ pc' \in Evaluating \cup {"finally"}
      BY <2>1, FailStep, CallFailsStep
         DEF JobStep, StartJob, EndJob, DatasetFails, AskBind, Ask, AskUnloadable, Evaluating
    <3>3. QED
      BY <2>0, <3>1, <3>2, BudgetInvFrame DEF drawing
  <2>2. CASE SkipAnalysis
    BY <2>0, <2>2, BudgetInvFrame DEF SkipAnalysis, drawing
  <2>3. CASE StartAnalysis
    <3>1. /\ pc = "job" /\ retained = {} /\ retained' = {} /\ pc' = "analysis"
          /\ remaining' = NumVisualizations /\ visualized' = visualized
      BY <2>3 DEF StartAnalysis, BudgetInv, Evaluating
    <3>2. Drawn' = 0 /\ IsFiniteSet({})
      BY <3>1, FS_EmptySet, {} \ named' = {} DEF Drawn
    <3>3. QED
      BY <2>0, <3>1, <3>2 DEF BudgetInv, Evaluating
  <2>4. CASE Analyse
    <3>1. UNCHANGED <<remaining, retained, named>> /\ pc = "analysis" /\ pc' = "capture" /\ visualized' = 0
      BY <2>4 DEF Analyse
    <3>2. Drawn' = Drawn /\ Drawn \in Nat
      BY <2>0, <3>1, DrawnNat DEF Drawn
    <3>3. QED
      BY <2>0, <3>1, <3>2 DEF BudgetInv, Evaluating
  <2>5. CASE AnalysisFails
    BY <2>0, <2>5, BudgetInvFrame DEF AnalysisFails, drawing, Evaluating
  <2>6. CASE CaptureBind
    <3>1. /\ pc = "captureBind" /\ pc' \in {"capture", "close"} /\ named \subseteq named'
          /\ UNCHANGED <<remaining, visualized, retained>>
      BY <2>6, CaptureFailsStep DEF CaptureBind, CaptureFails
    <3>2. QED
      BY <2>0, <3>1, BudgetInvFrame DEF Evaluating
  <2>7. CASE EndDataset
    <3>1. /\ UNCHANGED <<visualized, retained, named>> /\ pc = "capture" /\ pc' = "analysis"
          /\ remaining' = IF remaining > visualized THEN remaining - visualized ELSE 0
      BY <2>7 DEF EndDataset
    <3>2. Drawn' = Drawn /\ Drawn \in Nat
      BY <2>0, <3>1, DrawnNat DEF Drawn
    <3>3. QED
      BY <2>0, <3>1, <3>2 DEF BudgetInv, Evaluating
  <2>8. CASE Aggregate
    BY <2>0, <2>8, BudgetInvFrame DEF Aggregate, drawing, Evaluating
  <2>9. CASE CloseAnalysis
    BY <2>0, <2>9, BudgetInvFrame DEF CloseAnalysis, drawing, Evaluating
  <2>10. ASSUME NEW id \in todo, Capture(id) PROVE BudgetInv'
    <3> DEFINE x == <<job, id>>
    <3>1. pc = "capture" /\ remaining' = remaining
      BY <2>10 DEF Capture
    <3>2. CASE CaptureFails(id) /\ visualized' = visualized
      <4>1. /\ pc' \in {"capture", "close"} /\ named' = named \cup {x}
            /\ retained' = retained \/ retained' = retained \cup {x}
        BY <2>10, <3>2, CaptureFailsStep DEF Capture, CaptureFails, Drawing
      <4>2. IsFiniteSet(retained') /\ retained' \ named' \subseteq retained \ named
        BY <2>0, <4>1, FS_AddElement
      <4>3. QED
        BY <3>1, <3>2, <4>1, <4>2, BudgetInvFrame DEF Evaluating
    <3>3. CASE pc' = pc /\ UNCHANGED <<named, visualized, retained>>
      BY <2>0, <3>1, <3>3, BudgetInvFrame
    <3>4. CASE pc' = pc /\ named' = named /\ Drawing(id) /\ visualized' = visualized + 1
      <4>1. visualized < remaining /\ retained' = retained \cup {x}
        BY <3>4 DEF Drawing
      <4>2. IsFiniteSet(retained')
        BY <2>0, <4>1, FS_AddElement
      <4>3. retained' \ named' = retained \ named \/ retained' \ named' = (retained \ named) \cup {x}
        BY <3>4, <4>1
      <4>4. IsFiniteSet(retained \ named)
        BY <2>0, FS_Subset, retained \ named \in SUBSET retained
      <4>5. PICK d \in Nat : d = Drawn
        BY <2>0, DrawnNat
      <4>6. Drawn' = d \/ Drawn' = d + 1
        BY <4>3, <4>4, <4>5, FS_AddElement DEF Drawn
      <4>7. QED
        BY <2>0, <3>1, <3>4, <4>1, <4>2, <4>5, <4>6 DEF BudgetInv, Evaluating
    <3>5. QED
      BY <2>10, <3>2, <3>3, <3>4 DEF Capture
  <2>11. ASSUME NEW id \in todo, CaptureUnloadable(id) PROVE BudgetInv'
    <3>1. /\ pc = "capture" /\ pc' \in {"capture", "close"} /\ named \subseteq named'
          /\ UNCHANGED <<remaining, visualized, retained>>
      BY <2>11, CaptureFailsStep DEF CaptureUnloadable, CaptureFails
    <3>2. QED
      BY <2>0, <3>1, BudgetInvFrame DEF Evaluating
  <2>12. CASE Construct
    <3>1. UNCHANGED drawing /\ \/ pc = "ask" /\ pc' = "askBind"
                               \/ pc = "capture" /\ pc' = "captureBind"
      BY <2>12 DEF Construct
    <3>2. QED
      BY <2>0, <3>1, BudgetInvFrame DEF drawing, Evaluating
  <2>13. CASE Finally
    BY <2>0, <2>13, BudgetInvFrame DEF Finally, drawing
  <2>14. CASE UNCHANGED vars
    BY <2>0, <2>14, BudgetInvFrame DEF vars, drawing
  <2>15. QED
    BY <2>1, <2>2, <2>3, <2>4, <2>5, <2>6, <2>7, <2>8, <2>9, <2>10, <2>11, <2>12, <2>13, <2>14
       DEF Next, AnalysisStep, Finished
<1>3. BudgetInv => DrawnWithinBudget
  BY DEF BudgetInv, DrawnWithinBudget, Drawn
<1>4. QED
  BY <1>1, <1>2, <1>3, PTL DEF Spec

-----------------------------------------------------------------------------
(* The fold of build_eval_jobs, by its first position that goes wrong. *)

\* Every non-empty set of naturals has a least element.
LEMMA Least ==
    ASSUME NEW S \in SUBSET Nat, S # {}
    PROVE  \E n \in S : \A m \in S : n <= m
<1> DEFINE R == OpToRel(<, Nat)
<1>1. \E n \in S : \A m \in S : <<m, n>> \notin R
  BY NatLessThanWellFounded, WFMin
<1>2. R = {ss \in Nat \X Nat : ss[1] < ss[2]}
  BY Zenon DEF OpToRel
<1>3. \A m, n \in Nat : m < n => <<m, n>> \in R
  <2> HIDE DEF R
  <2> QED BY <1>2
<1> HIDE DEF R
<1>4. PICK n \in S : \A m \in S : <<m, n>> \notin R
  BY <1>1
<1>5. ASSUME NEW m \in S PROVE n <= m
  <2>1. ~(m < n) /\ m \in Nat /\ n \in Nat
    BY <1>3, <1>4
  <2>2. QED
    BY <2>1
<1>6. QED
  BY <1>5

\* it: what Once computes for every set of the first k positions of s, the last one first.
FoldsTo(it, s, k) ==
    it = [t \in SUBSET (1 .. k) |-> IF t = {} THEN <<>> ELSE Once(it[t \ {Max(t)}], s[Max(t)])]

LEMMA FoldDef ==
    ASSUME NEW s, NEW n \in Nat, DOMAIN s = 1 .. n
    PROVE  FoldLeft(Once, <<>>, s) = (CHOOSE it : FoldsTo(it, s, n))[1 .. n]
BY DEF FoldLeft, MapThenFoldSet, FoldsTo

LEMMA LastPosition ==
    ASSUME NEW k \in Nat, NEW t \in SUBSET (1 .. (k + 1)), k + 1 \in t
    PROVE  Max(t) = k + 1
<1>1. \A y \in t : k + 1 >= y
  OBVIOUS
<1>2. ASSUME NEW x \in t, \A y \in t : x >= y PROVE x = k + 1
  BY <1>2
<1>3. QED
  BY <1>1, <1>2 DEF Max

LEMMA FoldExtends ==
    ASSUME NEW s, NEW k \in Nat, NEW g, FoldsTo(g, s, k)
    PROVE  \E h : FoldsTo(h, s, k + 1)
<1> DEFINE h == [t \in SUBSET (1 .. (k + 1)) |->
                   IF k + 1 \in t THEN Once(g[t \ {k + 1}], s[k + 1]) ELSE g[t]]
           value(t) == IF t = {} THEN <<>> ELSE Once(h[t \ {Max(t)}], s[Max(t)])
<1>1. ASSUME NEW t \in SUBSET (1 .. (k + 1)) PROVE h[t] = value(t)
  <2>1. CASE k + 1 \in t
    <3>1. Max(t) = k + 1
      BY <2>1, LastPosition
    <3>2. t \ {k + 1} \in SUBSET (1 .. (k + 1)) /\ k + 1 \notin t \ {k + 1}
      OBVIOUS
    <3>3. h[t \ {k + 1}] = g[t \ {k + 1}]
      BY <3>2
    <3>4. QED
      BY <2>1, <3>1, <3>3
  <2>2. CASE k + 1 \notin t
    <3>1. t \in SUBSET (1 .. k)
      BY <2>2
    <3>2. h[t] = g[t]
      BY <2>2
    <3>3. g[t] = IF t = {} THEN <<>> ELSE Once(g[t \ {Max(t)}], s[Max(t)])
      BY <3>1 DEF FoldsTo
    <3>4. h[t \ {Max(t)}] = g[t \ {Max(t)}]
      BY <2>2
    <3>5. QED
      BY <3>2, <3>3, <3>4
  <2>3. QED
    BY <2>1, <2>2
<1>2. h = [t \in SUBSET (1 .. (k + 1)) |-> value(t)]
  <2> HIDE DEF value
  <2> QED BY <1>1
<1>3. FoldsTo(h, s, k + 1)
  BY <1>2 DEF FoldsTo
<1>4. QED
  BY <1>3

LEMMA FoldExists ==
    ASSUME NEW s, NEW n \in Nat
    PROVE  \E it : FoldsTo(it, s, n)
<1> DEFINE Bad == {k \in Nat : ~ \E it : FoldsTo(it, s, k)}
<1>1. SUFFICES ASSUME Bad # {} PROVE FALSE
  OBVIOUS
<1>2. PICK k \in Bad : \A m \in Bad : k <= m
  BY <1>1, Least
<1>3. k # 0
  <2>1. FoldsTo([t \in SUBSET (1 .. 0) |-> <<>>], s, 0)
    BY DEF FoldsTo
  <2>2. QED
    BY <2>1
<1>4. k - 1 \in Nat /\ (k - 1) + 1 = k /\ ~(k <= k - 1)
  BY <1>3
<1>5. k - 1 \notin Bad
  BY <1>2, <1>4
<1>6. QED
  BY <1>4, <1>5, FoldExtends

LEMMA OnceOfSeq ==
    ASSUME NEW T, NEW jobs \in Seq(T), NEW new \in T
    PROVE  /\ Once(jobs, new) \in Seq(T)
           /\ ToSet(Once(jobs, new)) = ToSet(jobs) \cup {new}
<1>1. CASE Contains(jobs, new)
  BY <1>1 DEF Once, Contains, ToSet
<1>2. CASE ~Contains(jobs, new)
  <2>1. Once(jobs, new) = Append(jobs, new)
    BY <1>2 DEF Once
  <2>2. QED
    BY <2>1 DEF ToSet
<1>3. QED
  BY <1>1, <1>2

\* The fold of the first k positions is a sequence of the elements there.
Gathers(it, s, T, k) ==
    /\ it[1 .. k] \in Seq(T)
    /\ ToSet(it[1 .. k]) = {s[i] : i \in 1 .. k}

LEMMA GathersFirst ==
    ASSUME NEW T, NEW s, NEW n \in Nat, NEW it, FoldsTo(it, s, n)
    PROVE  Gathers(it, s, T, 0)
<1>1. 1 .. 0 = {} /\ it[{}] = <<>>
  BY DEF FoldsTo
<1>2. ToSet(<<>>) = {} /\ {s[i] : i \in {}} = {} /\ <<>> \in Seq(T)
  BY DEF ToSet
<1>3. QED
  BY <1>1, <1>2 DEF Gathers

LEMMA GathersNext ==
    ASSUME NEW T, NEW s \in Seq(T), NEW it, FoldsTo(it, s, Len(s)),
           NEW k \in Nat, k + 1 <= Len(s), Gathers(it, s, T, k)
    PROVE  Gathers(it, s, T, k + 1)
<1>1. Max(1 .. (k + 1)) = k + 1 /\ (1 .. (k + 1)) \ {k + 1} = 1 .. k
  BY LastPosition
<1>2. it[1 .. (k + 1)] = Once(it[1 .. k], s[k + 1])
  <2>1. 1 .. (k + 1) \in SUBSET (1 .. Len(s)) /\ 1 .. (k + 1) # {}
    <3>1. Len(s) \in Nat
      BY LenProperties
    <3>2. QED
      BY <3>1
  <2>2. QED
    BY <1>1, <2>1 DEF FoldsTo
<1>3. s[k + 1] \in T
  BY ElementOfSeq
<1>4. {s[i] : i \in 1 .. (k + 1)} = {s[i] : i \in 1 .. k} \cup {s[k + 1]}
  <2>1. 1 .. (k + 1) = (1 .. k) \cup {k + 1}
    OBVIOUS
  <2>2. QED
    BY <2>1, Zenon
<1>5. it[1 .. k] \in Seq(T) /\ ToSet(it[1 .. k]) = {s[i] : i \in 1 .. k}
  BY DEF Gathers
<1>6. /\ Once(it[1 .. k], s[k + 1]) \in Seq(T)
      /\ ToSet(Once(it[1 .. k], s[k + 1])) = ToSet(it[1 .. k]) \cup {s[k + 1]}
  <2>1. \A jobs \in Seq(T), new \in T : /\ Once(jobs, new) \in Seq(T)
                                        /\ ToSet(Once(jobs, new)) = ToSet(jobs) \cup {new}
    BY OnceOfSeq
  <2>2. QED
    BY <1>3, <1>5, <2>1
<1>7. QED
  BY <1>2, <1>4, <1>5, <1>6, Zenon DEF Gathers

\* Every element of s has its place in the fold, and nothing else.
LEMMA FoldOnce ==
    ASSUME NEW T, NEW s \in Seq(T)
    PROVE  /\ FoldLeft(Once, <<>>, s) \in Seq(T)
           /\ ToSet(FoldLeft(Once, <<>>, s)) = ToSet(s)
<1> DEFINE it == CHOOSE g : FoldsTo(g, s, Len(s))
           Bad == {k \in Nat : k <= Len(s) /\ ~Gathers(it, s, T, k)}
<1>1. Len(s) \in Nat /\ DOMAIN s = 1 .. Len(s)
  OBVIOUS
<1>2. FoldsTo(it, s, Len(s))
  BY <1>1, FoldExists
<1>3. FoldLeft(Once, <<>>, s) = it[1 .. Len(s)]
  BY <1>1, FoldDef
<1> HIDE DEF it
<1>4. Bad = {}
  <2>1. SUFFICES ASSUME Bad # {} PROVE FALSE
    OBVIOUS
  <2>2. PICK k \in Bad : \A m \in Bad : k <= m
    BY <2>1, Least
  <2>3. k # 0
    BY <1>1, <1>2, GathersFirst
  <2>4. k - 1 \in Nat /\ (k - 1) + 1 = k /\ ~(k <= k - 1) /\ k - 1 <= Len(s) /\ k <= Len(s)
    BY <1>1, <2>3
  <2>5. Gathers(it, s, T, k - 1)
    BY <2>2, <2>4
  <2>6. Gathers(it, s, T, k)
    BY <1>2, <2>4, <2>5, GathersNext
  <2>7. QED
    BY <2>6
<1>5. Gathers(it, s, T, Len(s))
  BY <1>1, <1>4
<1>6. ToSet(s) = {s[i] : i \in 1 .. Len(s)}
  BY <1>1 DEF ToSet
<1>7. QED
  BY <1>3, <1>5, <1>6 DEF Gathers

LEMMA ToSetConcat ==
    ASSUME NEW S, NEW s \in Seq(S), NEW t \in Seq(S)
    PROVE  ToSet(s \o t) = ToSet(s) \cup ToSet(t)
<1> DEFINE u == s \o t
<1>1. /\ u \in Seq(S) /\ Len(u) = Len(s) + Len(t) /\ Len(s) \in Nat /\ Len(t) \in Nat
      /\ \A i \in 1 .. (Len(s) + Len(t)) : u[i] = IF i <= Len(s) THEN s[i] ELSE t[i - Len(s)]
  BY ConcatProperties, LenProperties
<1> HIDE DEF u
<1>2. /\ ToSet(u) = {u[i] : i \in 1 .. Len(u)} /\ ToSet(s) = {s[i] : i \in 1 .. Len(s)}
      /\ ToSet(t) = {t[i] : i \in 1 .. Len(t)}
  <2>1. DOMAIN u = 1 .. Len(u) /\ DOMAIN s = 1 .. Len(s) /\ DOMAIN t = 1 .. Len(t)
    BY <1>1, LenProperties
  <2>2. QED
    BY <2>1, Zenon DEF ToSet
<1>3. \A i \in 1 .. Len(u) : u[i] \in ToSet(s) \cup ToSet(t)
  BY <1>1, <1>2
<1>4. \A i \in 1 .. Len(s) : s[i] \in ToSet(u)
  <2> TAKE i \in 1 .. Len(s)
  <2>1. i \in 1 .. Len(u) /\ u[i] = s[i]
    BY <1>1
  <2>2. QED
    BY <1>2, <2>1
<1>5. \A i \in 1 .. Len(t) : t[i] \in ToSet(u)
  <2> TAKE i \in 1 .. Len(t)
  <2>1. i + Len(s) \in 1 .. Len(u) /\ (i + Len(s)) - Len(s) = i /\ ~(i + Len(s) <= Len(s))
    BY <1>1
  <2>2. u[i + Len(s)] = t[i]
    BY <1>1, <2>1
  <2>3. QED
    BY <1>2, <2>1, <2>2
<1>6. QED
  BY <1>2, <1>3, <1>4, <1>5 DEF u

LEMMA JobsFixed == request' = request => EvalJobs' = EvalJobs
BY DEF EvalJobs

\* The jobs are the datasets asked for, in some order.
LEMMA JobsAre ==
    ASSUME request \in Requests
    PROVE  /\ EvalJobs \in Seq(DOMAIN FileOf)
           /\ ToSet(EvalJobs) = {<<n, request.split>> : n \in ToSet(request.names)}
                                \cup ToSet(request.extra)
<1> DEFINE D == DOMAIN FileOf
           names == request.names
           listed == [k \in 1 .. Len(names) |-> <<names[k], request.split>>]
           extra == request.extra
<1>1. /\ names \in Seq(ToSet(names)) /\ extra \in Seq(D)
      /\ \A n \in ToSet(names) : <<n, request.split>> \in D
  BY MainAssumption
<1>2. listed \in Seq(D) /\ ToSet(listed) = {<<n, request.split>> : n \in ToSet(names)}
  <2> HIDE DEF names, D
  <2>1. Len(names) \in Nat /\ DOMAIN names = 1 .. Len(names)
    BY <1>1
  <2>2. \A k \in 1 .. Len(names) : names[k] \in ToSet(names)
    BY <2>1 DEF ToSet
  <2>3. listed \in Seq(D)
    BY <1>1, <2>1, <2>2, IsASeq
  <2>4. ToSet(listed) = {listed[k] : k \in 1 .. Len(names)}
    BY DEF ToSet
  <2>5. QED
    BY <2>1, <2>3, <2>4 DEF ToSet
<1> HIDE DEF D, listed, extra
<1>3. listed \o extra \in Seq(D) /\ ToSet(listed \o extra) = ToSet(listed) \cup ToSet(extra)
  <2>1. listed \o extra \in Seq(D)
    BY <1>1, <1>2, ConcatProperties
  <2>2. QED
    BY <1>1, <1>2, <2>1, ToSetConcat
<1>4. EvalJobs = FoldLeft(Once, <<>>, listed \o extra)
  BY DEF EvalJobs, listed, extra, names
<1>5. QED
  BY <1>2, <1>3, <1>4, FoldOnce DEF D, extra

-----------------------------------------------------------------------------
(* The jobs and their files. *)

Asking == {"ask", "askBind"}
JobFile(k) == FileOf[EvalJobs[k]]
Settled(k) == Enough(JobFile(k)) \/ \E l \in reported : JobFile(l) = JobFile(k)
Times(f, id) ==
    files[f][[id |-> id, ok |-> TRUE]] + files[f][[id |-> id, ok |-> FALSE]] + Held(f, id)

\* A file whose last line is still cut short is as the run found it (or is to be deleted);
\* no file falls behind what it held by more than the cut line cost.
DiskInv ==
    /\ files \in [Files -> [Record -> Nat]] /\ tail \in [Files -> LastLine]
    /\ earlier \in [Files -> FileState] /\ cap \in Nat
    /\ \A f \in Files : /\ Count(f) + Damage(f) >= Before(f)
                        /\ ~tail[f].whole => \/ overwrite
                                             \/ Damage(f) = 2 /\ Count(f) >= Before(f)

\* What the current job is still to ask is not in its file, and makes up what it must leave
\* there; the earlier jobs on other files are settled (one on the same file may just have
\* been deleted, with --overwrite).
Slack(f) == IF tail[f].whole THEN Damage(f) ELSE 0
AskingInv ==
    /\ job <= Len(EvalJobs)
    /\ todo \subseteq Samples[File] /\ todo \cap Recorded(File) = {}
    /\ overwrite => tail[File].whole
    /\ Count(File) + Cardinality(todo) + Slack(File) >= Wanted(File)
    /\ \A k \in 1 .. (job - 1) : JobFile(k) # File => Settled(k)

AllSettled == \A k \in 1 .. Len(EvalJobs) : Settled(k)

JobInv ==
    /\ request \in Requests /\ DiskInv
    /\ exit \in {0, 1} /\ (exit = 1 <=> reported # {})
    /\ pc \in Evaluating => job \in Nat \ {0}
    /\ pc \in Asking => AskingInv
    /\ pc = "job" => \A k \in 1 .. (job - 1) : Settled(k)
    /\ pc \in Analysing => AllSettled
    /\ pc \in {"finally", "done"} => AllSettled \/ (strict /\ reported # {})

(* What a step may do to the jobs. *)

Same == UNCHANGED <<options, disk, exit, reported>>
Noting(id, ok) ==
    /\ pc \in Asking /\ id \in todo /\ Write(id, ok) /\ todo' = todo \ {id} /\ pc' = "ask"
    /\ UNCHANGED <<options, job, exit, reported>>
Failing == pc \in Asking /\ Fail /\ UNCHANGED <<options, disk>>
Still == Same /\ UNCHANGED <<job, todo>> /\ (pc' = pc \/ (pc \in Asking /\ pc' \in Asking))
Leaving == Same /\ pc = "job" /\ ~MoreJobs /\ pc' \in {"analysis", "finally"}
Later == /\ Same /\ pc \in Analysing \cup {"finally"}
         /\ pc' = "done" \/ (pc \in Analysing /\ pc' \in Analysing \cup {"finally"})

LEMMA CallFailsKinds ==
    ASSUME NEW id, id \in todo, pc \in Asking, CallFails(id), UNCHANGED options
    PROVE  (\E ok \in BOOLEAN : Noting(id, ok)) \/ Failing
<1>1. CASE strict
  BY <1>1 DEF CallFails, Failing
<1>2. CASE ~strict
  BY <1>2 DEF CallFails, Noting
<1>3. QED
  BY <1>1, <1>2

LEMMA JobKinds ==
    ASSUME [Next]_vars
    PROVE  \/ StartJob \/ EndJob \/ Failing \/ Still \/ Leaving \/ Later
           \/ \E id \in todo, ok \in BOOLEAN : Noting(id, ok)
<1> DEFINE Kinds == \/ StartJob \/ EndJob \/ Failing \/ Still \/ Leaving \/ Later
                    \/ \E id \in todo, ok \in BOOLEAN : Noting(id, ok)
<1> SUFFICES Kinds
  OBVIOUS
<1>1. CASE DatasetFails
  BY <1>1 DEF DatasetFails, Failing, Asking
<1>2. CASE AskBind
  <2>1. CASE badSampling
    BY <1>2, <2>1, CallFailsKinds DEF AskBind, Asking
  <2>2. CASE ~badSampling
    BY <1>2, <2>2 DEF AskBind, Still, Same, Asking
  <2>3. QED
    BY <2>1, <2>2
<1>3. ASSUME NEW id \in todo, Ask(id) PROVE Kinds
  <2>1. pc \in Asking /\ UNCHANGED options
    BY <1>3 DEF Ask, Asking
  <2>2. CASE CallFails(id)
    BY <2>1, <2>2, CallFailsKinds
  <2>3. CASE ~CallFails(id)
    <3>1. Noting(id, TRUE)
      BY <1>3, <2>1, <2>3 DEF Ask, Noting
    <3>2. QED
      BY <3>1
  <2>4. QED
    BY <2>2, <2>3
<1>4. ASSUME NEW id \in todo, AskUnloadable(id) PROVE Kinds
  BY <1>4, CallFailsKinds DEF AskUnloadable, Asking
<1>5. CASE Construct
  <2>1. CASE pc = "ask"
    BY <1>5, <2>1 DEF Construct, Still, Same, Asking
  <2>2. CASE pc # "ask"
    BY <1>5, <2>2 DEF Construct, Later, Same, Analysing
  <2>3. QED
    BY <2>1, <2>2
<1>6. CASE SkipAnalysis \/ StartAnalysis
  BY <1>6 DEF SkipAnalysis, StartAnalysis, Leaving, Same
<1>7. CASE Analyse \/ AnalysisFails \/ EndDataset \/ Aggregate \/ CloseAnalysis
  BY <1>7 DEF Analyse, AnalysisFails, EndDataset, Aggregate, CloseAnalysis, Later, Same, Analysing
<1>8. CASE CaptureBind
  BY <1>8, CaptureFailsStep DEF CaptureBind, Later, Same, Analysing
<1>9. ASSUME NEW id \in todo, Capture(id) \/ CaptureUnloadable(id) PROVE Kinds
  BY <1>9, CaptureFailsStep DEF Capture, CaptureUnloadable, Later, Same, Analysing
<1>10. CASE Finally
  BY <1>10 DEF Finally, Later, Same
<1>11. CASE UNCHANGED vars
  <2>1. Still
    <3>1. UNCHANGED <<options, disk, pc, job, todo, exit, reported>>
      BY <1>11 DEF vars
    <3>2. QED
      BY <3>1 DEF Still, Same
  <2>2. QED
    BY <2>1
<1>12. StartJob \/ EndJob => Kinds
  OBVIOUS
<1> HIDE DEF Kinds
<1>13. CASE JobStep
  BY <1>1, <1>2, <1>3, <1>4, <1>12, <1>13 DEF JobStep
<1>14. CASE AnalysisStep
  BY <1>6, <1>7, <1>8, <1>9, <1>14 DEF AnalysisStep
<1>15. QED
  BY <1>5, <1>10, <1>11, <1>13, <1>14 DEF Next, Finished


LEMMA FileOfJob ==
    ASSUME request \in Requests, NEW k \in 1 .. Len(EvalJobs)
    PROVE  JobFile(k) \in Files
<1>1. EvalJobs[k] \in DOMAIN FileOf
  BY JobsAre, ElementOfSeq
<1>2. QED
  BY <1>1, MainAssumption DEF JobFile

(* The records of a file and their number. *)

LEMMA TailIs ==
    ASSUME NEW t \in LastLine
    PROVE  /\ t.whole \in BOOLEAN /\ t.held \subseteq Record /\ (t.whole => t.held = {})
           /\ \E x : \A r \in t.held : r.id = x
BY DEF LastLine

LEMMA WholeIs == Whole \in LastLine /\ Whole.whole /\ Whole.held = {}
BY DEF Whole, LastLine

LEMMA Typed ==
    ASSUME files \in [Files -> [Record -> Nat]], NEW f \in Files, NEW id \in Ids,
           tail \in [Files -> LastLine]
    PROVE  /\ \A ok \in BOOLEAN : files[f][[id |-> id, ok |-> ok]] \in Nat
           /\ Times(f, id) \in Nat
           /\ id \in Recorded(f) <=> Times(f, id) > 0
<1>1. \A ok \in BOOLEAN : files[f][[id |-> id, ok |-> ok]] \in Nat
  BY DEF Record
<1>2. id \in Recorded(f) <=> \/ files[f][[id |-> id, ok |-> TRUE]] > 0
                             \/ files[f][[id |-> id, ok |-> FALSE]] > 0
                             \/ Held(f, id) = 1
  <2>1. tail[f].held \subseteq Record
    BY TailIs
  <2>2. \A r \in Record : r.id = id => r = [id |-> id, ok |-> TRUE] \/ r = [id |-> id, ok |-> FALSE]
    BY DEF Record
  <2>3. \A ok \in BOOLEAN : [id |-> id, ok |-> ok] \in Record /\ [id |-> id, ok |-> ok].id = id
    BY DEF Record
  <2>4. id \in Recorded(f) <=> \E r \in Record : r.id = id /\ (files[f][r] > 0 \/ r \in tail[f].held)
    BY DEF Recorded
  <2>5. Held(f, id) = 1 <=> \E r \in tail[f].held : r.id = id
    BY DEF Held
  <2>6. QED
    BY <2>1, <2>2, <2>3, <2>4, <2>5
<1>3. PICK t \in Nat, u \in Nat : /\ t = files[f][[id |-> id, ok |-> TRUE]]
                                  /\ u = files[f][[id |-> id, ok |-> FALSE]]
  BY <1>1
<1>4. PICK h \in {0, 1} : h = Held(f, id)
  BY DEF Held
<1>5. Times(f, id) = t + u + h
  BY <1>3, <1>4, Zenon DEF Times
<1>6. id \in Recorded(f) <=> t > 0 \/ u > 0 \/ h = 1
  BY <1>2, <1>3, <1>4, Zenon
<1>7. QED
  BY <1>1, <1>5, <1>6

\* An append: to a whole line it adds the record, onto a cut one it costs what that held.
Appended(f, id) ==
    /\ files' \in [Files -> [Record -> Nat]] /\ tail' \in [Files -> LastLine]
    /\ tail'[f].whole
    /\ tail[f].whole => Recorded(f)' = Recorded(f) \cup {id}
    /\ ~tail[f].whole => /\ Recorded(f)' \subseteq Recorded(f)
                         /\ \E x : Recorded(f) \ {x} \subseteq Recorded(f)'
    /\ \A g \in Files : g # f => tail'[g] = tail[g] /\ Recorded(g)' = Recorded(g)
    /\ tail[f].whole => Times(f, id)' = Times(f, id) + 1
    /\ \A g \in Files, i \in Ids :
         ~tail[f].whole \/ g # f \/ i # id => Times(g, i)' <= Times(g, i)

LEMMA Written ==
    ASSUME files \in [Files -> [Record -> Nat]], tail \in [Files -> LastLine],
           NEW f \in Files, f = File, NEW id \in Ids, NEW ok \in BOOLEAN, Write(id, ok)
    PROVE  Appended(f, id)
<1> DEFINE r == [id |-> id, ok |-> ok]
<1>1. CASE tail[f].whole
  <2>1. r \in Record
    BY DEF Record
  <2>2. files' = [files EXCEPT ![f][r] = @ + 1] /\ tail' = tail
    BY <1>1 DEF Write
  <2> HIDE DEF r
  <2>3. files' \in [Files -> [Record -> Nat]]
    BY <2>1, <2>2
  <2>4. files'[f][r] = files[f][r] + 1 /\ files[f][r] \in Nat
    BY <2>1, <2>2
  <2>5. \A g \in Files, x \in Record : g # f \/ x # r => files'[g][x] = files[g][x]
    BY <2>1, <2>2
  <2>6. \A i \in Ids, o \in BOOLEAN : /\ [id |-> i, ok |-> o] \in Record
                                      /\ [id |-> i, ok |-> o] = r <=> i = id /\ o = ok
    BY DEF Record, r
  <2>7. \A g \in Files, i \in Ids : g # f \/ i # id =>
          \A o \in BOOLEAN : files'[g][[id |-> i, ok |-> o]] = files[g][[id |-> i, ok |-> o]]
    BY <2>5, <2>6
  <2>8. \A g, i : Held(g, i)' = Held(g, i)
    BY <2>2 DEF Held
  <2>9. \A g \in Files, i \in Ids : g # f \/ i # id => Times(g, i)' = Times(g, i)
    BY <2>7, <2>8 DEF Times
  <2>10. Times(f, id)' = Times(f, id) + 1
    <3>1. PICK t \in Nat, u \in Nat : /\ t = files[f][[id |-> id, ok |-> TRUE]]
                                      /\ u = files[f][[id |-> id, ok |-> FALSE]]
      BY Typed
    <3>2. PICK h \in Nat : h = Held(f, id)
      BY DEF Held
    <3>3. CASE ok = TRUE
      <4>1. files'[f][[id |-> id, ok |-> TRUE]] = t + 1
            /\ files'[f][[id |-> id, ok |-> FALSE]] = u
        BY <2>4, <2>5, <2>6, <3>1, <3>3
      <4>2. Times(f, id)' = (t + 1) + u + h /\ Times(f, id) = t + u + h
        BY <2>8, <3>1, <3>2, <4>1, Zenon DEF Times
      <4>3. QED
        BY <4>2
    <3>4. CASE ok = FALSE
      <4>1. files'[f][[id |-> id, ok |-> FALSE]] = u + 1
            /\ files'[f][[id |-> id, ok |-> TRUE]] = t
        BY <2>4, <2>5, <2>6, <3>1, <3>4
      <4>2. Times(f, id)' = t + (u + 1) + h /\ Times(f, id) = t + u + h
        BY <2>8, <3>1, <3>2, <4>1, Zenon DEF Times
      <4>3. QED
        BY <4>2
    <3>5. QED
      BY <3>3, <3>4
  <2>11. \A g \in Files : g # f => Recorded(g)' = Recorded(g)
    <3>1. \A g \in Files : g # f => \A x \in Record : files'[g][x] = files[g][x]
      BY <2>5
    <3>2. QED
      BY <2>2, <3>1 DEF Recorded
  <2>12. Recorded(f)' = Recorded(f) \cup {id}
    <3>1. \A x \in Record : x # r => files'[f][x] = files[f][x]
      BY <2>5
    <3>2. r.id = id /\ files'[f][r] > 0
      BY <2>4 DEF r
    <3>3. Recorded(f) = {i \in Ids : \E x \in Record : x.id = i /\ (files[f][x] > 0 \/ x \in tail[f].held)}
      BY DEF Recorded
    <3>4. Recorded(f)' = {i \in Ids : \E x \in Record : x.id = i /\ (files'[f][x] > 0 \/ x \in tail[f].held)}
      BY <2>2 DEF Recorded
    <3>5. \A x \in Record : files[f][x] > 0 => files'[f][x] > 0
      BY <2>4, <3>1
    <3>6. QED
      BY <2>1, <3>1, <3>2, <3>3, <3>4, <3>5
  <2>13. \A g \in Files, i \in Ids : g # f \/ i # id => Times(g, i)' <= Times(g, i)
    <3> TAKE g \in Files, i \in Ids
    <3> HAVE g # f \/ i # id
    <3>1. PICK n \in Nat : n = Times(g, i)
      BY Typed
    <3>2. QED
      BY <2>9, <3>1
  <2>14. QED
    BY <1>1, <2>2, <2>3, <2>10, <2>11, <2>12, <2>13 DEF Appended
<1>2. CASE ~tail[f].whole
  <2>1. files' = files /\ tail' = [tail EXCEPT ![f] = Whole]
    BY <1>2 DEF Write
  <2>2. /\ tail' \in [Files -> LastLine] /\ tail'[f] = Whole
        /\ \A g \in Files : g # f => tail'[g] = tail[g]
    BY <2>1, WholeIs
  <2>3. \A g \in Files : g # f => Recorded(g)' = Recorded(g)
    BY <2>1, <2>2 DEF Recorded
  <2>4. Recorded(f) = {i \in Ids : \E x \in Record : x.id = i /\ (files[f][x] > 0 \/ x \in tail[f].held)}
    BY DEF Recorded
  <2>5. Recorded(f)' = {i \in Ids : \E x \in Record : x.id = i /\ files[f][x] > 0}
    BY <2>1, <2>2, WholeIs DEF Recorded
  <2>6. PICK x : \A q \in tail[f].held : q.id = x
    BY TailIs
  <2>7. Recorded(f)' \subseteq Recorded(f) /\ Recorded(f) \ {x} \subseteq Recorded(f)'
    BY <2>4, <2>5, <2>6
  <2>8. \A g \in Files, i \in Ids : Held(g, i)' <= Held(g, i)
    BY <2>2, WholeIs DEF Held
  <2>9. \A g \in Files, i \in Ids : Times(g, i)' <= Times(g, i)
    <3> TAKE g \in Files, i \in Ids
    <3>1. PICK t \in Nat, u \in Nat : /\ t = files[g][[id |-> i, ok |-> TRUE]]
                                      /\ u = files[g][[id |-> i, ok |-> FALSE]]
      BY Typed
    <3>2. PICK h \in Nat, k \in Nat : h = Held(g, i) /\ k = Held(g, i)'
      <4>1. Held(g, i) \in {0, 1}
        BY DEF Held
      <4>2. Held(g, i)' \in {0, 1}
        BY DEF Held
      <4>3. QED
        BY <4>1, <4>2
    <3>3. Times(g, i) = t + u + h /\ Times(g, i)' = t + u + k
      BY <2>1, <3>1, <3>2, Zenon DEF Times
    <3>4. QED
      BY <2>8, <3>2, <3>3
  <2>10. QED
    BY <1>2, <2>1, <2>2, <2>3, <2>7, <2>9, WholeIs DEF Appended
<1>3. QED
  BY <1>1, <1>2

LEMMA Deleted ==
    ASSUME files \in [Files -> [Record -> Nat]], tail \in [Files -> LastLine],
           NEW f \in Files, f = File, Delete
    PROVE  /\ files' \in [Files -> [Record -> Nat]] /\ tail' \in [Files -> LastLine]
           /\ Recorded(f)' = IF overwrite THEN {} ELSE Recorded(f)
           /\ tail'[f].whole <=> overwrite \/ tail[f].whole
           /\ \A g \in Files : g # f => tail'[g] = tail[g] /\ Recorded(g)' = Recorded(g)
           /\ \A g \in Files, i \in Ids : Times(g, i)' = Times(g, i) \/ Times(g, i)' = 0
<1>1. Empty \in [Record -> Nat] /\ \A x \in Record : Empty[x] = 0
  BY DEF Empty
<1>2. CASE overwrite
  <2>1. files' = [files EXCEPT ![f] = Empty] /\ tail' = [tail EXCEPT ![f] = Whole]
    BY <1>2 DEF Delete
  <2>2. /\ files' \in [Files -> [Record -> Nat]] /\ files'[f] = Empty
        /\ \A g \in Files : g # f => files'[g] = files[g] /\ tail'[g] = tail[g]
        /\ tail' \in [Files -> LastLine] /\ tail'[f] = Whole
    BY <1>1, <2>1, WholeIs
  <2>3. Recorded(f)' = {}
    BY <1>1, <2>2, WholeIs DEF Recorded
  <2>4. \A g \in Files : g # f => Recorded(g)' = Recorded(g)
    BY <2>2 DEF Recorded
  <2>5. ASSUME NEW g \in Files, NEW i \in Ids PROVE Times(g, i)' = Times(g, i) \/ Times(g, i)' = 0
    <3>1. CASE g = f
      <4>1. files'[g][[id |-> i, ok |-> TRUE]] = 0 /\ files'[g][[id |-> i, ok |-> FALSE]] = 0
        BY <1>1, <2>2, <3>1 DEF Record
      <4>2. Held(g, i)' = 0
        BY <2>2, <3>1, WholeIs DEF Held
      <4>3. QED
        BY <4>1, <4>2 DEF Times
    <3>2. CASE g # f
      BY <2>2, <3>2 DEF Times, Held
    <3>3. QED
      BY <3>1, <3>2
  <2>6. QED
    BY <1>2, <2>2, <2>3, <2>4, <2>5, WholeIs
<1>3. CASE ~overwrite
  <2>1. files' = files /\ tail' = tail /\ tail[f].whole \in BOOLEAN
    BY <1>3, TailIs DEF Delete
  <2>2. QED
    BY <1>3, <2>1 DEF Recorded, Times, Held
<1>4. QED
  BY <1>2, <1>3

LEMMA Sizes ==
    ASSUME cap \in Nat, NEW f \in Files
    PROVE  /\ Count(f) \in Nat /\ Before(f) \in Nat /\ Cardinality(Samples[f]) \in Nat
           /\ Damage(f) \in {0, 2} /\ (overwrite => Damage(f) = 0 /\ Before(f) = 0)
           /\ Wanted(f) \in Nat /\ Wanted(f) <= Before(f) + cap /\ Wanted(f) <= Cardinality(Samples[f])
<1>1. IsFiniteSet(Samples[f])
  BY MainAssumption
<1>2. \A T : IsFiniteSet(Samples[f] \cap T) /\ Cardinality(Samples[f] \cap T) \in Nat
  <2> TAKE T
  <2>1. Samples[f] \cap T \in SUBSET Samples[f]
    OBVIOUS
  <2>2. QED
    BY <1>1, <2>1, FS_Subset, FS_CardinalityType
<1>3. Count(f) \in Nat /\ Before(f) \in Nat /\ Cardinality(Samples[f]) \in Nat
  BY <1>1, <1>2, FS_CardinalityType DEF Count, Before
<1>4. Damage(f) \in {0, 2} /\ (overwrite => Damage(f) = 0 /\ Before(f) = 0)
  BY DEF Damage, Before
<1>5. QED
  BY <1>3, <1>4 DEF Wanted

\* The number of samples recorded follows the set of them.
LEMMA CountSame ==
    ASSUME NEW f, Recorded(f)' = Recorded(f)
    PROVE  Count(f)' = Count(f)
BY DEF Count

LEMMA CountMore ==
    ASSUME NEW f \in Files, NEW id \in Samples[f], id \notin Recorded(f),
           Recorded(f)' = Recorded(f) \cup {id}
    PROVE  Count(f)' = Count(f) + 1
<1> DEFINE S == Samples[f] \cap Recorded(f)
<1>1. Samples[f] \cap Recorded(f)' = S \cup {id} /\ id \notin S /\ S \in SUBSET Samples[f]
  OBVIOUS
<1>2. IsFiniteSet(S)
  BY <1>1, MainAssumption, FS_Subset
<1> HIDE DEF S
<1>3. Cardinality(S \cup {id}) = Cardinality(S) + 1
  BY <1>1, <1>2, FS_AddElement
<1>4. Count(f) = Cardinality(S) /\ Count(f)' = Cardinality(S \cup {id})
  BY <1>1, Zenon DEF Count, S
<1>5. QED
  BY <1>3, <1>4

LEMMA CountLess ==
    ASSUME cap \in Nat, NEW f \in Files, NEW x, Recorded(f) \ {x} \subseteq Recorded(f)',
           Recorded(f)' \subseteq Recorded(f)
    PROVE  Count(f)' \in Nat /\ Count(f)' >= Count(f) - 1
<1> DEFINE S == Samples[f] \cap Recorded(f)
           T == Samples[f] \cap Recorded(f)'
<1>1. S \ {x} \in SUBSET T /\ T \in SUBSET Samples[f] /\ S \in SUBSET Samples[f]
  OBVIOUS
<1>2. IsFiniteSet(S) /\ IsFiniteSet(T) /\ Cardinality(S) \in Nat /\ Cardinality(T) \in Nat
  BY <1>1, MainAssumption, FS_Subset, FS_CardinalityType
<1>3. Count(f) = Cardinality(S) /\ Count(f)' = Cardinality(T)
  BY Zenon DEF Count
<1> HIDE DEF S, T
<1>4. Cardinality(S \ {x}) <= Cardinality(T)
  BY <1>1, <1>2, FS_Subset
<1>5. Cardinality(S \ {x}) = Cardinality(S) \/ Cardinality(S \ {x}) = Cardinality(S) - 1
  BY <1>2, FS_RemoveElement
<1>6. QED
  BY <1>2, <1>3, <1>4, <1>5

\* What is required of a file does not change, and holds while its records stay.
LEMMA Fixed ==
    ASSUME UNCHANGED options, NEW f
    PROVE  Before(f)' = Before(f) /\ Damage(f)' = Damage(f) /\ Wanted(f)' = Wanted(f)
BY DEF options, Before, Damage, Wanted

LEMMA EnoughSame ==
    ASSUME UNCHANGED options, NEW f, Recorded(f)' = Recorded(f)
    PROVE  Enough(f)' <=> Enough(f)
BY Fixed, CountSame DEF Enough

\* A settled job stays settled while its file does not change.
LEMMA SettledKept ==
    ASSUME UNCHANGED options, reported \subseteq reported', NEW k, Settled(k),
           Recorded(JobFile(k))' = Recorded(JobFile(k))
    PROVE  Settled(k)'
<1>1. \A l : JobFile(l)' = JobFile(l)
  BY JobsFixed DEF JobFile, options
<1>2. CASE Enough(JobFile(k))
  <2>1. PICK f : f = JobFile(k)
    OBVIOUS
  <2>2. Recorded(f)' = Recorded(f) /\ Enough(f)
    BY <1>1, <1>2, <2>1 DEF Recorded
  <2>3. Enough(f)'
    BY <2>2, EnoughSame
  <2>4. Enough(JobFile(k))'
    BY <1>1, <2>1, <2>3 DEF Enough, Count, Recorded, Damage, Wanted, Before
  <2>5. QED
    BY <2>4 DEF Settled
<1>3. CASE \E l \in reported : JobFile(l) = JobFile(k)
  BY <1>1, <1>3 DEF Settled
<1>4. QED
  BY <1>2, <1>3 DEF Settled

\* A step that touches one file only.
LEMMA DiskInvOthers ==
    ASSUME DiskInv, UNCHANGED options, NEW f \in Files,
           files' \in [Files -> [Record -> Nat]], tail' \in [Files -> LastLine],
           \A g \in Files : g # f => tail'[g] = tail[g] /\ Recorded(g)' = Recorded(g),
           Count(f)' + Damage(f)' >= Before(f)',
           ~tail'[f].whole => overwrite' \/ (Damage(f)' = 2 /\ Count(f)' >= Before(f)')
    PROVE  DiskInv'
<1>1. ASSUME NEW g \in Files
      PROVE  /\ Count(g)' + Damage(g)' >= Before(g)'
             /\ ~tail'[g].whole => overwrite' \/ (Damage(g)' = 2 /\ Count(g)' >= Before(g)')
  <2>1. CASE g = f
    BY <2>1
  <2>2. CASE g # f
    <3>1. Count(g)' = Count(g) /\ Damage(g)' = Damage(g) /\ Before(g)' = Before(g)
      BY <2>2, CountSame, Fixed
    <3>2. tail'[g] = tail[g] /\ overwrite' = overwrite
      BY <2>2 DEF options
    <3>3. QED
      BY <3>1, <3>2 DEF DiskInv
  <2>3. QED
    BY <2>1, <2>2
<1>2. earlier' \in [Files -> FileState] /\ cap' \in Nat
  BY DEF DiskInv, options
<1>3. QED
  BY <1>1, <1>2 DEF DiskInv

LEMMA SettledElsewhere ==
    ASSUME request \in Requests, Len(EvalJobs) \in Nat, job \in 1 .. Len(EvalJobs),
           UNCHANGED options, reported' = reported, NEW f \in Files,
           \A g \in Files : g # f => tail'[g] = tail[g] /\ Recorded(g)' = Recorded(g),
           NEW k \in 1 .. (job - 1), JobFile(k) # f, Settled(k)
    PROVE  Settled(k)'
<1>1. JobFile(k) \in Files
  BY FileOfJob
<1>2. PICK g \in Files : g = JobFile(k)
  BY <1>1
<1>3. JobFile(k)' = JobFile(k)
  BY JobsFixed DEF JobFile, options
<1>4. Recorded(JobFile(k))' = Recorded(g)'
  BY <1>2, <1>3 DEF Recorded
<1>5. QED
  BY <1>2, <1>4, SettledKept

LEMMA TypedAfter ==
    ASSUME files' \in [Files -> [Record -> Nat]], NEW f \in Files, NEW id \in Ids
    PROVE  Times(f, id)' \in Nat
<1>1. \A ok \in BOOLEAN : files'[f][[id |-> id, ok |-> ok]] \in Nat
  BY DEF Record
<1>2. PICK t \in Nat, u \in Nat : /\ t = files'[f][[id |-> id, ok |-> TRUE]]
                                  /\ u = files'[f][[id |-> id, ok |-> FALSE]]
  BY <1>1
<1>3. Held(f, id)' \in {0, 1}
  BY DEF Held
<1>4. PICK h \in {0, 1} : h = Held(f, id)'
  BY <1>3
<1>5. Times(f, id)' = t + u + h
  BY <1>2, <1>4, Zenon DEF Times
<1>6. QED
  BY <1>5

LEMMA JobInvInit == Init => JobInv
<1> SUFFICES ASSUME Init PROVE JobInv
  OBVIOUS
<1>1. /\ earlier \in [Files -> FileState] /\ cap \in Nat
      /\ files = [f \in Files |-> [r \in Record |-> IF r \in earlier[f].lines THEN 1 ELSE 0]]
      /\ tail = [f \in Files |-> earlier[f].tail]
  BY MainAssumption DEF Init
<1>2. files \in [Files -> [Record -> Nat]] /\ tail \in [Files -> LastLine]
  BY <1>1 DEF FileState
<1>3. ASSUME NEW f \in Files
      PROVE  /\ Count(f) + Damage(f) >= Before(f)
             /\ ~tail[f].whole => overwrite \/ (Damage(f) = 2 /\ Count(f) >= Before(f))
  <2>1. CASE overwrite
    <3>1. Before(f) = 0 /\ Damage(f) = 0 /\ Count(f) \in Nat
      BY <1>1, <2>1, Sizes
    <3>2. QED
      BY <2>1, <3>1
  <2>2. CASE ~overwrite
    <3>1. earlier[f].lines \subseteq Record /\ earlier[f].tail.held \subseteq Record
      BY <1>1, TailIs DEF FileState
    <3>2. \A r \in Record : r.id \in Ids
      BY DEF Record
    <3>3. \A r \in Record : files[f][r] > 0 <=> r \in earlier[f].lines
      BY <1>1
    <3>4. Recorded(f) = {i \in Ids : \E r \in Record : r.id = i /\ (files[f][r] > 0 \/ r \in tail[f].held)}
      BY DEF Recorded
    <3>5. Recorded(f) = {r.id : r \in earlier[f].lines \cup earlier[f].tail.held}
      BY <1>1, <3>1, <3>2, <3>3, <3>4
    <3>6. Before(f) = Count(f)
      BY <2>2, <3>5 DEF Before, Count
    <3>7. Damage(f) = IF tail[f].whole THEN 0 ELSE 2
      BY <1>1, <2>2 DEF Damage
    <3>8. Count(f) \in Nat
      BY <1>1, Sizes
    <3>9. QED
      BY <3>6, <3>7, <3>8
  <2>3. QED
    BY <2>1, <2>2
<1>4. DiskInv
  BY <1>1, <1>2, <1>3 DEF DiskInv
<1>5. QED
  BY <1>4 DEF Init, JobInv, Evaluating, Analysing, Asking

\* A step that leaves the files, the reports and the options alone settles and unsettles
\* nothing, and what is left of the current job stays left while todo and job do.
LEMMA SettledSame ==
    ASSUME Same
    PROVE  /\ \A k : Settled(k)' <=> Settled(k)
           /\ AllSettled' <=> AllSettled
           /\ DiskInv => DiskInv'
           /\ UNCHANGED <<job, todo>> /\ AskingInv => AskingInv'
<1>1. /\ request' = request /\ reported' = reported /\ files' = files /\ tail' = tail
      /\ overwrite' = overwrite /\ cap' = cap /\ earlier' = earlier /\ EvalJobs' = EvalJobs
  BY JobsFixed DEF Same, options, disk
<1>2. \A l : JobFile(l)' = JobFile(l)
  BY <1>1 DEF JobFile
<1>3. \A g : /\ Count(g)' = Count(g) /\ Damage(g)' = Damage(g) /\ Before(g)' = Before(g)
             /\ Wanted(g)' = Wanted(g) /\ Slack(g)' = Slack(g) /\ Recorded(g)' = Recorded(g)
  BY <1>1 DEF Recorded, Count, Damage, Before, Wanted, Slack
<1>4. ASSUME NEW k PROVE Settled(k)' <=> Settled(k)
  <2>1. Enough(JobFile(k))' <=> Enough(JobFile(k))
    BY <1>1, <1>2 DEF Enough, Recorded, Count, Damage, Before, Wanted
  <2>2. QED
    BY <1>1, <1>2, <2>1 DEF Settled
<1>5. AllSettled' <=> AllSettled
  BY <1>1, <1>4 DEF AllSettled
<1>6. DiskInv => DiskInv'
  BY <1>1, <1>3 DEF DiskInv
<1>7. ASSUME UNCHANGED <<job, todo>>, AskingInv PROVE AskingInv'
  <2>1. File' = File
    BY <1>1, <1>7 DEF File
  <2>2. /\ Recorded(File)' = Recorded(File) /\ Count(File)' = Count(File)
        /\ Slack(File)' = Slack(File) /\ Wanted(File)' = Wanted(File)
    BY <1>1, <2>1 DEF Recorded, Count, Damage, Before, Wanted, Slack
  <2>3. \A k \in 1 .. (job - 1) : JobFile(k)' # File' => Settled(k)'
    BY <1>2, <1>4, <1>7, <2>1 DEF AskingInv
  <2>4. QED
    BY <1>1, <1>7, <2>1, <2>2, <2>3 DEF AskingInv
<1>8. QED
  BY <1>4, <1>5, <1>6, <1>7

LEMMA AllSettledAfter ==
    ASSUME request \in Requests, job \in Nat \ {0}, ~MoreJobs, \A k \in 1 .. (job - 1) : Settled(k)
    PROVE  AllSettled
<1>1. Len(EvalJobs) \in Nat
  BY JobsAre, LenProperties
<1>2. 1 .. Len(EvalJobs) \subseteq 1 .. (job - 1)
  BY <1>1 DEF MoreJobs
<1>3. QED
  BY <1>2 DEF AllSettled

LEMMA JobInvSame ==
    ASSUME JobInv, Still \/ Leaving \/ Later
    PROVE  JobInv'
<1>1. /\ Same
      /\ request' = request /\ exit' = exit /\ reported' = reported /\ strict' = strict
  BY DEF Still, Leaving, Later, Same, options
<1>2. CASE Still
  <2>1. CASE pc \in Asking /\ pc' \in Asking
    BY <1>1, <1>2, <2>1, SettledSame DEF JobInv, Still, Asking, Evaluating, Analysing
  <2>2. CASE pc' = pc
    BY <1>1, <1>2, <2>2, SettledSame DEF JobInv, Still
  <2>3. QED
    BY <1>2, <2>1, <2>2 DEF Still
<1>3. CASE Leaving
  <2>1. AllSettled
    BY <1>3, AllSettledAfter DEF JobInv, Leaving, Evaluating
  <2>2. QED
    BY <1>1, <1>3, <2>1, SettledSame DEF JobInv, Leaving, Asking, Evaluating, Analysing
<1>4. CASE Later
  BY <1>1, <1>4, SettledSame DEF JobInv, Later, Asking, Evaluating, Analysing
<1>5. QED
  BY <1>2, <1>3, <1>4

\* The samples admitted make up what the job must leave in its file, together with those
\* that are there.
LEMMA AdmitsEnough ==
    ASSUME DiskInv, NEW f \in Files, UNCHANGED options,
           Recorded(f)' = IF overwrite THEN {} ELSE Recorded(f),
           tail'[f].whole <=> overwrite \/ tail[f].whole,
           NEW U, U = Samples[f] \ Recorded(f)', Admit(U)
    PROVE  /\ Count(f)' \in Nat
           /\ Count(f)' + Damage(f)' >= Before(f)'
           /\ ~tail'[f].whole => overwrite' \/ (Damage(f)' = 2 /\ Count(f)' >= Before(f)')
           /\ todo' \subseteq Samples[f] /\ todo' \cap Recorded(f)' = {}
           /\ Count(f)' + Cardinality(todo') + Slack(f)' >= Wanted(f)'
<1>1. /\ cap \in Nat /\ Count(f) + Damage(f) >= Before(f)
      /\ ~tail[f].whole => overwrite \/ (Damage(f) = 2 /\ Count(f) >= Before(f))
      /\ overwrite' = overwrite
  BY DEF DiskInv, options
<1>2. PICK b \in Nat, d \in {0, 2}, w \in Nat, s \in Nat :
        /\ b = Before(f) /\ d = Damage(f) /\ w = Wanted(f) /\ s = Cardinality(Samples[f])
        /\ w <= b + cap /\ w <= s
        /\ overwrite => b = 0 /\ d = 0
  BY <1>1, Sizes
<1>3. Before(f)' = b /\ Damage(f)' = d /\ Wanted(f)' = w
  BY <1>2, Fixed
<1>4. PICK c \in Nat : c = Count(f)' /\ (overwrite => c = 0) /\ (~overwrite => c = Count(f))
  <2>1. CASE overwrite
    <3>1. Samples[f] \cap Recorded(f)' = {}
      BY <2>1
    <3>2. QED
      BY <2>1, <3>1, FS_EmptySet DEF Count
  <2>2. CASE ~overwrite
    BY <1>1, <2>2, CountSame, Sizes
  <2>3. QED
    BY <2>1, <2>2
<1>5. /\ c + d >= b
      /\ ~tail'[f].whole => ~overwrite /\ d = 2 /\ c >= b
  <2>1. CASE overwrite
    BY <1>2, <1>4, <2>1
  <2>2. CASE ~overwrite
    <3>1. c + d >= b /\ (~tail[f].whole => d = 2 /\ c >= b)
      BY <1>1, <1>2, <1>4, <2>2
    <3>2. QED
      BY <2>2, <3>1
  <2>3. QED
    BY <2>1, <2>2
<1>6. PICK e \in Nat : e = Slack(f)' /\ (tail'[f].whole => e = d)
  BY <1>2, <1>3 DEF Slack
<1>7. todo' \subseteq U /\ (todo' = U \/ Cardinality(todo') = cap)
  BY DEF Admit
<1>8. PICK n \in Nat : n = Cardinality(todo') /\ (n = cap \/ c + n = s)
  <2>1. IsFiniteSet(Samples[f]) /\ U \in SUBSET Samples[f]
    BY MainAssumption
  <2>2. IsFiniteSet(U) /\ Cardinality(U) \in Nat
    BY <2>1, FS_Subset, FS_CardinalityType
  <2>3. CASE Cardinality(todo') = cap
    BY <1>1, <2>3
  <2>4. CASE todo' = U
    <3> DEFINE C == Samples[f] \cap Recorded(f)'
    <3>1. C \in SUBSET Samples[f] /\ Samples[f] = C \cup U /\ C \cap U = {}
      OBVIOUS
    <3>2. IsFiniteSet(C) /\ Cardinality(C) \in Nat
      BY <2>1, <3>1, FS_Subset, FS_CardinalityType
    <3>3. c = Cardinality(C)
      BY <1>4, Zenon DEF Count
    <3> HIDE DEF C
    <3>4. Cardinality(Samples[f]) = Cardinality(C) + Cardinality(U)
      <4>1. Cardinality(C \cup U) = Cardinality(C) + Cardinality(U) - Cardinality(C \cap U)
        BY <2>2, <3>2, FS_Union
      <4>2. Cardinality(C \cap U) = 0
        BY <3>1, FS_EmptySet
      <4>3. Cardinality(Samples[f]) = Cardinality(C \cup U)
        BY <3>1, Zenon
      <4>4. QED
        BY <2>2, <3>2, <4>1, <4>2, <4>3
    <3>5. QED
      BY <1>2, <2>2, <2>4, <3>3, <3>4
  <2>5. QED
    BY <1>7, <2>3, <2>4
<1>9. c + n + e >= w
  <2>1. CASE tail'[f].whole
    BY <1>1, <1>2, <1>5, <1>6, <1>8, <2>1
  <2>2. CASE ~tail'[f].whole
    BY <1>1, <1>2, <1>5, <1>6, <1>8, <2>2
  <2>3. QED
    BY <2>1, <2>2
<1>10. QED
  BY <1>1, <1>3, <1>4, <1>5, <1>6, <1>7, <1>8, <1>9

LEMMA JobInvStart ==
    ASSUME JobInv, StartJob
    PROVE  JobInv'
<1>1. /\ pc = "job" /\ job \in Nat \ {0} /\ request \in Requests /\ job <= Len(EvalJobs)
      /\ DiskInv /\ \A k \in 1 .. (job - 1) : Settled(k)
  BY DEF JobInv, StartJob, MoreJobs, Evaluating
<1>2. /\ UNCHANGED options /\ UNCHANGED <<request, job, exit, reported>> /\ pc' = "ask"
      /\ EvalJobs' = EvalJobs /\ Delete
      /\ Admit(Samples[File] \ (IF overwrite THEN {} ELSE Recorded(File)))
  BY JobsFixed DEF StartJob, options
<1>3. job \in 1 .. Len(EvalJobs) /\ Len(EvalJobs) \in Nat
  BY <1>1, JobsAre, LenProperties
<1>4. PICK f \in Files : f = File
  BY <1>1, <1>3, FileOfJob DEF File, JobFile
<1>5. /\ files' \in [Files -> [Record -> Nat]] /\ tail' \in [Files -> LastLine]
      /\ Recorded(f)' = IF overwrite THEN {} ELSE Recorded(f)
      /\ tail'[f].whole <=> overwrite \/ tail[f].whole
      /\ \A g \in Files : g # f => tail'[g] = tail[g] /\ Recorded(g)' = Recorded(g)
  BY <1>1, <1>2, <1>4, Deleted DEF DiskInv
<1>6. File' = f /\ \A l : JobFile(l)' = JobFile(l)
  BY <1>2, <1>4 DEF File, JobFile
<1>7. Admit(Samples[f] \ Recorded(f)')
  BY <1>2, <1>4, <1>5
<1>8. /\ Count(f)' + Damage(f)' >= Before(f)'
      /\ ~tail'[f].whole => overwrite' \/ (Damage(f)' = 2 /\ Count(f)' >= Before(f)')
      /\ todo' \subseteq Samples[f] /\ todo' \cap Recorded(f)' = {}
      /\ Count(f)' + Cardinality(todo') + Slack(f)' >= Wanted(f)'
  BY <1>1, <1>2, <1>5, <1>7, AdmitsEnough
<1>9. DiskInv'
  BY <1>1, <1>2, <1>5, <1>8, DiskInvOthers
<1>10. ASSUME NEW k \in 1 .. (job - 1), JobFile(k) # f PROVE Settled(k)'
  BY <1>1, <1>2, <1>3, <1>5, <1>10, SettledElsewhere
<1>11. AskingInv'
  <2>1. Recorded(File)' = Recorded(f)' /\ Count(File)' = Count(f)' /\ Wanted(File)' = Wanted(f)'
        /\ Slack(File)' = Slack(f)'
    BY <1>6 DEF Recorded, Count, Wanted, Before, Slack, Damage
  <2>2. \A k \in 1 .. (job' - 1) : JobFile(k)' # File' => Settled(k)'
    BY <1>2, <1>6, <1>10
  <2>3. overwrite' => tail'[f].whole
    BY <1>2, <1>5 DEF options
  <2>4. QED
    BY <1>1, <1>2, <1>6, <1>8, <2>1, <2>2, <2>3 DEF AskingInv
<1>12. QED
  BY <1>1, <1>2, <1>9, <1>11 DEF JobInv, Asking, Evaluating, Analysing

LEMMA JobInvEnd ==
    ASSUME JobInv, EndJob
    PROVE  JobInv'
<1>1. /\ pc = "ask" /\ todo = {} /\ job \in Nat \ {0} /\ AskingInv /\ request \in Requests /\ DiskInv
  BY DEF JobInv, EndJob, Evaluating, Asking
<1>2. /\ Same /\ job' = job + 1 /\ pc' = "job"
      /\ UNCHANGED <<request, exit, reported>>
  BY DEF EndJob, Same, options
<1>3. Enough(File)
  <2>1. job \in 1 .. Len(EvalJobs)
    BY <1>1, JobsAre, LenProperties DEF AskingInv
  <2>2. PICK f \in Files : f = File
    BY <1>1, <2>1, FileOfJob DEF File, JobFile
  <2>3. PICK c \in Nat, d \in {0, 2}, w \in Nat : c = Count(f) /\ d = Damage(f) /\ w = Wanted(f)
    BY <1>1, Sizes DEF DiskInv
  <2>4. Cardinality(todo) = 0
    BY <1>1, FS_EmptySet
  <2>5. c + 0 + Slack(f) >= w /\ Slack(f) \in {0, d}
    BY <1>1, <2>2, <2>3, <2>4 DEF AskingInv, Slack
  <2>6. c + d >= w
    BY <2>3, <2>5
  <2>7. QED
    BY <2>2, <2>3, <2>6 DEF Enough
<1>4. ASSUME NEW k \in 1 .. job PROVE Settled(k)
  <2>1. CASE JobFile(k) = File
    BY <1>3, <2>1 DEF Settled
  <2>2. CASE JobFile(k) # File
    <3>1. k # job
      BY <2>2 DEF JobFile, File
    <3>2. k \in 1 .. (job - 1)
      BY <1>1, <3>1
    <3>3. QED
      BY <1>1, <2>2, <3>2 DEF AskingInv
  <2>3. QED
    BY <2>1, <2>2
<1>5. \A k \in 1 .. (job' - 1) : Settled(k)'
  <2>1. job' - 1 = job
    BY <1>1, <1>2
  <2>2. QED
    BY <1>2, <1>4, <2>1, SettledSame
<1>6. DiskInv'
  BY <1>1, <1>2, SettledSame
<1>7. QED
  BY <1>1, <1>2, <1>5, <1>6 DEF JobInv, Asking, Evaluating, Analysing

LEMMA JobInvFail ==
    ASSUME JobInv, Failing
    PROVE  JobInv'
<1>1. /\ pc \in Asking /\ job \in Nat \ {0} /\ AskingInv /\ DiskInv
  BY DEF JobInv, Failing, Evaluating, Asking
<1>2. /\ UNCHANGED options /\ UNCHANGED <<request, files, tail, strict>>
      /\ exit' = 1 /\ reported' = reported \cup {job}
      /\ IF strict THEN pc' = "finally" /\ UNCHANGED job ELSE pc' = "job" /\ job' = job + 1
  BY DEF Failing, Fail, options, disk
<1>3. ASSUME NEW k \in 1 .. job PROVE Settled(k)'
  <2>1. \A l : JobFile(l)' = JobFile(l)
    BY <1>2, JobsFixed DEF JobFile
  <2>2. CASE JobFile(k) = File
    <3>1. JobFile(job) = JobFile(k)
      BY <2>2 DEF JobFile, File
    <3>2. \E l \in reported' : JobFile(l)' = JobFile(k)'
      BY <1>2, <2>1, <3>1
    <3>3. QED
      BY <3>2 DEF Settled
  <2>3. CASE JobFile(k) # File
    <3>1. k # job
      BY <2>3 DEF JobFile, File
    <3>2. Settled(k)
      <4>1. k \in 1 .. (job - 1)
        BY <1>1, <3>1
      <4>2. QED
        BY <1>1, <2>3, <4>1 DEF AskingInv
    <3>3. Recorded(JobFile(k))' = Recorded(JobFile(k))
      BY <1>2, <2>1 DEF Recorded
    <3>4. QED
      BY <1>2, <3>2, <3>3, SettledKept
  <2>4. QED
    BY <2>2, <2>3
<1>4. DiskInv'
  <2>1. \A f : /\ Count(f)' = Count(f) /\ Damage(f)' = Damage(f) /\ Before(f)' = Before(f)
    BY <1>2, Fixed DEF Count, Recorded
  <2>2. QED
    BY <1>1, <1>2, <2>1 DEF DiskInv, options
<1>5. CASE strict
  BY <1>1, <1>2, <1>4, <1>5 DEF JobInv, Asking, Evaluating, Analysing
<1>6. CASE ~strict
  <2>1. job' = job + 1 /\ pc' = "job" /\ job' - 1 = job
    BY <1>1, <1>2, <1>6
  <2>2. QED
    BY <1>1, <1>2, <1>3, <1>4, <2>1 DEF JobInv, Asking, Evaluating, Analysing
<1>7. QED
  BY <1>5, <1>6

LEMMA JobInvNote ==
    ASSUME JobInv, NEW id \in todo, NEW ok \in BOOLEAN, Noting(id, ok)
    PROVE  JobInv' /\ (AskedOnce => AskedOnce')
<1>1. /\ pc \in Asking /\ job \in Nat \ {0} /\ AskingInv /\ request \in Requests /\ DiskInv
  BY DEF JobInv, Noting, Evaluating, Asking
<1>2. /\ Write(id, ok) /\ todo' = todo \ {id} /\ pc' = "ask" /\ UNCHANGED options
      /\ UNCHANGED <<request, job, exit, reported>> /\ EvalJobs' = EvalJobs
  BY JobsFixed DEF Noting, options
<1>3. Len(EvalJobs) \in Nat /\ job \in 1 .. Len(EvalJobs)
  BY <1>1, JobsAre, LenProperties DEF AskingInv
<1>4. PICK f \in Files : f = File
  BY <1>1, <1>3, FileOfJob DEF File, JobFile
<1>5. id \in Ids /\ id \in Samples[f] /\ id \notin Recorded(f) /\ todo \subseteq Samples[f]
  BY <1>1, <1>4, MainAssumption DEF AskingInv
<1>6. files \in [Files -> [Record -> Nat]] /\ tail \in [Files -> LastLine] /\ cap \in Nat
  BY <1>1 DEF DiskInv
<1>7. /\ files' \in [Files -> [Record -> Nat]] /\ tail' \in [Files -> LastLine]
      /\ tail'[f].whole
      /\ tail[f].whole => Recorded(f)' = Recorded(f) \cup {id}
      /\ ~tail[f].whole => /\ Recorded(f)' \subseteq Recorded(f)
                           /\ \E x : Recorded(f) \ {x} \subseteq Recorded(f)'
      /\ \A g \in Files : g # f => tail'[g] = tail[g] /\ Recorded(g)' = Recorded(g)
      /\ tail[f].whole => Times(f, id)' = Times(f, id) + 1
      /\ \A g \in Files, i \in Ids :
           ~tail[f].whole \/ g # f \/ i # id => Times(g, i)' <= Times(g, i)
  <2>1. Write(id, ok)
    BY <1>2
  <2>2. Appended(f, id)
    BY <1>4, <1>5, <1>6, <2>1, Written
  <2>3. QED
    BY <2>2 DEF Appended
<1>8. File' = f /\ \A l : JobFile(l)' = JobFile(l)
  BY <1>2, <1>4 DEF File, JobFile
<1>9. PICK b \in Nat, d \in {0, 2}, w \in Nat, c \in Nat :
        b = Before(f) /\ d = Damage(f) /\ w = Wanted(f) /\ c = Count(f)
  BY <1>6, Sizes
<1>10. Before(f)' = b /\ Damage(f)' = d /\ Wanted(f)' = w /\ Slack(f)' = d
  BY <1>2, <1>7, <1>9, Fixed DEF Slack
<1>11. PICK n \in Nat : n + 1 = Cardinality(todo) /\ n = Cardinality(todo')
  <2>1. IsFiniteSet(todo) /\ Cardinality(todo) \in Nat
    BY <1>5, MainAssumption, FS_Subset, FS_CardinalityType
  <2>2. IsFiniteSet(todo \ {id}) /\ Cardinality(todo \ {id}) = Cardinality(todo) - 1
    BY <2>1, FS_RemoveElement
  <2>3. Cardinality(todo \ {id}) \in Nat
    BY <2>2, FS_CardinalityType
  <2>4. QED
    BY <1>2, <2>1, <2>2, <2>3
<1>12. PICK e \in Nat : /\ e = Count(f)'
                        /\ tail[f].whole => e = c + 1
                        /\ ~tail[f].whole => e + 1 >= c
  <2>1. CASE tail[f].whole
    BY <1>5, <1>7, <1>9, <2>1, CountMore
  <2>2. CASE ~tail[f].whole
    <3>1. PICK x : Recorded(f) \ {x} \subseteq Recorded(f)'
      BY <1>7, <2>2
    <3>2. Count(f)' \in Nat /\ Count(f)' >= c - 1
      BY <1>6, <1>7, <1>9, <2>2, <3>1, CountLess
    <3>3. QED
      BY <2>2, <3>2
  <2>3. QED
    BY <2>1, <2>2
<1>13. /\ c + d >= b
       /\ ~tail[f].whole => d = 2 /\ c >= b
  BY <1>1, <1>4, <1>9 DEF DiskInv, AskingInv
<1>14. /\ e + d >= b
       /\ e + n + d >= w
  <2>1. CASE tail[f].whole
    <3>1. c + (n + 1) + d >= w
      BY <1>1, <1>4, <1>9, <1>11, <2>1 DEF AskingInv, Slack
    <3>2. QED
      BY <1>12, <1>13, <2>1, <3>1
  <2>2. CASE ~tail[f].whole
    <3>1. c + (n + 1) + 0 >= w
      BY <1>1, <1>4, <1>9, <1>11, <2>2 DEF AskingInv, Slack
    <3>2. QED
      BY <1>12, <1>13, <2>2, <3>1
  <2>3. QED
    BY <2>1, <2>2
<1>15. DiskInv'
  BY <1>1, <1>2, <1>7, <1>10, <1>12, <1>14, DiskInvOthers
<1>16. ASSUME NEW k \in 1 .. (job - 1), JobFile(k) # f PROVE Settled(k)'
  <2>1. Settled(k)
    BY <1>1, <1>4, <1>16 DEF AskingInv
  <2>2. QED
    BY <1>1, <1>2, <1>3, <1>7, <1>16, <2>1, SettledElsewhere
<1>17. AskingInv'
  <2>1. Recorded(File)' = Recorded(f)' /\ Count(File)' = Count(f)' /\ Wanted(File)' = Wanted(f)'
        /\ Slack(File)' = Slack(f)'
    BY <1>8 DEF Recorded, Count, Wanted, Before, Slack, Damage
  <2>2. \A k \in 1 .. (job' - 1) : JobFile(k)' # File' => Settled(k)'
    BY <1>2, <1>8, <1>16
  <2>3. todo' \subseteq Samples[f] /\ todo' \cap Recorded(f)' = {}
    <3>1. Recorded(f)' \subseteq Recorded(f) \cup {id}
      BY <1>7
    <3>2. QED
      BY <1>1, <1>2, <1>4, <3>1 DEF AskingInv
  <2>4. Count(f)' + Cardinality(todo') + Slack(f)' >= Wanted(f)'
    BY <1>10, <1>11, <1>12, <1>14
  <2>5. QED
    BY <1>1, <1>2, <1>7, <1>8, <2>1, <2>2, <2>3, <2>4 DEF AskingInv
<1>18. JobInv'
  BY <1>1, <1>2, <1>15, <1>17 DEF JobInv, Asking, Evaluating, Analysing
<1>19. ASSUME AskedOnce PROVE AskedOnce'
  <2>1. \A g \in Files, i \in Ids : Times(g, i) <= 1
    BY <1>19 DEF AskedOnce, Times
  <2>2. Times(f, id) = 0
    BY <1>5, <1>6, Typed
  <2>3. ASSUME NEW g \in Files, NEW i \in Ids PROVE Times(g, i)' <= 1
    <3>1. CASE tail[f].whole /\ g = f /\ i = id
      <4>1. Times(f, id)' = 0 + 1
        BY <1>7, <2>2, <3>1
      <4>2. QED
        BY <3>1, <4>1
    <3>2. CASE ~(tail[f].whole /\ g = f /\ i = id)
      <4>1. PICK m \in Nat : m = Times(g, i)
        BY <1>6, Typed
      <4>2. PICK q \in Nat : q = Times(g, i)'
        BY <1>7, TypedAfter
      <4>3. q <= m /\ m <= 1
        BY <1>7, <2>1, <3>2, <4>1, <4>2
      <4>4. QED
        BY <4>2, <4>3
    <3>3. QED
      BY <3>1, <3>2
  <2>4. QED
    BY <2>3 DEF AskedOnce, Times
<1>20. QED
  BY <1>18, <1>19

LEMMA OnceKept ==
    ASSUME JobInv, AskedOnce, [Next]_vars
    PROVE  AskedOnce'
<1>1. ASSUME UNCHANGED disk PROVE AskedOnce'
  BY <1>1 DEF AskedOnce, Held, disk
<1>2. CASE StartJob
  <2>1. /\ job \in 1 .. Len(EvalJobs) /\ request \in Requests
        /\ files \in [Files -> [Record -> Nat]] /\ tail \in [Files -> LastLine]
    <3>1. request \in Requests /\ job \in Nat \ {0} /\ job <= Len(EvalJobs) /\ DiskInv
      BY <1>2 DEF StartJob, MoreJobs, JobInv, Evaluating
    <3>2. Len(EvalJobs) \in Nat
      BY <3>1, JobsAre, LenProperties
    <3>3. QED
      BY <3>1, <3>2 DEF DiskInv
  <2>2. PICK f \in Files : f = File
    BY <2>1, FileOfJob DEF File, JobFile
  <2>3. Delete
    BY <1>2 DEF StartJob
  <2>4. \A g \in Files, i \in Ids : Times(g, i)' = Times(g, i) \/ Times(g, i)' = 0
    BY <2>1, <2>2, <2>3, Deleted
  <2>5. \A g \in Files, i \in Ids : Times(g, i) <= 1
    BY DEF AskedOnce, Times
  <2>6. \A g \in Files, i \in Ids : Times(g, i)' <= 1
    BY <2>4, <2>5
  <2>7. QED
    BY <2>6 DEF AskedOnce, Times
<1>3. ASSUME NEW id \in todo, NEW ok \in BOOLEAN, Noting(id, ok) PROVE AskedOnce'
  BY <1>3, JobInvNote
<1>4. QED
  BY <1>1, <1>2, <1>3, JobKinds DEF EndJob, Failing, Still, Leaving, Later, Same

LEMMA JobInvStep == JobInv /\ [Next]_vars => JobInv'
BY JobKinds, JobInvStart, JobInvEnd, JobInvFail, JobInvNote, JobInvSame

\* Exit code 0 is only returned when every dataset asked for has a record of each of its
\* samples, or of --max-samples more than it had, but for what an unfinished last line cost;
\* and 1 exactly when a job was reported: main sets the code where it reports, and neither
\* the analysis nor the closing of the engines touches it.
THEOREM ExitCodeTells == Spec => []ExitCodeHonest
<1>1. JobInv => ExitCodeHonest
  <2> SUFFICES ASSUME JobInv, pc = "done"
               PROVE  /\ exit = 1 <=> reported # {}
                      /\ exit = 0 => \A k \in 1 .. Len(EvalJobs) : Enough(JobFile(k))
    BY DEF ExitCodeHonest, JobFile
  <2>1. exit = 1 <=> reported # {}
    BY DEF JobInv
  <2>2. exit = 0 => AllSettled /\ reported = {}
    BY DEF JobInv
  <2>3. QED
    BY <2>1, <2>2 DEF AllSettled, Settled
<1>2. QED
  BY <1>1, JobInvInit, JobInvStep, PTL DEF Spec

\* Without --no-continue-on-error the loop reaches every dataset that was named, in
\* whatever order and however often: build_eval_jobs drops repetitions and nothing else,
\* and a failed job does not stop the next.
THEOREM JobsAllRun == Spec => []EveryJobRuns
<1>1. ASSUME JobInv PROVE EveryJobRuns
  <2>1. SUFFICES ASSUME pc = "done", ~strict, NEW d \in ToSet(EvalJobs)
                 PROVE  \/ Enough(FileOf[d])
                        \/ \E k \in reported : FileOf[EvalJobs[k]] = FileOf[d]
    BY <1>1, JobsAre DEF JobInv, EveryJobRuns
  <2>2. PICK k \in 1 .. Len(EvalJobs) : EvalJobs[k] = d
    BY <1>1, JobsAre DEF JobInv, ToSet
  <2>3. Settled(k)
    BY <1>1, <2>1 DEF JobInv, AllSettled
  <2>4. QED
    BY <2>2, <2>3 DEF Settled, JobFile
<1>2. QED
  BY <1>1, JobInvInit, JobInvStep, PTL DEF Spec

\* What an earlier run leaves: no file holds a sample twice.
EarlierOnce ==
    \A old \in Earlier, f \in Files :
      /\ \A r, q \in old[f].lines : r.id = q.id => r = q
      /\ \A r \in old[f].lines, q \in old[f].tail.held : r.id # q.id

\* A run that finds no sample twice in its files leaves none twice there, however often
\* and in however many spellings a dataset is named: a job asks what its file does not
\* hold yet, and records each question once, with its answer or with its error.
THEOREM NothingAskedTwice ==
    ASSUME EarlierOnce
    PROVE  Spec => []AskedOnce
<1>1. Init => AskedOnce
  <2> SUFFICES ASSUME Init, NEW f \in Files, NEW id \in Ids
               PROVE  files[f][[id |-> id, ok |-> TRUE]] + files[f][[id |-> id, ok |-> FALSE]]
                        + Held(f, id) <= 1
    BY DEF AskedOnce
  <2>1. /\ earlier \in Earlier /\ tail[f] = earlier[f].tail
        /\ files[f] = [r \in Record |-> IF r \in earlier[f].lines THEN 1 ELSE 0]
    BY DEF Init
  <2>2. PICK t \in Record, u \in Record : /\ t = [id |-> id, ok |-> TRUE]
                                          /\ u = [id |-> id, ok |-> FALSE]
    BY DEF Record
  <2>3. t.id = id /\ u.id = id /\ t # u
    BY <2>2
  <2>4. ~(t \in earlier[f].lines /\ u \in earlier[f].lines)
    BY <2>1, <2>3, EarlierOnce DEF EarlierOnce
  <2>5. Held(f, id) = 1 => t \notin earlier[f].lines /\ u \notin earlier[f].lines
    BY <2>1, <2>3, EarlierOnce DEF EarlierOnce, Held
  <2>6. Held(f, id) \in {0, 1}
    BY DEF Held
  <2>7. files[f][t] \in {0, 1} /\ files[f][u] \in {0, 1}
        /\ (files[f][t] = 1 => t \in earlier[f].lines) /\ (files[f][u] = 1 => u \in earlier[f].lines)
    BY <2>1
  <2>8. files[f][t] + files[f][u] + Held(f, id) <= 1
    BY <2>4, <2>5, <2>6, <2>7
  <2>9. QED
    BY <2>2, <2>8
<1>2. JobInv /\ AskedOnce /\ [Next]_vars => AskedOnce'
  BY OnceKept
<1>3. QED
  BY <1>1, <1>2, JobInvInit, JobInvStep, PTL DEF Spec
=============================================================================
