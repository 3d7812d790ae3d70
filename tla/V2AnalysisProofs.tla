-------------------------- MODULE V2AnalysisProofs --------------------------
(***************************************************************************)
(* Theorems about V2Analysis: the rows of v2_sample_metrics.jsonl, the     *)
(* pairs of questions, the error file and the tensor files, over any       *)
(* number of runs, killed ones included.                                   *)
(***************************************************************************)
EXTENDS V2Analysis, SequenceTheorems, TLAPS

Bad == {Torn, Junk}

-----------------------------------------------------------------------------
(* Lemmas about the operators. *)

\* What gluing line to f leaves: the lines of f at their places and line at the end, or
\* the last line of f replaced by both.
GluedTo(g, f, line, both) ==
    \/ /\ Len(g) = Len(f) + 1 /\ g[Len(f) + 1] = line
       /\ \A j \in 1 .. Len(f) : g[j] = f[j]
    \/ /\ Unended(f) /\ Len(g) = Len(f) /\ Len(f) \in 1 .. Len(f) /\ g[Len(f)] = both
       /\ \A j \in 1 .. Len(f) : j # Len(f) => g[j] = f[j]

LEMMA GluedLines ==
    ASSUME NEW S, NEW f \in Seq(S), NEW line \in S, NEW both \in S
    PROVE  Glued(f, line, both) \in Seq(S) /\ GluedTo(Glued(f, line, both), f, line, both)
<1>1. CASE ~Unended(f)
  <2>1. /\ Append(f, line) \in Seq(S) /\ Len(Append(f, line)) = Len(f) + 1
        /\ \A j \in 1 .. Len(f) : Append(f, line)[j] = f[j]
        /\ Append(f, line)[Len(f) + 1] = line
    BY AppendProperties
  <2>2. QED
    BY <1>1, <2>1 DEF Glued, GluedTo
<1>2. CASE Unended(f)
  <2> DEFINE g == [f EXCEPT ![Len(f)] = both]
  <2>1. Len(f) \in 1 .. Len(f)
    BY <1>2, EmptySeq, LenProperties DEF Unended
  <2>2. g \in Seq(S) /\ Len(g) = Len(f)
    BY <2>1, ExceptSeq
  <2>3. \A j \in 1 .. Len(f) : g[j] = IF j = Len(f) THEN both ELSE f[j]
    BY <2>1
  <2>4. QED
    BY <1>2, <2>1, <2>2, <2>3 DEF Glued, GluedTo
<1>3. QED
  BY <1>1, <1>2

\* The readable lines of g are those of f, each at its place, and at the end line, if it
\* was written, without its newline if that was cut off.
GrownBy(g, f, line, outcome) ==
    \A j \in 1 .. Len(g) :
      IsLine(g[j]) =>
        \/ j \in 1 .. Len(f) /\ g[j] = f[j]
        \/ outcome = "ok" /\ j = Len(f) + 1 /\ g[j] = line
        \/ outcome = "bare" /\ j = Len(f) + 1 /\ g[j] = Bare(line)

\* Every line of f is in g at its place, or there is an unreadable one.
KeptIn(f, g) ==
    \A j \in 1 .. Len(f) : j \in 1 .. Len(g) /\ (g[j] = f[j] \/ ~IsLine(g[j]))

LEMMA GluedGrows ==
    ASSUME NEW f, NEW g, NEW line, NEW x, NEW both \in Bad, Len(f) \in Nat,
           NEW outcome, GluedTo(g, f, x, both),
           \/ outcome = "ok" /\ x = line
           \/ outcome = "bare" /\ x = Bare(line)
           \/ outcome = "torn" /\ x = Torn
    PROVE  GrownBy(g, f, line, outcome) /\ KeptIn(f, g)
<1>1. ~IsLine(both) /\ ~IsLine(Torn)
  BY DEF IsLine, Bad
<1>2. CASE /\ Len(g) = Len(f) + 1 /\ g[Len(f) + 1] = x
           /\ \A j \in 1 .. Len(f) : g[j] = f[j]
  BY <1>1, <1>2 DEF GrownBy, KeptIn
<1>3. CASE /\ Len(g) = Len(f) /\ g[Len(f)] = both
           /\ \A j \in 1 .. Len(f) : j # Len(f) => g[j] = f[j]
  BY <1>1, <1>3 DEF GrownBy, KeptIn
<1>4. QED
  BY <1>2, <1>3 DEF GluedTo

Outcomes == {"ok", "lost", "torn", "bare"}

\* append_v2_metric leaves a sequence of lines; it makes up none, and one that it loses
\* leaves an unreadable line.
LEMMA AppendMetricLines ==
    ASSUME NEW S, NEW f \in Seq(S \cup Bad), NEW line \in S, Bare(line) \in S,
           NEW outcome \in Outcomes
    PROVE  /\ AppendMetric(f, line, outcome) \in Seq(S \cup Bad)
           /\ GrownBy(AppendMetric(f, line, outcome), f, line, outcome)
           /\ KeptIn(f, AppendMetric(f, line, outcome))
<1>1. Len(f) \in Nat /\ Torn \in Bad /\ Junk \in Bad
  BY LenProperties DEF Bad
<1>2. CASE outcome = "lost"
  BY <1>2 DEF AppendMetric, GrownBy, KeptIn
<1>3. CASE outcome = "torn"
  <2>1. AppendMetric(f, line, outcome) = Glued(f, Torn, Torn)
    BY <1>3 DEF AppendMetric
  <2>2. Torn \in S \cup Bad
    BY <1>1
  <2>3. QED
    BY <1>1, <1>3, <2>1, <2>2, GluedLines, GluedGrows
<1>4. CASE outcome = "bare"
  <2>1. AppendMetric(f, line, outcome) = Glued(f, Bare(line), Torn)
    BY <1>4 DEF AppendMetric
  <2>2. Torn \in S \cup Bad /\ Bare(line) \in S \cup Bad
    BY <1>1
  <2>3. QED
    BY <1>1, <1>4, <2>1, <2>2, GluedLines, GluedGrows
<1>5. CASE outcome = "ok"
  <2>1. AppendMetric(f, line, outcome) = Glued(f, line, Junk)
    BY <1>5 DEF AppendMetric
  <2>2. Junk \in S \cup Bad /\ line \in S \cup Bad
    BY <1>1
  <2>3. QED
    BY <1>1, <1>5, <2>1, <2>2, GluedLines, GluedGrows
<1>6. QED
  BY <1>2, <1>3, <1>4, <1>5 DEF Outcomes

\* A record that was written is in the file, if the file can be parsed.
LEMMA AppendMetricWrites ==
    ASSUME NEW S, NEW f \in Seq(S \cup Bad), NEW line \in S,
           Readable(AppendMetric(f, line, "ok"))
    PROVE  line \in Lines(AppendMetric(f, line, "ok"))
<1>1. Len(f) \in Nat /\ Junk \in S \cup Bad /\ line \in S \cup Bad /\ ~IsLine(Junk)
  BY LenProperties DEF Bad, IsLine
<1>2. PICK g : g = Glued(f, line, Junk)
  OBVIOUS
<1>3. GluedTo(g, f, line, Junk)
  BY <1>1, <1>2, GluedLines
<1>4. Readable(g)
  BY <1>2 DEF AppendMetric
<1>5. Len(g) = Len(f) + 1 /\ g[Len(f) + 1] = line
  BY <1>1, <1>3, <1>4 DEF GluedTo, Readable
<1>6. Len(f) + 1 \in 1 .. Len(g) /\ IsLine(g[Len(f) + 1])
  BY <1>1, <1>4, <1>5 DEF Readable
<1>7. line \in Lines(g)
  BY <1>5, <1>6 DEF Lines
<1>8. QED
  BY <1>2, <1>7 DEF AppendMetric

LEMMA KeptLines ==
    ASSUME NEW f, NEW g, KeptIn(f, g), Readable(g)
    PROVE  Readable(f) /\ Lines(f) \subseteq Lines(g)
BY DEF KeptIn, Readable, Lines

\* Cutting the newline off changes nothing else of a record.
LEMMA BareRow ==
    ASSUME NEW r \in Row
    PROVE  /\ Bare(r) \in Row
           /\ Bare(r).ask = r.ask /\ Bare(r).view = r.view /\ Bare(r).captured = r.captured
BY DEF Bare, Row
LEMMA BarePair ==
    ASSUME NEW p \in Pair
    PROVE  Bare(p) \in Pair /\ SamePair(Bare(p), p)
BY DEF Bare, Pair, SamePair
LEMMA BareFailure ==
    ASSUME NEW r \in Failure
    PROVE  Bare(r) \in Failure /\ Bare(r).ask = r.ask
BY DEF Bare, Failure

\* Deleting one file of raw_capture leaves a list of files.
LEMMA RemoveAtType ==
    ASSUME NEW S, NEW s \in Seq(S), NEW j \in 1 .. Len(s)
    PROVE  RemoveAt(s, j) \in Seq(S)
<1>1. Len(s) \in Nat /\ \A l \in 1 .. Len(s) : s[l] \in S
  BY LenProperties
<1>2. SubSeq(s, 1, j - 1) \in Seq(S)
  BY <1>1, SubSeqProperties
<1>3. SubSeq(s, j + 1, Len(s)) \in Seq(S)
  BY <1>1, SubSeqProperties
<1>4. QED
  BY <1>2, <1>3, ConcatProperties DEF RemoveAt

LEMMA RowsType ==
    ASSUME metrics \in Seq(Row \cup Bad)
    PROVE  Rows \subseteq Row
BY DEF Rows, Lines, IsLine, Bad

-----------------------------------------------------------------------------
(* Type correctness. *)

InCapture == {"generate", "payload", "rows", "render", "close", "except"}
HasTensor == {"payload", "rows", "render", "close"}

\* Inside a sample the loop is at one of the dataset, past "question" at one of its
\* questions, and in "rows" at one of its views: without it i, q and view could leave
\* their ranges.
Position ==
    /\ pc \in InCapture \cup {"question", "pairs"} => i \in 1 .. N
    /\ pc = "question" => q \in 1 .. dataset[i].n + 1
    /\ pc \in InCapture => q \in 1 .. dataset[i].n
    /\ pc = "rows" => view \in 1 .. dataset[i].views

TypeInv == TypeOK /\ Position

LEMMA TypeInvInit == Init => TypeInv
<1> SUFFICES ASSUME Init PROVE TypeInv
  OBVIOUS
<1>1. N \in Nat /\ MaxQ \in Nat /\ MaxViews \in Nat \ {0} /\ MaxRuns \in Nat \ {0}
      /\ MaxPasses \in Nat /\ Budget \in Nat /\ Overwrites \subseteq BOOLEAN
  BY AnalysisAssumption
<1>2. told \in Predictions
  BY DEF Init, Predictions
<1>3. /\ metrics \in Seq(Row \cup {Torn, Junk}) /\ pairs \in Seq(Pair \cup {Torn, Junk})
      /\ errorLog \in Seq(Failure \cup {Torn, Junk})
      /\ raw \in Seq(Ask) /\ queue \in Seq(Ask) /\ cache \in Seq(Questions)
  BY EmptySeq DEF Init
<1>4. overwrite \in BOOLEAN /\ saving \in BOOLEAN
  BY <1>1 DEF Init
<1>5. /\ run \in 1 .. MaxRuns /\ i \in 1 .. (N + 1) /\ q \in 1 .. (MaxQ + 1)
      /\ view \in 1 .. MaxViews
      /\ before \in Nat /\ passes \in 0 .. MaxPasses /\ tensor \in Nat
      /\ visualized \in 0 .. Budget
  BY <1>1 DEF Init
<1>6. TypeOK
  BY <1>2, <1>3, <1>4, <1>5 DEF Init, TypeOK
<1>7. Position
  BY DEF Init, Position, InCapture
<1>8. QED
  BY <1>6, <1>7 DEF TypeInv

\* What the shape of a sample says of the numbers in it.
LEMMA SampleBounds ==
    ASSUME TypeInv, NEW k \in 1 .. N
    PROVE  /\ dataset[k].n \in 0 .. MaxQ
           /\ dataset[k].views \in 1 .. MaxViews
           /\ dataset[k].preds \in Predictions
BY AnalysisAssumption DEF TypeInv, TypeOK, Sample

LEMMA KeyType ==
    ASSUME NEW ask \in Ask, TypeInv
    PROVE  Key(ask) \in Ask
<1>1. ask[1] \in 1 .. N /\ ask[2] \in Questions
  BY DEF Ask
<1>2. dataset \in [1 .. N -> Sample]
  BY AnalysisAssumption DEF TypeInv, TypeOK
<1>3. dataset[ask[1]] \in Sample
  BY <1>1, <1>2
<1>4. dataset[ask[1]].id \in 1 .. N
  BY <1>3 DEF Sample
<1>5. QED
  BY <1>1, <1>4 DEF Key, Ask

LEMMA ViewRowType ==
    ASSUME TypeInv, pc = "rows"
    PROVE  ViewRow \in Row /\ q \in Questions
<1>1. /\ i \in 1 .. N /\ q \in 1 .. dataset[i].n /\ view \in 1 .. MaxViews
      /\ tensor \in 1 .. Len(raw) /\ raw \in Seq(Ask)
  BY DEF TypeInv, TypeOK, Position, InCapture
<1>2. PICK n : n = dataset[i].n
  OBVIOUS
<1>3. n \in 0 .. MaxQ /\ q \in 1 .. n
  BY <1>1, <1>2, SampleBounds
<1>4. q \in Questions
  BY <1>3, AnalysisAssumption DEF Questions
<1>5. raw[tensor] \in Ask
  BY <1>1, LenProperties
<1>6. QED
  BY <1>1, <1>4, <1>5 DEF ViewRow, Row, Ask

LEMMA ErrorRecordType ==
    ASSUME TypeInv, pc = "except"
    PROVE  ErrorRecord \in Failure
<1>1. i \in 1 .. N /\ q \in 1 .. dataset[i].n
  BY DEF TypeInv, Position, InCapture
<1>2. PICK n : n = dataset[i].n
  OBVIOUS
<1>3. n \in 0 .. MaxQ /\ q \in 1 .. n
  BY <1>1, <1>2, SampleBounds
<1>4. q \in Questions
  BY <1>3, AnalysisAssumption DEF Questions
<1>5. QED
  BY <1>1, <1>4 DEF ErrorRecord, Failure, Ask

LEMMA TypeInvStep == TypeInv /\ [Next]_vars => TypeInv'
<1> SUFFICES ASSUME TypeInv, [Next]_vars PROVE TypeInv'
  OBVIOUS
<1> USE DEF files, capture, loop, job
<1>a. N \in Nat /\ MaxQ \in Nat /\ MaxViews \in Nat \ {0} /\ MaxRuns \in Nat \ {0}
      /\ MaxPasses \in Nat /\ Budget \in Nat /\ Overwrites \subseteq BOOLEAN
  BY AnalysisAssumption
<1>e. \A S : <<>> \in Seq(S)
  BY EmptySeq
<1>o. WriteOutcomes \subseteq Outcomes /\ RowOutcomes \subseteq Outcomes
      /\ {"torn", "bare"} \subseteq Outcomes
  BY DEF WriteOutcomes, RowOutcomes, Outcomes
<1>b. /\ metrics \in Seq(Row \cup Bad) /\ pairs \in Seq(Pair \cup Bad)
      /\ errorLog \in Seq(Failure \cup Bad) /\ due \subseteq Pair
  BY DEF TypeInv, TypeOK, Bad
<1>1. CASE Start
  <2>1. metrics' \in Seq(Row \cup Bad) /\ pairs' \in Seq(Pair \cup Bad)
        /\ errorLog' \in Seq(Failure \cup Bad)
    <3>1. \/ metrics' = <<>> /\ pairs' = <<>> /\ errorLog' = <<>>
          \/ metrics' = metrics /\ pairs' = pairs /\ errorLog' = errorLog
      BY <1>1 DEF Start, DeleteOld
    <3>2. <<>> \in Seq(Row \cup Bad) /\ <<>> \in Seq(Pair \cup Bad)
          /\ <<>> \in Seq(Failure \cup Bad)
      BY EmptySeq
    <3>3. QED
      BY <1>b, <3>1, <3>2
  <2>2. Rows' \subseteq Row
    BY <2>1 DEF Rows, Lines, IsLine, Bad
  <2>3. existing' \subseteq Ask
    <3>1. \A r \in Rows' : Key(r.ask) \in Ask
      BY <2>2, KeyType DEF Row
    <3>2. existing' = existing \/ existing' = {Key(r.ask) : r \in Rows'}
      BY <1>1 DEF Start
    <3>3. QED
      BY <3>1, <3>2 DEF TypeInv, TypeOK
  <2>4. QED
    BY <1>1, <2>1, <2>3 DEF Start, StartFrame, TypeInv, TypeOK, Position, InCapture, Bad
<1>2. CASE Return
  BY <1>2 DEF Return, TypeInv, TypeOK, Position, InCapture
<1>3. CASE SkipUnrecorded
  BY <1>3, <1>a DEF SkipUnrecorded, InScope, TypeInv, TypeOK, Position, InCapture
<1>4. CASE LoadFails
  BY <1>4 DEF LoadFails, TypeInv, TypeOK, Position, InCapture
<1>5. CASE OpenSample
  <2>1. i \in 1 .. N
    BY <1>5, <1>a DEF OpenSample, InScope, TypeInv, TypeOK
  <2>2. QED
    BY <1>5, <1>a, <1>e, <2>1, SampleBounds
    DEF OpenSample, TypeInv, TypeOK, Position, InCapture
<1>6. CASE SkipExisting
  <2>1. i \in 1 .. N
    BY <1>6 DEF SkipExisting, TypeInv, Position
  <2>2. q \in 1 .. dataset[i].n /\ dataset[i].n \in 0 .. MaxQ
    BY <1>6, <2>1, SampleBounds DEF SkipExisting, MoreQuestions, TypeInv, Position
  <2>3. q' = q + 1 /\ pc = "question" /\ q' \in 1 .. dataset[i].n + 1 /\ q' \in 1 .. (MaxQ + 1)
        /\ UNCHANGED <<dataset, metrics, pairs, errorLog, raw, retained, saving, queue, before,
                       passes, existing, told, tensor, view, cache, due, visualized,
                       run, overwrite, pc, i>>
    BY <1>6, <1>a, <2>2 DEF SkipExisting
  <2>4. TypeOK'
    BY <2>3 DEF TypeInv, TypeOK
  <2>5. Position'
    BY <2>1, <2>3 DEF Position, InCapture
  <2>6. QED
    BY <2>4, <2>5 DEF TypeInv
<1>7. CASE BuildFails
  BY <1>7 DEF BuildFails, TypeInv, TypeOK, Position, InCapture
<1>8. CASE BeginCapture
  <2>1. i \in 1 .. N /\ q \in 1 .. dataset[i].n
    BY <1>8, SampleBounds DEF BeginCapture, MoreQuestions, TypeInv, Position
  <2>2. <<i, q>> \in Ask
    BY <2>1, <1>a, SampleBounds DEF Ask, Questions
  <2>3. queue' \in Seq(Ask) /\ before' \in Nat
    BY <1>8, <2>2, LenProperties DEF BeginCapture, TypeInv, TypeOK
  <2>4. QED
    BY <1>8, <1>a, <2>1, <2>3 DEF BeginCapture, TypeInv, TypeOK, Position, InCapture
<1>9. CASE EncoderPass
  <2>1. raw' \in Seq(Ask) /\ queue' \in Seq(Ask)
    <3>1. raw \in Seq(Ask) /\ queue \in Seq(Ask)
      BY DEF TypeInv, TypeOK
    <3>2. CASE raw' = Append(raw, Head(queue)) /\ queue' = Tail(queue) /\ queue # <<>>
      <4>1. Head(queue) \in Ask /\ Tail(queue) \in Seq(Ask)
        BY <3>1, <3>2, HeadTailProperties
      <4>2. QED
        BY <3>1, <3>2, <4>1, AppendProperties
    <3>3. QED
      BY <1>9, <3>1, <3>2 DEF EncoderPass
  <2>2. QED
    BY <1>9, <1>a, <2>1 DEF EncoderPass, TypeInv, TypeOK, Position, InCapture
<1>10. CASE GenerateReturns
  <2>1. told' \in Predictions
    BY <1>10, AnalysisAssumption DEF GenerateReturns, TypeInv, TypeOK, Predictions
  <2>2. tensor' = 0 \/ tensor' \in 1 .. Len(raw)
    BY <1>10, LenProperties DEF GenerateReturns, NewTensor, TypeInv, TypeOK
  <2>3. /\ queue' \in Seq(Ask) /\ tensor' \in Nat
        /\ pc' \in {"payload", "except"}
        /\ pc' = "payload" => tensor' \in 1 .. Len(raw')
    BY <1>10, <1>e, <2>2, LenProperties DEF GenerateReturns, EndCapture, TypeInv, TypeOK
  <2>4. TypeOK'
    BY <1>10, <2>1, <2>3 DEF GenerateReturns, EndCapture, TypeInv, TypeOK
  <2>5. Position'
    BY <1>10, <2>3 DEF GenerateReturns, TypeInv, Position, InCapture
  <2>6. QED
    BY <2>4, <2>5 DEF TypeInv
<1>11. CASE GenerateRaises
  BY <1>11, <1>e DEF GenerateRaises, EndCapture, TypeInv, TypeOK, Position, InCapture
<1>12. CASE ReadPayload
  <2>1. i \in 1 .. N
    BY <1>12 DEF ReadPayload, TypeInv, Position, InCapture
  <2>2. QED
    BY SMTT(40), <1>12, <1>a, <2>1, SampleBounds
    DEF ReadPayload, TypeInv, TypeOK, Position, InCapture
<1>13. CASE WriteRow
  <2>1. i \in 1 .. N /\ q \in 1 .. dataset[i].n /\ view \in 1 .. dataset[i].views
        /\ tensor \in 1 .. Len(raw)
    BY <1>13 DEF WriteRow, TypeInv, TypeOK, Position, InCapture
  <2>2. ViewRow \in Row /\ q \in Questions
    BY <1>13, ViewRowType DEF WriteRow
  <2>3. metrics' \in Seq(Row \cup Bad)
    <3>1. PICK outcome \in Outcomes : metrics' = AppendMetric(metrics, ViewRow, outcome)
      BY <1>13, <1>o DEF WriteRow
    <3>2. QED
      BY <1>b, <2>2, <3>1, BareRow, AppendMetricLines
  <2>4. /\ cache' \in Seq(Questions)
        /\ pc' \in {"rows", "render", "except"}
        /\ view' \in 1 .. dataset[i].views
    <3>1. dataset[i].views \in 1 .. MaxViews /\ cache \in Seq(Questions) /\ pc = "rows"
      BY <1>13, <2>1, SampleBounds DEF WriteRow, TypeInv, TypeOK
    <3>2. Append(cache, q) \in Seq(Questions)
      BY <2>2, <3>1, AppendProperties
    <3>3. \/ pc' = "except" /\ view' = view /\ cache' = cache
          \/ view < dataset[i].views /\ view' = view + 1 /\ cache' = cache /\ pc' = pc
          \/ cache' = Append(cache, q) /\ pc' = "render" /\ view' = view
      BY <1>13 DEF WriteRow
    <3>4. view' \in 1 .. dataset[i].views
      BY <2>1, <3>1, <3>3
    <3>5. cache' \in Seq(Questions)
      BY <3>1, <3>2, <3>3
    <3>6. pc' \in {"rows", "except", "render"}
      BY <3>1, <3>3
    <3>7. QED
      BY <3>4, <3>5, <3>6
  <2>5. view' \in 1 .. MaxViews
    BY <1>a, <2>1, <2>4, SampleBounds
  <2>6. UNCHANGED <<dataset, pairs, errorLog, raw, retained, saving, queue, before, passes,
                    existing, told, tensor, due, visualized, run, overwrite, i, q>>
    BY <1>13 DEF WriteRow
  <2>7. TypeOK'
    BY <1>13, <2>1, <2>3, <2>4, <2>5, <2>6 DEF TypeInv, TypeOK, Bad
  <2>8. Position'
    BY <2>1, <2>4, <2>6 DEF Position, InCapture
  <2>9. QED
    BY <2>7, <2>8 DEF TypeInv
<1>14. CASE Render
  <2>1. <<i, q>> \in Ask
    BY <1>14, <1>a, SampleBounds DEF Render, Ask, Questions, TypeInv, Position, InCapture
  <2>2. QED
    <3>1. /\ visualized' \in 0 .. Budget /\ retained' \subseteq Ask
          /\ pc' \in {"close", "except"} /\ pc = "render"
      <4>1. visualized \in 0 .. Budget /\ retained \subseteq Ask
        BY DEF TypeInv, TypeOK
      <4>2. CASE visualized < Budget
        BY <1>14, <1>a, <2>1, <4>1, <4>2 DEF Render
      <4>3. CASE ~(visualized < Budget)
        BY <1>14, <4>1, <4>3 DEF Render
      <4>4. QED
        BY <4>2, <4>3
    <3>2. UNCHANGED <<dataset, metrics, pairs, errorLog, raw, saving, queue, before, passes,
                      existing, told, tensor, view, cache, due, run, overwrite, i, q>>
      BY <1>14 DEF Render
    <3>3. TypeOK'
      BY <3>1, <3>2 DEF TypeInv, TypeOK
    <3>4. Position'
      BY <3>1, <3>2 DEF TypeInv, Position, InCapture
    <3>5. QED
      BY <3>3, <3>4 DEF TypeInv
<1>15. CASE CloseQuestion
  <2>1. raw' \in Seq(Ask)
    BY <1>15, RemoveAtType DEF CloseQuestion, TypeInv, TypeOK
  <2>2. QED
    <3>1. i \in 1 .. N /\ q \in 1 .. dataset[i].n /\ dataset[i].n \in 0 .. MaxQ
      BY <1>15, SampleBounds DEF CloseQuestion, TypeInv, Position, InCapture
    <3>2. q' = q + 1 /\ pc' = "question"
          /\ UNCHANGED <<dataset, metrics, pairs, errorLog, retained, saving, queue, before,
                         passes, existing, told, tensor, view, cache, due, visualized,
                         run, overwrite, i>>
      BY <1>15 DEF CloseQuestion
    <3>3. TypeOK'
      BY SMTT(40), <1>a, <2>1, <3>1, <3>2 DEF TypeInv, TypeOK
    <3>4. Position'
      BY <3>1, <3>2 DEF Position, InCapture
    <3>5. QED
      BY <3>3, <3>4 DEF TypeInv
<1>16. CASE LogError
  <2>1. errorLog' \in Seq(Failure \cup Bad)
    <3>1. PICK outcome \in Outcomes : errorLog' = AppendMetric(errorLog, ErrorRecord, outcome)
      BY <1>16, <1>o DEF LogError
    <3>2. ErrorRecord \in Failure
      BY <1>16, ErrorRecordType DEF LogError
    <3>3. QED
      BY <1>b, <3>1, <3>2, BareFailure, AppendMetricLines
  <2>2. QED
    <3>1. i \in 1 .. N /\ q \in 1 .. dataset[i].n /\ dataset[i].n \in 0 .. MaxQ
      BY <1>16, SampleBounds DEF LogError, TypeInv, Position, InCapture
    <3>2. /\ (q' = q + 1 /\ pc' = "question") \/ (q' = q /\ pc' = "raised")
          /\ UNCHANGED <<dataset, metrics, pairs, raw, retained, saving, queue, before,
                         passes, existing, told, tensor, view, cache, due, visualized,
                         run, overwrite, i>>
      BY <1>16 DEF LogError
    <3>3. q' \in 1 .. (MaxQ + 1)
      BY <1>a, <3>1, <3>2
    <3>4. TypeOK'
      BY <2>1, <3>2, <3>3 DEF TypeInv, TypeOK, Bad
    <3>5. Position'
      BY <3>1, <3>2 DEF Position, InCapture
    <3>6. QED
      BY <3>4, <3>5 DEF TypeInv
<1>17. CASE EndQuestions
  BY <1>17 DEF EndQuestions, TypeInv, TypeOK, Position, InCapture
<1>18. CASE EndSample
  BY <1>18, <1>a DEF EndSample, TypeInv, TypeOK, Position, InCapture
<1>19. ASSUME NEW p \in due, WritePair(p) PROVE TypeInv'
  <2>1. PICK outcome \in Outcomes : pairs' = AppendMetric(pairs, p, outcome)
    BY <1>19, <1>o DEF WritePair
  <2>2. pairs' \in Seq(Pair \cup Bad)
    BY <1>19, <1>b, <2>1, BarePair, AppendMetricLines
  <2>3. QED
    BY <1>19, <2>2 DEF WritePair, TypeInv, TypeOK, Position, InCapture, Bad
<1>20. CASE Kill
  <2>1. /\ metrics' \in Seq(Row \cup Bad) /\ pairs' \in Seq(Pair \cup Bad)
        /\ errorLog' \in Seq(Failure \cup Bad)
    <3>1. CASE UNCHANGED <<metrics, pairs, errorLog>>
      BY <1>b, <3>1
    <3>2. ASSUME NEW cut \in Outcomes, pc = "rows",
                 metrics' = AppendMetric(metrics, ViewRow, cut), UNCHANGED <<pairs, errorLog>>
          PROVE  metrics' \in Seq(Row \cup Bad)
      <4>1. ViewRow \in Row
        BY <3>2, ViewRowType
      <4>2. QED
        BY <1>b, <3>2, <4>1, BareRow, AppendMetricLines
    <3>3. ASSUME NEW cut \in Outcomes, pc = "except",
                 errorLog' = AppendMetric(errorLog, ErrorRecord, cut)
          PROVE  errorLog' \in Seq(Failure \cup Bad)
      <4>1. ErrorRecord \in Failure
        BY <3>3, ErrorRecordType
      <4>2. QED
        BY <1>b, <3>3, <4>1, BareFailure, AppendMetricLines
    <3>4. ASSUME NEW cut \in Outcomes, NEW p \in due, pairs' = AppendMetric(pairs, p, cut)
          PROVE  pairs' \in Seq(Pair \cup Bad)
      BY <1>b, <3>4, BarePair, AppendMetricLines
    <3>5. QED
      BY <1>20, <1>b, <1>o, <3>1, <3>2, <3>3, <3>4 DEF Kill, KillWithin
  <2>2. QED
    BY <1>20, <1>e, <2>1 DEF Kill, TypeInv, TypeOK, Position, InCapture, Bad
<1>21. CASE Restart
  <2>1. told' \in Predictions
    BY <1>21 DEF Restart, Predictions
  <2>2. QED
    BY SMTT(40), <1>21, <1>a, <1>e, <2>1 DEF Restart, TypeInv, TypeOK, Position, InCapture
<1>22. CASE UNCHANGED vars
  BY <1>22 DEF vars, TypeInv, TypeOK, Position
<1>23. QED
  BY <1>1, <1>2, <1>3, <1>4, <1>5, <1>6, <1>7, <1>8, <1>9, <1>10, <1>11, <1>12, <1>13,
     <1>14, <1>15, <1>16, <1>17, <1>18, <1>19, <1>20, <1>21, <1>22
  DEF Next, Work, SampleStep, CaptureStep, QuestionStep, PairStep, Finished

\* TypeOK holds for every dataset, every set of faults, kills and runs: inside a
\* question the loop is at a question of a sample with a tensor file to read.
THEOREM TypeCorrect == Spec => []TypeOK
<1>1. TypeInv => TypeOK
  BY DEF TypeInv
<1>2. QED
  BY <1>1, TypeInvInit, TypeInvStep, PTL DEF Spec

-----------------------------------------------------------------------------
(* Rows come from the tensors of their own question. *)

\* During a call, whatever is in the queue or new in raw_capture is of the question
\* that is asked; after it, so is the file that was found. Without this the property
\* does not say what WriteRow is about to write, and a file left by an earlier failure
\* could be taken for the new one.
CaptureInv ==
    /\ pc = "generate" =>
         /\ queue \in {<<>>, <<<<i, q>>>>}
         /\ before \in 0 .. Len(raw)
         /\ \A j \in 1 .. Len(raw) : j > before => raw[j] = <<i, q>>
    /\ pc \in HasTensor => raw[tensor] = <<i, q>>

RowsInv == TypeInv /\ CaptureInv /\ RowsUnambiguous

\* A step that leaves the rows alone and neither starts nor ends a call keeps CaptureInv.
LEMMA CaptureInvFrame ==
    ASSUME CaptureInv,
           \/ pc' \notin HasTensor \cup {"generate"}
           \/ pc \in HasTensor /\ pc' \in HasTensor /\ UNCHANGED <<raw, tensor, i, q>>
    PROVE  CaptureInv'
BY DEF CaptureInv, HasTensor

\* The row of the view the loop is at.
Current(r) == pc = "rows" /\ r.ask = <<i, q>> /\ r.view = view /\ r.captured = raw[tensor]
\* It is the last thing written for the question, or the loop goes on behind it.
Moved == pc' \in {"except", "killed", "render"} \/ (pc' = "rows" /\ view' = view + 1)

LEMMA WriteRowLines ==
    ASSUME TypeInv, pc = "rows", NEW outcome \in Outcomes,
           metrics' = AppendMetric(metrics, ViewRow, outcome),
           NEW j \in 1 .. Len(metrics'), IsLine(metrics'[j])
    PROVE  \/ j \in 1 .. Len(metrics) /\ metrics'[j] = metrics[j]
           \/ j = Len(metrics) + 1 /\ Current(metrics'[j]) /\ outcome \in {"ok", "bare"}
<1>1. ViewRow \in Row /\ metrics \in Seq(Row \cup Bad)
  BY ViewRowType DEF TypeInv, TypeOK, Bad
<1>2. GrownBy(metrics', metrics, ViewRow, outcome)
  BY <1>1, BareRow, AppendMetricLines
<1>3. Current(ViewRow) /\ Current(Bare(ViewRow))
  <2>1. \A r : (r.ask = ViewRow.ask /\ r.view = ViewRow.view
                  /\ r.captured = ViewRow.captured) => Current(r)
    BY DEF Current, ViewRow
  <2>2. QED
    BY <1>1, <2>1, BareRow
<1>4. QED
  BY <1>2, <1>3 DEF GrownBy

\* Only the row of the current view is ever new, written whole or, when the write fails
\* or the run is killed in it, without its newline.
LEMMA RowLines ==
    ASSUME TypeInv, [Next]_vars, NEW j \in 1 .. Len(metrics'), IsLine(metrics'[j])
    PROVE  \/ j \in 1 .. Len(metrics) /\ metrics'[j] = metrics[j]
           \/ j = Len(metrics) + 1 /\ Current(metrics'[j]) /\ Moved
<1> USE DEF files
<1>1. CASE UNCHANGED metrics
  BY <1>1
<1>2. CASE metrics' = <<>>
  BY <1>2, EmptySeq
<1>3. CASE WriteRow
  <2>1. PICK outcome \in Outcomes :
          /\ metrics' = AppendMetric(metrics, ViewRow, outcome)
          /\ IF outcome # "ok" THEN pc' = "except" /\ UNCHANGED <<view, cache>>
             ELSE IF view < dataset[i].views THEN view' = view + 1 /\ UNCHANGED <<cache, pc>>
             ELSE cache' = Append(cache, q) /\ pc' = "render" /\ UNCHANGED view
    BY <1>3 DEF WriteRow, RowOutcomes, WriteOutcomes, Outcomes
  <2>2. pc = "rows"
    BY <1>3 DEF WriteRow
  <2>3. Moved
    BY <2>1, <2>2 DEF Moved
  <2>4. QED
    BY <2>1, <2>2, <2>3, WriteRowLines
<1>4. CASE Kill /\ ~UNCHANGED metrics
  <2>1. PICK cut \in Outcomes : metrics' = AppendMetric(metrics, ViewRow, cut)
    BY <1>4 DEF Kill, KillWithin, Outcomes
  <2>2. pc = "rows" /\ Moved
    BY <1>4 DEF Kill, KillWithin, Moved
  <2>3. QED
    BY <2>1, <2>2, WriteRowLines
<1>5. UNCHANGED metrics \/ metrics' = <<>> \/ WriteRow \/ Kill
  BY DEF Next, Work, SampleStep, CaptureStep, QuestionStep, PairStep, Finished, vars,
         Start, DeleteOld, Return, SkipUnrecorded, LoadFails, OpenSample, SkipExisting,
         BuildFails, BeginCapture, EncoderPass, GenerateReturns, GenerateRaises,
         ReadPayload, Render, CloseQuestion, LogError, EndQuestions, EndSample, WritePair,
         Restart
<1>6. QED
  BY <1>1, <1>2, <1>3, <1>4, <1>5

\* The same of the set of rows.
LEMMA RowsGrow ==
    ASSUME TypeInv, [Next]_vars, NEW r \in Rows'
    PROVE  r \in Rows \/ (Current(r) /\ Moved)
<1>1. PICK j \in 1 .. Len(metrics') : IsLine(metrics'[j]) /\ r = metrics'[j]
  BY DEF Rows, Lines
<1>2. CASE j \in 1 .. Len(metrics) /\ metrics'[j] = metrics[j]
  BY <1>1, <1>2 DEF Rows, Lines
<1>3. CASE Current(metrics'[j]) /\ Moved
  <2>1. \A x : x = metrics'[j] => Current(x)
    BY <1>3 DEF Current
  <2>2. QED
    BY <1>1, <1>3, <2>1
<1>4. QED
  BY <1>1, <1>2, <1>3, RowLines

LEMMA CaptureInvStep == TypeInv /\ CaptureInv /\ [Next]_vars => CaptureInv'
<1> SUFFICES ASSUME TypeInv, CaptureInv, [Next]_vars PROVE CaptureInv'
  OBVIOUS
<1> USE DEF files, capture, loop, job
<1>t. raw \in Seq(Ask) /\ queue \in Seq(Ask) /\ Len(raw) \in Nat
  BY LenProperties DEF TypeInv, TypeOK
<1>1. CASE BeginCapture
  BY <1>1, <1>t DEF BeginCapture, CaptureInv, HasTensor
<1>2. CASE EncoderPass
  <2>1. CASE queue = <<<<i, q>>>> /\ saving
    <3>1. <<i, q>> \in Ask /\ Head(queue) = <<i, q>> /\ Tail(queue) = <<>> /\ queue # <<>>
      BY <2>1, <1>t
    <3>2. raw' = Append(raw, <<i, q>>) /\ queue' = <<>>
      BY <1>2, <2>1, <3>1 DEF EncoderPass
    <3>3. /\ Len(raw') = Len(raw) + 1 /\ raw'[Len(raw) + 1] = <<i, q>>
          /\ \A j \in 1 .. Len(raw) : raw'[j] = raw[j]
      BY <1>t, <3>1, <3>2, AppendProperties
    <3>4. QED
      BY <1>2, <1>t, <3>2, <3>3 DEF EncoderPass, CaptureInv, HasTensor
  <2>2. CASE queue = <<>> \/ ~saving
    BY <1>2, <2>2 DEF EncoderPass, CaptureInv, HasTensor
  <2>3. QED
    BY <1>2, <2>1, <2>2 DEF EncoderPass, CaptureInv
<1>3. CASE GenerateReturns
  <2>1. CASE Len(raw) > before
    <3>1. tensor' = Len(raw) /\ raw[Len(raw)] = <<i, q>>
      BY <1>3, <1>t, <2>1 DEF GenerateReturns, NewTensor, CaptureInv
    <3>2. QED
      BY <1>3, <3>1 DEF GenerateReturns, CaptureInv, HasTensor
  <2>2. CASE ~(Len(raw) > before)
    BY <1>3, <2>2, CaptureInvFrame DEF GenerateReturns, NewTensor, HasTensor
  <2>3. QED
    BY <2>1, <2>2
<1>4. CASE ReadPayload
  BY <1>4, CaptureInvFrame DEF ReadPayload, HasTensor
<1>5. CASE WriteRow
  BY <1>5, CaptureInvFrame DEF WriteRow, HasTensor
<1>6. CASE Render
  BY <1>6, CaptureInvFrame DEF Render, HasTensor
<1>7. CASE \/ Start \/ Return \/ SkipUnrecorded \/ LoadFails \/ OpenSample \/ SkipExisting
           \/ BuildFails \/ GenerateRaises \/ CloseQuestion \/ LogError \/ EndQuestions
           \/ EndSample \/ Kill \/ Restart \/ \E p \in due : WritePair(p)
  BY <1>7, CaptureInvFrame
  DEF Start, Return, SkipUnrecorded, LoadFails, OpenSample, SkipExisting, BuildFails,
      GenerateRaises, CloseQuestion, LogError, EndQuestions, EndSample, Kill, Restart,
      WritePair, HasTensor
<1>8. CASE UNCHANGED vars
  BY <1>8 DEF vars, CaptureInv, HasTensor
<1>9. QED
  BY <1>1, <1>2, <1>3, <1>4, <1>5, <1>6, <1>7, <1>8
  DEF Next, Work, SampleStep, CaptureStep, QuestionStep, PairStep, Finished

LEMMA RowsInvInit == Init => RowsInv
<1>1. Init => Rows = {}
  BY EmptySeq DEF Init, Rows, Lines
<1>2. QED
  BY <1>1, TypeInvInit DEF Init, RowsInv, RowsUnambiguous, CaptureInv, HasTensor

LEMMA RowsInvStep == RowsInv /\ [Next]_vars => RowsInv'
<1> SUFFICES ASSUME RowsInv, [Next]_vars PROVE RowsInv'
  OBVIOUS
<1>1. TypeInv' /\ CaptureInv'
  BY TypeInvStep, CaptureInvStep DEF RowsInv
<1>2. ASSUME NEW r \in Rows' PROVE r.captured = r.ask
  <2>1. CASE r \in Rows
    BY <2>1 DEF RowsInv, RowsUnambiguous
  <2>2. CASE Current(r)
    BY <2>2 DEF Current, RowsInv, CaptureInv, HasTensor
  <2>3. QED
    BY <1>2, <2>1, <2>2, RowsGrow DEF RowsInv
<1>3. QED
  BY <1>1, <1>2 DEF RowsInv, RowsUnambiguous

\* RowsUnambiguous holds for every number of runs, every fault and every kill: a metrics
\* row never comes from the tensors of another question, whatever is left in
\* raw_capture.
THEOREM RowsNeverMixed == Spec => []RowsUnambiguous
<1>1. RowsInv => RowsUnambiguous
  BY DEF RowsInv
<1>2. QED
  BY <1>1, RowsInvInit, RowsInvStep, PTL DEF Spec

-----------------------------------------------------------------------------
(* A view of a question gets one row. *)

\* A question the loop has left behind.
Behind(ask) ==
    \/ ask[1] < i
    \/ pc # "sample" /\ ask[1] = i /\ ask[2] < q

\* While a run is at work, every row is of a question read back at its start, of one
\* behind, or of the current one and of a view behind. The property alone does not say
\* that the next row is new.
Fresh ==
    /\ pc \in InCapture => Key(<<i, q>>) \notin existing
    /\ ~Over /\ pc # "start" =>
         \A r \in Rows :
           \/ Key(r.ask) \in existing
           \/ Behind(r.ask)
           \/ /\ r.ask = <<i, q>> /\ pc \in {"rows", "render", "close", "except"}
              /\ pc = "rows" => r.view < view

OnceInv == TypeInv /\ Fresh /\ RowOnce

LEMMA DatasetFixed ==
    ASSUME [Next]_vars
    PROVE  dataset' = dataset /\ \A ask : Key(ask)' = Key(ask)
<1>1. dataset' = dataset
  BY DEF Next, Work, SampleStep, CaptureStep, QuestionStep, PairStep, Finished, vars,
         Start, StartFrame, Return, SkipUnrecorded, LoadFails, OpenSample, SkipExisting,
         BuildFails, BeginCapture, EncoderPass, GenerateReturns, GenerateRaises,
         ReadPayload, WriteRow, Render, CloseQuestion, LogError, EndQuestions, EndSample,
         WritePair, Kill, Restart, job
<1>2. QED
  BY <1>1 DEF Key

LEMMA OnceInvInit == Init => OnceInv
BY TypeInvInit, EmptySeq DEF Init, OnceInv, Fresh, Over, InCapture, RowOnce

LEMMA FreshStep == TypeInv /\ Fresh /\ [Next]_vars => Fresh'
<1> SUFFICES ASSUME TypeInv, Fresh, [Next]_vars PROVE Fresh'
  OBVIOUS
<1> USE DEF files, capture, loop, job
<1>r. Rows \subseteq Row /\ i \in Int /\ q \in Int /\ view \in Int
  BY RowsType, AnalysisAssumption DEF TypeInv, TypeOK, Bad
<1>a. \A r \in Row : r.ask[1] \in Int /\ r.ask[2] \in Int /\ r.view \in Int
  BY AnalysisAssumption DEF Row, Ask, Questions
<1>k. /\ \A ask : Key(ask)' = Key(ask)
      /\ i' = i /\ q' = q => Key(<<i, q>>)' = Key(<<i, q>>)
  BY DatasetFixed DEF Key
<1>1. CASE Start
  BY <1>1, <1>k DEF Start, StartFrame, Fresh, Over, InCapture
<1>2. CASE WriteRow
  <2>1. /\ pc = "rows" /\ UNCHANGED <<existing, i, q>>
        /\ pc' \in {"rows", "render", "except"}
    BY <1>2 DEF WriteRow
  <2>2. ASSUME NEW r \in Rows'
        PROVE  \/ Key(r.ask) \in existing \/ Behind(r.ask)'
               \/ r.ask = <<i, q>> /\ (pc' = "rows" => r.view < view')
    <3>1. CASE Current(r) /\ Moved
      BY <3>1, <2>1, <1>r DEF Current, Moved
    <3>2. CASE r \in Rows
      <4>1. pc' = "rows" => view' = view + 1
        BY <1>2 DEF WriteRow
      <4>2. QED
        BY <3>2, <4>1, <2>1, <1>r, <1>a DEF Fresh, Behind, Over
    <3>3. QED
      BY <2>2, <3>1, <3>2, RowsGrow
  <2>3. QED
    BY <2>1, <2>2, <1>k DEF Fresh, Over, InCapture
<1>3. CASE ~Start /\ ~WriteRow /\ Rows' \subseteq Rows
  <2>1. CASE Return \/ LoadFails \/ BuildFails \/ Kill \/ Restart
    BY <2>1 DEF Return, LoadFails, BuildFails, Kill, Restart, Fresh, Over, InCapture
  <2>2. CASE SkipUnrecorded \/ OpenSample
    BY <2>2, <1>k, <1>3, <1>r, <1>a
    DEF SkipUnrecorded, OpenSample, Fresh, Over, InCapture, Behind
  <2>3. CASE SkipExisting
    BY <2>3, <1>k, <1>3, <1>r, <1>a DEF SkipExisting, Fresh, Over, InCapture, Behind
  <2>4. CASE BeginCapture
    BY <2>4, <1>k, <1>3 DEF BeginCapture, Fresh, Over, InCapture, Behind
  <2>5. CASE EncoderPass
    BY <2>5, <1>k, <1>3 DEF EncoderPass, Fresh, Over, InCapture, Behind
  <2>6. CASE GenerateReturns \/ GenerateRaises
    BY <2>6, <1>k, <1>3 DEF GenerateReturns, GenerateRaises, Fresh, Over, InCapture, Behind
  <2>7. CASE ReadPayload
    BY <2>7, <1>k, <1>3 DEF ReadPayload, Fresh, Over, InCapture, Behind
  <2>8. CASE Render
    BY <2>8, <1>k, <1>3 DEF Render, Fresh, Over, InCapture, Behind
  <2>9. CASE CloseQuestion
    BY <2>9, <1>k, <1>3, <1>r, <1>a DEF CloseQuestion, Fresh, Over, InCapture, Behind
  <2>10. CASE LogError
    <3>1. UNCHANGED <<existing, i>>
          /\ (pc' = "raised" \/ (q' = q + 1 /\ pc' = "question"))
      BY <2>10 DEF LogError
    <3>2. QED
      BY <2>10, <1>k, <3>1, <1>3, <1>r, <1>a DEF LogError, Fresh, Over, InCapture, Behind
  <2>11. CASE EndQuestions
    BY <2>11, <1>k, <1>3 DEF EndQuestions, Fresh, Over, InCapture, Behind
  <2>12. CASE EndSample
    BY <2>12, <1>k, <1>3, <1>r, <1>a DEF EndSample, Fresh, Over, InCapture, Behind
  <2>13. CASE \E p \in due : WritePair(p)
    BY <2>13, <1>k, <1>3 DEF WritePair, Fresh, Over, InCapture, Behind
  <2>14. CASE UNCHANGED vars
    BY <2>14, <1>k, <1>3 DEF vars, Fresh, Over, InCapture, Behind
  <2>15. QED
    BY <1>3, <2>1, <2>2, <2>3, <2>4, <2>5, <2>6, <2>7, <2>8, <2>9, <2>10, <2>11, <2>12,
       <2>13, <2>14
    DEF Next, Work, SampleStep, CaptureStep, QuestionStep, PairStep, Finished
<1>4. ~WriteRow /\ ~Kill => Rows' \subseteq Rows
  <2> SUFFICES ASSUME ~WriteRow, ~Kill PROVE Rows' \subseteq Rows
    OBVIOUS
  <2>1. UNCHANGED metrics \/ metrics' = <<>>
    BY DEF Next, Work, SampleStep, CaptureStep, QuestionStep, PairStep, Finished, vars,
         Start, DeleteOld, Return, SkipUnrecorded, LoadFails, OpenSample, SkipExisting,
         BuildFails, BeginCapture, EncoderPass, GenerateReturns, GenerateRaises,
         ReadPayload, Render, CloseQuestion, LogError, EndQuestions, EndSample, WritePair,
         Restart
  <2>2. QED
    BY <2>1, EmptySeq DEF Rows, Lines
<1>5. CASE Kill
  BY <1>5 DEF Kill, Fresh, Over, InCapture
<1>6. QED
  BY <1>1, <1>2, <1>3, <1>4, <1>5

LEMMA RowOnceStep == OnceInv /\ [Next]_vars => RowOnce'
<1> SUFFICES ASSUME OnceInv, [Next]_vars PROVE RowOnce'
  OBVIOUS
<1>1. ASSUME NEW r \in Rows, NEW s, Current(s)
      PROVE  <<r.ask, r.view>> # <<s.ask, s.view>>
  <2>1. pc = "rows" /\ Key(<<i, q>>) \notin existing /\ i \in Int /\ q \in Int /\ view \in Int
    BY <1>1, AnalysisAssumption
    DEF Current, OnceInv, Fresh, InCapture, TypeInv, TypeOK
  <2>2. QED
    BY <1>1, <2>1 DEF Current, OnceInv, Fresh, Over, Behind
<1>2. ASSUME NEW j \in 1 .. Len(metrics'), NEW l \in 1 .. Len(metrics'), j # l,
             IsLine(metrics'[j]), IsLine(metrics'[l])
      PROVE  <<metrics'[j].ask, metrics'[j].view>> # <<metrics'[l].ask, metrics'[l].view>>
  <2> DEFINE old(x) == x \in 1 .. Len(metrics) /\ metrics'[x] = metrics[x]
             new(x) == x = Len(metrics) + 1 /\ Current(metrics'[x])
  <2>1. (old(j) \/ new(j)) /\ (old(l) \/ new(l))
    BY <1>2, RowLines DEF OnceInv
  <2>2. \A x : old(x) /\ IsLine(metrics'[x]) => metrics'[x] \in Rows
    BY DEF Rows, Lines
  <2>3. CASE old(j) /\ old(l)
    BY <1>2, <2>3 DEF OnceInv, RowOnce
  <2>4. CASE old(j) /\ new(l)
    <3>1. PICK r, s : r = metrics'[j] /\ s = metrics'[l]
      OBVIOUS
    <3>2. r \in Rows /\ Current(s)
      <4>1. \A x : x = metrics'[l] => Current(x)
        BY <2>4 DEF Current
      <4>2. QED
        BY <1>2, <2>2, <2>4, <3>1, <4>1
    <3>3. QED
      BY <1>1, <3>1, <3>2
  <2>5. CASE new(j) /\ old(l)
    <3>1. PICK r, s : r = metrics'[l] /\ s = metrics'[j]
      OBVIOUS
    <3>2. r \in Rows /\ Current(s)
      <4>1. \A x : x = metrics'[j] => Current(x)
        BY <2>5 DEF Current
      <4>2. QED
        BY <1>2, <2>2, <2>5, <3>1, <4>1
    <3>3. QED
      BY <1>1, <3>1, <3>2
  <2>6. QED
    BY <1>2, <2>1, <2>3, <2>4, <2>5
<1>3. QED
  BY <1>2 DEF RowOnce

\* RowOnce holds over any number of runs, however each of them ends: what the loop
\* writes is neither in existing_keys nor behind it.
THEOREM RowsNeverRepeat == Spec => []RowOnce
<1>1. OnceInv /\ [Next]_vars => OnceInv'
  BY TypeInvStep, FreshStep, RowOnceStep DEF OnceInv
<1>2. OnceInv => RowOnce
  BY DEF OnceInv
<1>3. QED
  BY <1>1, <1>2, OnceInvInit, PTL DEF Spec

-----------------------------------------------------------------------------
(* What a step keeps of the metrics file. *)

\* A line of the metrics does not parse: a row was cut off, or glued to a line without
\* newline.
Damaged == ~Readable(metrics)
HasRow(ask, v) == \E r \in Rows : r.ask = ask /\ r.view = v

LEMMA MetricsKept ==
    ASSUME TypeInv, [Next]_vars, ~(Start /\ overwrite)
    PROVE  KeptIn(metrics, metrics')
<1> USE DEF files
<1>m. metrics \in Seq(Row \cup Bad) /\ Len(metrics) \in Nat
  BY LenProperties DEF TypeInv, TypeOK, Bad
<1>1. CASE UNCHANGED metrics
  BY <1>m, <1>1 DEF KeptIn
<1>2. ASSUME pc = "rows", NEW outcome \in Outcomes,
             metrics' = AppendMetric(metrics, ViewRow, outcome)
      PROVE  KeptIn(metrics, metrics')
  <2>1. ViewRow \in Row
    BY <1>2, ViewRowType
  <2>2. QED
    BY <1>m, <1>2, <2>1, BareRow, AppendMetricLines
<1>3. CASE WriteRow
  <2>1. PICK outcome \in Outcomes : metrics' = AppendMetric(metrics, ViewRow, outcome)
    BY <1>3 DEF WriteRow, RowOutcomes, WriteOutcomes, Outcomes
  <2>2. QED
    BY <1>2, <1>3, <2>1 DEF WriteRow
<1>4. CASE Kill /\ ~UNCHANGED metrics
  <2>1. PICK cut \in Outcomes : pc = "rows" /\ metrics' = AppendMetric(metrics, ViewRow, cut)
    BY <1>4 DEF Kill, KillWithin, Outcomes
  <2>2. QED
    BY <1>2, <2>1
<1>5. UNCHANGED metrics \/ WriteRow \/ Kill
  BY DEF Next, Work, SampleStep, CaptureStep, QuestionStep, PairStep, Finished, vars,
         Start, DeleteOld, Return, SkipUnrecorded, LoadFails, OpenSample, SkipExisting,
         BuildFails, BeginCapture, EncoderPass, GenerateReturns, GenerateRaises,
         ReadPayload, Render, CloseQuestion, LogError, EndQuestions, EndSample, WritePair,
         Restart
<1>6. QED
  BY <1>1, <1>3, <1>4, <1>5

LEMMA RowsKept ==
    ASSUME TypeInv, [Next]_vars, ~(Start /\ overwrite), ~Damaged'
    PROVE  ~Damaged /\ Rows \subseteq Rows'
<1>1. PICK g : g = metrics'
  OBVIOUS
<1>2. KeptIn(metrics, g) /\ Readable(g)
  BY <1>1, MetricsKept DEF Damaged, Readable
<1>3. Readable(metrics) /\ Lines(metrics) \subseteq Lines(g)
  BY <1>2, KeptLines
<1>4. Rows' = Lines(g)
  BY <1>1 DEF Rows, Lines
<1>5. QED
  BY <1>3, <1>4 DEF Damaged, Rows

\* A row that was written is in the file, if that can be parsed.
LEMMA WriteRowWrites ==
    ASSUME TypeInv, WriteRow, ~Damaged', pc' # "except"
    PROVE  \E r \in Rows' : r.ask = <<i, q>> /\ r.view = view
<1>1. ViewRow \in Row /\ metrics \in Seq(Row \cup Bad)
  BY ViewRowType DEF WriteRow, TypeInv, TypeOK, Bad
<1>2. PICK g : g = metrics'
  OBVIOUS
<1>3. g = AppendMetric(metrics, ViewRow, "ok") /\ Readable(g)
  BY <1>2 DEF WriteRow, Damaged, Readable
<1>4. ViewRow \in Lines(g)
  BY <1>1, <1>3, AppendMetricWrites
<1>5. Rows' = Lines(g)
  BY <1>2 DEF Rows, Lines
<1>6. ViewRow.ask = <<i, q>> /\ ViewRow.view = view
  BY DEF ViewRow
<1>7. QED
  BY <1>4, <1>5, <1>6

-----------------------------------------------------------------------------
(* Pairs are of questions whose rows are in the metrics. *)

\* The loop is inside a sample.
InSample == InCapture \cup {"question", "pairs"}
\* Every view of question p of sample k has a row.
Complete(k, p) == \A v \in 1 .. dataset[k].views : HasRow(<<k, p>>, v)

\* While every line of the metrics parses: the views before the one that is written next
\* have their rows; so have the cached questions, and both questions of a pair that is
\* due. The property alone does not say what the cache holds.
CacheComplete ==
    /\ pc = "rows" => \A v \in 1 .. view - 1 : HasRow(<<i, q>>, v)
    /\ pc \in InSample => \A l \in 1 .. Len(cache) : Complete(i, cache[l])
    /\ pc = "pairs" =>
         \A p \in due : p.src = i /\ Complete(i, p.left) /\ Complete(i, p.right)

BackedInv == TypeInv /\ (~Damaged => PairBacked /\ CacheComplete)

\* No row is lost by a step that leaves an undamaged file, unless it deletes the file.
LEMMA CompleteKept ==
    ASSUME TypeInv, [Next]_vars, ~(Start /\ overwrite), NEW k, NEW p,
           Complete(k, p), ~Damaged'
    PROVE  Complete(k, p)'
<1>1. dataset' = dataset
  BY DatasetFixed
<1>2. QED
  BY <1>1, RowsKept DEF Complete, HasRow

\* Only a pair that is due is ever new; without its newline when the write fails or the
\* run is killed in it.
NewPair(pair, p) ==
    pc = "pairs" /\ p \in due /\ SamePair(pair, p) /\ (WritePair(p) \/ Kill)

LEMMA PairLines ==
    ASSUME TypeInv, [Next]_vars, NEW j \in 1 .. Len(pairs'), IsLine(pairs'[j])
    PROVE  /\ ~(Start /\ overwrite)
           /\ \/ j \in 1 .. Len(pairs) /\ pairs'[j] = pairs[j]
              \/ j = Len(pairs) + 1 /\ \E p \in due : NewPair(pairs'[j], p)
<1> USE DEF files
<1>m. pairs \in Seq(Pair \cup Bad) /\ due \subseteq Pair
  BY DEF TypeInv, TypeOK, Bad
<1>0. \A p : SamePair(p, p)
  BY DEF SamePair
<1>1. ASSUME NEW p \in due, WritePair(p) \/ Kill, pc = "pairs", ~Start, NEW outcome \in Outcomes,
             pairs' = AppendMetric(pairs, p, outcome)
      PROVE  \/ j \in 1 .. Len(pairs) /\ pairs'[j] = pairs[j]
             \/ j = Len(pairs) + 1 /\ \E x \in due : NewPair(pairs'[j], x)
  <2>1. GrownBy(pairs', pairs, p, outcome)
    BY <1>m, <1>1, BarePair, AppendMetricLines
  <2>2. \A pair : pair \in {p, Bare(p)} => NewPair(pair, p)
    BY <1>m, <1>0, <1>1, BarePair DEF NewPair
  <2>3. QED
    BY <1>1, <2>1, <2>2 DEF GrownBy
<1>2. CASE \E p \in due : WritePair(p)
  <2>1. PICK p \in due : WritePair(p)
    BY <1>2
  <2>2. PICK outcome \in Outcomes : pairs' = AppendMetric(pairs, p, outcome)
    BY <2>1 DEF WritePair, WriteOutcomes, Outcomes
  <2>3. pc = "pairs" /\ ~Start
    BY <2>1 DEF WritePair, Start
  <2>4. QED
    BY <1>1, <2>1, <2>2, <2>3
<1>3. CASE Kill /\ ~UNCHANGED pairs
  <2>1. PICK p \in due, cut \in Outcomes : pairs' = AppendMetric(pairs, p, cut)
    BY <1>3 DEF Kill, KillWithin, Outcomes
  <2>2. pc = "pairs" /\ ~Start
    BY <1>3 DEF Kill, KillWithin, Start
  <2>3. QED
    BY <1>1, <1>3, <2>1, <2>2
<1>4. CASE Start
  BY <1>4, EmptySeq DEF Start, DeleteOld
<1>5. CASE UNCHANGED pairs /\ ~Start
  BY <1>5
<1>6. Kill => ~Start
  BY DEF Kill, Start
<1>7. QED
  BY <1>2, <1>3, <1>4, <1>5, <1>6
  DEF Next, Work, SampleStep, CaptureStep, QuestionStep, PairStep, Finished, vars,
      Return, SkipUnrecorded, LoadFails, OpenSample, SkipExisting, BuildFails,
      BeginCapture, EncoderPass, GenerateReturns, GenerateRaises, ReadPayload, WriteRow,
      Render, CloseQuestion, LogError, EndQuestions, EndSample, Restart

LEMMA BackedInit == Init => BackedInv
BY TypeInvInit, EmptySeq DEF Init, BackedInv, PairBacked, CacheComplete, InSample, InCapture

LEMMA BackedPair ==
    ASSUME PairBacked, ~Damaged, NEW j \in 1 .. Len(pairs), NEW pair, pair = pairs[j], IsLine(pair),
           NEW p \in {pair.left, pair.right}
    PROVE  Complete(pair.src, p)
<1> DEFINE B(r) == \A x \in {r.left, r.right}, v \in 1 .. dataset[r.src].views :
                     \E s \in Rows : s.ask = <<r.src, x>> /\ s.view = v
<1>1. B(pairs[j])
  BY DEF PairBacked, Damaged
<1>2. B(pair)
  <2> HIDE DEF B
  <2> QED  BY <1>1
<1>3. QED
  BY <1>2 DEF Complete, HasRow

LEMMA PairBackedStep ==
    ASSUME TypeInv, [Next]_vars, PairBacked, CacheComplete, ~Damaged'
    PROVE  PairBacked'
<1>1. SUFFICES ASSUME NEW pair, NEW j \in 1 .. Len(pairs'), pair = pairs'[j], IsLine(pair),
                      NEW p \in {pair.left, pair.right}
               PROVE  Complete(pair.src, p)'
  BY DEF PairBacked, Complete, HasRow
<1>2. ~(Start /\ overwrite)
  BY <1>1, PairLines
<1>3. CASE j \in 1 .. Len(pairs) /\ pairs[j] = pair
  <2>1. ~Damaged
    BY <1>2, RowsKept
  <2>2. Complete(pair.src, p)
    BY <1>1, <1>3, <2>1, BackedPair
  <2>3. QED
    BY <1>2, <2>2, CompleteKept
<1>4. ASSUME NEW d \in due, NewPair(pair, d) PROVE Complete(pair.src, p)'
  <2>1. Complete(i, d.left) /\ Complete(i, d.right) /\ d.src = i
    BY <1>4 DEF CacheComplete, NewPair
  <2>2. pair.src = i /\ p \in {d.left, d.right}
    BY <1>1, <1>4, <2>1 DEF NewPair, SamePair
  <2>3. Complete(pair.src, p)
    <3>1. p = d.left \/ p = d.right
      BY <2>2
    <3>2. QED
      BY <2>1, <2>2, <3>1
  <2>4. QED
    BY <1>2, <2>3, CompleteKept
<1>5. QED
  BY <1>1, <1>3, <1>4, PairLines

LEMMA CacheCompleteStep ==
    ASSUME TypeInv, [Next]_vars, CacheComplete, ~Damaged'
    PROVE  CacheComplete'
<1> USE DEF files, capture, loop, job
<1>t. view \in Nat /\ i \in 1 .. N + 1 /\ q \in 1 .. MaxQ + 1 /\ cache \in Seq(Questions)
      /\ Len(cache) \in Nat
  BY AnalysisAssumption, LenProperties DEF TypeInv, TypeOK
<1>c. ASSUME pc \in InSample, UNCHANGED <<i, cache>>
      PROVE  \A l \in 1 .. Len(cache') : Complete(i, cache[l])'
  <2>1. \A l \in 1 .. Len(cache) : Complete(i, cache[l])
    BY <1>c DEF CacheComplete
  <2>2. ~Start
    BY <1>c DEF Start, InSample, InCapture
  <2>3. SUFFICES ASSUME NEW k, NEW p, Complete(k, p) PROVE Complete(k, p)'
    BY <1>c, <2>1
  <2>4. QED
    BY <2>2, <2>3, CompleteKept
<1>1. CASE pc' \notin InSample
  BY <1>1 DEF CacheComplete, InSample, InCapture
<1>2. CASE OpenSample
  BY <1>2, EmptySeq DEF OpenSample, CacheComplete, InSample, InCapture
<1>3. CASE ReadPayload
  BY <1>3, <1>c DEF ReadPayload, CacheComplete, InSample, InCapture
<1>4. CASE WriteRow
  <2>1. /\ pc = "rows" /\ pc \in InSample /\ UNCHANGED <<dataset, i, q>> /\ ~Start
        /\ view \in 1 .. dataset[i].views /\ dataset[i].views \in Int
    BY <1>4, SampleBounds
    DEF WriteRow, Start, InSample, InCapture, TypeInv, Position
  <2>2. \A v \in 1 .. view - 1 : HasRow(<<i, q>>, v)
    BY <2>1 DEF CacheComplete
  <2>3. ASSUME pc' # "except", NEW v \in 1 .. view
        PROVE  \E r \in Rows' : r.ask = <<i, q>> /\ r.view = v
    <3>1. CASE v = view
      BY <1>4, <2>3, <3>1, WriteRowWrites
    <3>2. CASE v # view
      <4>1. HasRow(<<i, q>>, v)
        BY <1>t, <2>2, <2>3, <3>2
      <4>2. QED
        BY <2>1, <4>1, RowsKept DEF HasRow
    <3>3. QED
      BY <3>1, <3>2
  <2>4. CASE pc' = "except" /\ UNCHANGED <<view, cache>>
    BY <1>c, <2>1, <2>4 DEF CacheComplete
  <2>5. CASE pc' = "rows" /\ view' = view + 1 /\ UNCHANGED cache
    <3>1. \A v \in 1 .. view' - 1 : v \in 1 .. view
      BY <1>t, <2>5
    <3>2. \A v \in 1 .. view' - 1 : HasRow(<<i, q>>, v)'
      BY <2>1, <2>3, <2>5, <3>1 DEF HasRow
    <3>3. QED
      BY <1>c, <2>1, <2>5, <3>2 DEF CacheComplete
  <2>6. CASE pc' = "render" /\ ~(view < dataset[i].views) /\ cache' = Append(cache, q)
    <3>1. q \in Questions
      BY <1>4, AnalysisAssumption, SampleBounds
      DEF WriteRow, Questions, TypeInv, Position, InCapture
    <3>2. /\ Len(cache') = Len(cache) + 1 /\ cache'[Len(cache) + 1] = q
          /\ \A l \in 1 .. Len(cache) : cache'[l] = cache[l]
      BY <1>t, <2>6, <3>1, AppendProperties
    <3>3. view = dataset[i].views
      BY <2>1, <2>6
    <3>4. ASSUME NEW k, NEW p, k = i, p = q PROVE Complete(k, p)'
      BY <2>1, <2>3, <2>6, <3>3, <3>4 DEF Complete, HasRow
    <3>5. ASSUME NEW k, NEW l \in 1 .. Len(cache), NEW p, k = i, p = cache[l]
          PROVE  Complete(k, p)'
      BY <2>1, <3>5, CompleteKept DEF CacheComplete
    <3>6. ASSUME NEW l \in 1 .. Len(cache') PROVE Complete(i, cache[l])'
      <4>1. l \in 1 .. Len(cache) \/ l = Len(cache) + 1
        BY <1>t, <3>2
      <4>2. PICK k, p : k = i /\ p = cache'[l]
        OBVIOUS
      <4>3. Complete(k, p)'
        BY <3>2, <3>4, <3>5, <4>1, <4>2
      <4>4. QED
        BY <2>1, <4>2, <4>3
    <3>7. QED
      BY <2>6, <3>6 DEF CacheComplete
  <2>7. QED
    BY <1>4, <2>4, <2>5, <2>6 DEF WriteRow
<1>5. CASE EndQuestions
  <2>1. /\ Rows' = Rows /\ UNCHANGED <<dataset, i, cache>>
        /\ pc \in InSample /\ pc' = "pairs"
    BY <1>5 DEF EndQuestions, Rows, Lines, InSample, InCapture
  <2>2. \A k, p : Complete(k, p)' <=> Complete(k, p)
    BY <2>1 DEF Complete, HasRow
  <2>3. \A p \in due' : \E l, r \in 1 .. Len(cache) :
            p = [src |-> i, left |-> cache[l], right |-> cache[r], ended |-> TRUE]
    BY <1>5 DEF EndQuestions
  <2>4. ASSUME NEW p \in due' PROVE p.src = i /\ Complete(i, p.left) /\ Complete(i, p.right)
    <3>1. PICK l \in 1 .. Len(cache), r \in 1 .. Len(cache) :
            p = [src |-> i, left |-> cache[l], right |-> cache[r], ended |-> TRUE]
      BY <2>3
    <3>2. p.src = i /\ p.left = cache[l] /\ p.right = cache[r]
      BY <3>1
    <3>3. QED
      BY <2>1, <3>2 DEF CacheComplete
  <2>5. \A p \in due' : p.src = i' /\ Complete(i, p.left)' /\ Complete(i, p.right)'
    BY <2>1, <2>2, <2>4
  <2>6. QED
    BY <1>c, <2>1, <2>5 DEF CacheComplete
<1>6. CASE \E p \in due : WritePair(p)
  <2>1. due' \subseteq due /\ pc = "pairs" /\ i' = i /\ cache' = cache /\ ~Start
    BY <1>6 DEF WritePair, Start
  <2>2. \A p \in due : p.src = i /\ Complete(i, p.left) /\ Complete(i, p.right)
    BY <2>1 DEF CacheComplete
  <2>3. ASSUME NEW p \in due' PROVE (p.src = i /\ Complete(i, p.left) /\ Complete(i, p.right))'
    BY <2>1, <2>2, CompleteKept
  <2>4. QED
    BY <1>6, <2>1, <2>3, <1>c DEF CacheComplete, InSample, InCapture, WritePair
<1>7. CASE SkipExisting \/ BeginCapture \/ EncoderPass \/ GenerateReturns \/ GenerateRaises
           \/ Render \/ CloseQuestion \/ LogError
  <2>1. pc \in InSample /\ i' = i /\ cache' = cache /\ pc' \notin {"rows", "pairs"}
    BY <1>7 DEF SkipExisting, BeginCapture, EncoderPass, GenerateReturns, GenerateRaises,
                Render, CloseQuestion, LogError, InSample, InCapture
  <2>2. QED
    BY <2>1, <1>c DEF CacheComplete
<1>8. CASE UNCHANGED vars
  <2>1. Rows' = Rows /\ UNCHANGED <<dataset, cache, due, pc, i, q, view>>
    BY <1>8 DEF vars, Rows, Lines
  <2>2. \A k, p : Complete(k, p)' <=> Complete(k, p)
    BY <2>1 DEF Complete, HasRow
  <2>3. QED
    BY <2>1, <2>2 DEF CacheComplete, HasRow
<1>9. QED
  BY <1>1, <1>2, <1>3, <1>4, <1>5, <1>6, <1>7, <1>8
  DEF Next, Work, SampleStep, CaptureStep, QuestionStep, PairStep, Finished,
      Start, Return, SkipUnrecorded, LoadFails, BuildFails, EndSample, Kill, Restart,
      InSample, InCapture

LEMMA BackedStep == BackedInv /\ [Next]_vars => BackedInv'
<1> SUFFICES ASSUME BackedInv, [Next]_vars, ~Damaged' PROVE PairBacked' /\ CacheComplete'
  BY TypeInvStep DEF BackedInv
<1>1. CASE Start /\ overwrite
  BY <1>1, EmptySeq
  DEF Start, DeleteOld, PairBacked, CacheComplete, InSample, InCapture
<1>2. CASE ~(Start /\ overwrite)
  <2>1. PairBacked /\ CacheComplete
    BY <1>2, RowsKept DEF BackedInv
  <2>2. QED
    BY <2>1, PairBackedStep, CacheCompleteStep DEF BackedInv
<1>3. QED
  BY <1>1, <1>2

\* PairBacked holds over any number of runs, whatever fails and however they are killed:
\* a metrics file that parses has every row of both questions of every pair.
THEOREM PairsHaveRows == Spec => []PairBacked
<1>1. BackedInv => PairBacked
  BY DEF BackedInv, PairBacked, Damaged
<1>2. QED
  BY <1>1, BackedInit, BackedStep, PTL DEF Spec

-----------------------------------------------------------------------------
(* Two questions are compared once. *)

\* A run is at work on the samples.
Running == ~Over /\ pc # "start"

\* The left question of the pair was read back when the run began, or its sample is
\* behind the loop, or it is the current one and the pair is not due any more.
Settled(p) ==
    \/ Key(<<p.src, p.left>>) \in existing
    \/ p.src < i
    \/ p.src = i /\ pc = "pairs" /\ \A d \in due : ~SamePair(d, p)

\* What is cached and what is due was not read back, while every pair in the file is
\* settled. Nothing looks the pairs up: only that both questions of a pair in the file
\* have rows keeps the next run from comparing them again.
PairsNew ==
    /\ pc \in InSample => \A l \in 1 .. Len(cache) : Key(<<i, cache[l]>>) \notin existing
    /\ pc = "pairs" => \A p \in due : p.src = i /\ p.ended /\ Key(<<i, p.left>>) \notin existing
    /\ Running => \A j \in 1 .. Len(pairs) : IsLine(pairs[j]) => Settled(pairs[j])

PairOnceInv == BackedInv /\ Fresh /\ PairsNew /\ PairOnce

LEMMA PairOnceInit == Init => PairOnceInv
<1>1. Init => Fresh
  BY OnceInvInit DEF OnceInv
<1>2. QED
  BY <1>1, BackedInit, EmptySeq
  DEF Init, PairOnceInv, PairsNew, PairOnce, Running, Over, InSample, InCapture

\* A run that is at work has begun with this step, or was at work and still knows the
\* keys it read back.
LEMMA RunningStep ==
    ASSUME TypeInv, [Next]_vars, Running'
    PROVE  \/ Start /\ pc' = "sample"
           \/ /\ Running /\ ~Start /\ existing' = existing
              /\ i' = i \/ (i' = i + 1 /\ pc' = "sample" /\ (EndSample \/ SkipUnrecorded))
<1> USE DEF files, capture, loop, job
<1>1. CASE Start \/ Return \/ SkipUnrecorded \/ LoadFails \/ OpenSample
  BY <1>1 DEF Start, Return, SkipUnrecorded, LoadFails, OpenSample, Running, Over
<1>2. CASE SkipExisting \/ BuildFails \/ BeginCapture \/ EncoderPass \/ GenerateReturns
           \/ GenerateRaises \/ ReadPayload
  BY <1>2 DEF SkipExisting, BuildFails, BeginCapture, EncoderPass, GenerateReturns,
              GenerateRaises, ReadPayload, Running, Over, Start
<1>3. CASE WriteRow \/ Render \/ CloseQuestion \/ LogError \/ EndQuestions \/ EndSample
           \/ \E p \in due : WritePair(p)
  BY <1>3 DEF WriteRow, Render, CloseQuestion, LogError, EndQuestions, EndSample, WritePair,
              Running, Over, Start
<1>4. CASE Kill \/ Restart \/ UNCHANGED vars
  BY <1>4 DEF Kill, Restart, vars, Running, Over, Start
<1>5. QED
  BY <1>1, <1>2, <1>3, <1>4
  DEF Next, Work, SampleStep, CaptureStep, QuestionStep, PairStep, Finished

LEMMA PairsNewStep ==
    ASSUME PairOnceInv, [Next]_vars
    PROVE  PairsNew'
<1> USE DEF files, capture, loop, job
<1>t. /\ TypeInv /\ i \in 1 .. N + 1 /\ q \in 1 .. MaxQ + 1 /\ cache \in Seq(Questions)
      /\ Len(cache) \in Nat /\ N \in Nat /\ pairs \in Seq(Pair \cup Bad)
  BY AnalysisAssumption, LenProperties
  DEF PairOnceInv, BackedInv, TypeInv, TypeOK, Bad
<1>k. /\ \A ask : Key(ask)' = Key(ask)
      /\ i' = i /\ cache' = cache => \A l : Key(<<i, cache[l]>>)' = Key(<<i, cache[l]>>)
      /\ i' = i => \A p : Key(<<i, p>>)' = Key(<<i, p>>)
  BY DatasetFixed DEF Key
<1>1. pc' \in InSample => \A l \in 1 .. Len(cache') : Key(<<i, cache[l]>>)' \notin existing'
  <2> SUFFICES ASSUME pc' \in InSample
               PROVE  \A l \in 1 .. Len(cache') : Key(<<i, cache[l]>>)' \notin existing'
    OBVIOUS
  <2>0. Running'
    BY DEF Running, Over, InSample, InCapture
  <2>1. CASE OpenSample
    BY <2>1, EmptySeq DEF OpenSample
  <2>2. CASE WriteRow /\ pc' = "render"
    <3>1. q \in Questions /\ Key(<<i, q>>) \notin existing /\ pc \in InSample
      BY <1>t, <2>2, AnalysisAssumption, SampleBounds
      DEF WriteRow, Questions, TypeInv, Position, InCapture, InSample, PairOnceInv, Fresh
    <3>2. i' = i /\ existing' = existing /\ cache' = Append(cache, q)
      BY <2>2 DEF WriteRow
    <3>3. /\ Len(cache') = Len(cache) + 1 /\ cache'[Len(cache) + 1] = q
          /\ \A l \in 1 .. Len(cache) : cache'[l] = cache[l]
      BY <1>t, <3>1, <3>2, AppendProperties
    <3>4. \A l \in 1 .. Len(cache) : Key(<<i, cache[l]>>) \notin existing
      BY <3>1 DEF PairOnceInv, PairsNew
    <3>5. \A l \in 1 .. Len(cache') : l \in 1 .. Len(cache) \/ l = Len(cache) + 1
      BY <1>t, <3>3
    <3>6. ASSUME NEW l \in 1 .. Len(cache') PROVE Key(<<i, cache[l]>>)' \notin existing'
      <4>1. PICK p : p = cache'[l]
        OBVIOUS
      <4>2. Key(<<i, p>>) \notin existing
        BY <3>1, <3>3, <3>4, <3>5, <4>1
      <4>3. Key(<<i, cache[l]>>)' = Key(<<i, p>>)
        BY <1>k, <3>2, <4>1 DEF Key
      <4>4. QED
        BY <3>2, <4>2, <4>3
    <3>7. QED
      BY <3>6
  <2>3. CASE pc \in InSample /\ UNCHANGED <<i, cache, existing>>
    BY <2>3, <1>k DEF PairOnceInv, PairsNew
  <2>4. WriteRow /\ pc' # "render" => pc \in InSample /\ UNCHANGED <<i, cache, existing>>
    BY DEF WriteRow, InSample, InCapture
  <2>5. ~(Start \/ Return \/ SkipUnrecorded \/ LoadFails \/ BuildFails \/ EndSample \/ Kill
            \/ Restart)
    BY DEF Start, Return, SkipUnrecorded, LoadFails, BuildFails, EndSample, Kill, Restart,
           InSample, InCapture
  <2>6. SkipExisting \/ CaptureStep \/ ReadPayload \/ Render \/ CloseQuestion \/ LogError
          => pc \in InSample /\ UNCHANGED <<i, cache, existing>>
    BY DEF SkipExisting, CaptureStep, BeginCapture, EncoderPass, GenerateReturns,
           GenerateRaises, ReadPayload, Render, CloseQuestion, LogError, InSample, InCapture
  <2>7. EndQuestions \/ (\E p \in due : WritePair(p)) \/ UNCHANGED vars
          => pc \in InSample /\ UNCHANGED <<i, cache, existing>>
    BY DEF EndQuestions, WritePair, vars, InSample, InCapture
  <2>8. QED
    BY <2>1, <2>2, <2>3, <2>4, <2>5, <2>6, <2>7
    DEF Next, Work, SampleStep, QuestionStep, PairStep, Finished
<1>2. pc' = "pairs" =>
        \A p \in due' : p.src = i' /\ p.ended /\ Key(<<i, p.left>>)' \notin existing'
  <2> SUFFICES ASSUME pc' = "pairs", NEW p \in due'
               PROVE  p.src = i' /\ p.ended /\ Key(<<i, p.left>>)' \notin existing'
    OBVIOUS
  <2>1. CASE EndQuestions
    <3>1. PICK l \in 1 .. Len(cache), r \in 1 .. Len(cache) :
            p = [src |-> i, left |-> cache[l], right |-> cache[r], ended |-> TRUE]
      BY <2>1 DEF EndQuestions
    <3>2. p.src = i /\ p.ended /\ p.left = cache[l]
      BY <3>1
    <3>3. QED
      BY <2>1, <3>2, <1>k DEF EndQuestions, PairOnceInv, PairsNew, InSample
  <2>2. CASE pc = "pairs" /\ due' \subseteq due /\ UNCHANGED <<i, existing>>
    BY <2>2, <1>k DEF PairOnceInv, PairsNew
  <2>3. QED
    BY <2>1, <2>2
    DEF Next, Work, SampleStep, CaptureStep, QuestionStep, PairStep, Finished, vars,
        Start, Return, SkipUnrecorded, LoadFails, OpenSample, SkipExisting, BuildFails,
        BeginCapture, EncoderPass, GenerateReturns, GenerateRaises, ReadPayload, WriteRow,
        Render, CloseQuestion, LogError, EndSample, WritePair, Kill, Restart
<1>3. ASSUME Running', NEW pair, NEW j \in 1 .. Len(pairs'), pair = pairs'[j], IsLine(pair)
      PROVE  Settled(pair)'
  <2>1. CASE Start /\ pc' = "sample"
    <3>1. ~overwrite /\ j \in 1 .. Len(pairs) /\ pair = pairs[j]
      <4>1. \A p : ~NewPair(pairs'[j], p)
        BY <2>1 DEF Start, NewPair
      <4>2. QED
        BY <1>3, <1>t, <2>1, <4>1, PairLines
    <3>p. pair \in Pair
      BY <1>3, <1>t, <3>1 DEF IsLine, Bad
    <3>2. Readable(metrics) /\ existing' = {Key(r.ask)' : r \in Rows}
      BY <2>1, <3>1, <1>k DEF Start, StartFrame, DeleteOld, Rows, Readable, Lines
    <3>3. PairBacked /\ ~Damaged
      BY <3>2 DEF PairOnceInv, BackedInv, Damaged
    <3>4. 1 \in 1 .. dataset[pair.src].views
      <4>1. pair.src \in 1 .. N
        BY <3>p DEF Pair
      <4>2. PICK m : m = dataset[pair.src].views
        OBVIOUS
      <4>3. m \in 1 .. MaxViews
        BY <1>t, <4>1, <4>2, SampleBounds
      <4>4. 1 \in 1 .. m
        BY <4>3, AnalysisAssumption
      <4>5. QED
        BY <4>2, <4>4
    <3>5. \E r \in Rows : r.ask = <<pair.src, pair.left>> /\ r.view = 1
      <4>1. pair.left \in {pair.left, pair.right} /\ IsLine(pair) /\ pair = pairs[j]
        BY <1>3, <3>1
      <4>2. Complete(pair.src, pair.left)
        BY <3>1, <3>3, <4>1, BackedPair
      <4>3. HasRow(<<pair.src, pair.left>>, 1)
        BY <3>4, <4>2 DEF Complete
      <4>4. QED
        BY <4>3 DEF HasRow
    <3>6. Key(<<pair.src, pair.left>>)' \in existing'
      BY <3>2, <3>5
    <3>7. QED
      BY <3>6 DEF Settled
  <2>2. CASE /\ Running /\ ~Start /\ existing' = existing
             /\ i' = i \/ (i' = i + 1 /\ pc' = "sample" /\ (EndSample \/ SkipUnrecorded))
    <3>1. ASSUME NEW p \in due, NewPair(pair, p) PROVE Settled(pair)'
      <4>1. /\ pc = "pairs" /\ pc' = "pairs" /\ due' = due \ {p} /\ UNCHANGED i
        BY <1>3, <3>1 DEF NewPair, WritePair, Kill, Running, Over
      <4>2. p \in Pair /\ p.ended /\ p.src = i /\ pair.src = p.src
        BY <1>t, <3>1, <4>1
        DEF NewPair, SamePair, PairOnceInv, PairsNew, TypeInv, TypeOK
      <4>3. ASSUME NEW d \in due, SamePair(d, pair) PROVE d = p
        <5>1. d \in Pair /\ d.ended
          BY <1>t, <4>1 DEF PairOnceInv, PairsNew, TypeInv, TypeOK
        <5>2. d.src = p.src /\ d.left = p.left /\ d.right = p.right
          BY <3>1, <4>3 DEF NewPair, SamePair
        <5>3. QED
          BY <4>2, <5>1, <5>2 DEF Pair
      <4>4. QED
        BY <4>1, <4>2, <4>3 DEF Settled
    <3>2. CASE j \in 1 .. Len(pairs) /\ pair = pairs[j]
      <4>1. Settled(pair) /\ pair \in Pair
        BY <1>3, <1>t, <2>2, <3>2 DEF PairOnceInv, PairsNew, IsLine, Bad
      <4>2. pair.src \in Int
        BY <4>1 DEF Pair
      <4>3. CASE pair.src < i \/ Key(<<pair.src, pair.left>>) \in existing
        BY <1>t, <1>k, <2>2, <4>2, <4>3 DEF Settled
      <4>4. CASE pair.src = i /\ pc = "pairs" /\ \A d \in due : ~SamePair(d, pair)
        <5>1. CASE i' = i
          <6>1. pc' = "pairs" /\ due' \subseteq due
            BY <1>3, <4>4, <5>1, <1>t
            DEF Next, Work, SampleStep, CaptureStep, QuestionStep, PairStep, Finished, vars,
                Start, Return, SkipUnrecorded, LoadFails, OpenSample, SkipExisting,
                BuildFails, BeginCapture, EncoderPass, GenerateReturns, GenerateRaises,
                ReadPayload, WriteRow, Render, CloseQuestion, LogError, EndQuestions,
                EndSample, WritePair, Kill, Restart, Running, Over
          <6>2. QED
            BY <4>4, <5>1, <6>1 DEF Settled
        <5>2. CASE i' = i + 1
          BY <1>t, <4>4, <5>2 DEF Settled
        <5>3. QED
          BY <2>2, <5>1, <5>2
      <4>5. QED
        BY <4>1, <4>3, <4>4 DEF Settled
    <3>3. QED
      BY <1>3, <1>t, <3>1, <3>2, PairLines
  <2>3. QED
    BY <1>3, <1>t, <2>1, <2>2, RunningStep
<1>4. Running' => \A j \in 1 .. Len(pairs') : IsLine(pairs'[j]) => Settled(pairs[j])'
  <2> SUFFICES ASSUME Running', NEW j \in 1 .. Len(pairs'), IsLine(pairs'[j])
               PROVE  Settled(pairs[j])'
    OBVIOUS
  <2>1. PICK pair : pair = pairs'[j]
    OBVIOUS
  <2>2. Settled(pair)'
    BY <1>3, <2>1
  <2>3. QED
    BY <2>1, <2>2
<1>5. QED
  BY <1>1, <1>2, <1>4 DEF PairsNew

LEMMA PairOnceStep ==
    ASSUME PairOnceInv, [Next]_vars
    PROVE  PairOnce'
<1>t. TypeInv /\ pairs \in Seq(Pair \cup Bad) /\ Len(pairs) \in Nat
  BY LenProperties DEF PairOnceInv, BackedInv, TypeInv, TypeOK, Bad
<1>1. ASSUME NEW j \in 1 .. Len(pairs), IsLine(pairs[j]), NEW pair, NEW p \in due,
             NewPair(pair, p)
      PROVE  ~SamePair(pairs[j], pair)
  <2>1. Running /\ pc = "pairs"
    BY <1>1 DEF NewPair, Running, Over
  <2>2. Settled(pairs[j]) /\ p.src = i /\ Key(<<i, p.left>>) \notin existing /\ i \in Int
    BY SMTT(40), <1>1, <1>t, <2>1 DEF PairOnceInv, PairsNew, TypeInv, TypeOK
  <2>3. SUFFICES ASSUME NEW old, old = pairs[j], SamePair(old, pair) PROVE FALSE
    OBVIOUS
  <2>4. old.src = p.src /\ old.left = p.left /\ SamePair(p, old)
    BY <1>1, <2>3 DEF NewPair, SamePair
  <2>5. Settled(old)
    BY <2>2, <2>3
  <2>6. Key(<<old.src, old.left>>) = Key(<<i, p.left>>)
    BY <2>2, <2>4
  <2>7. QED
    BY <2>2, <2>4, <2>5, <2>6 DEF Settled
<1>2. ASSUME NEW j \in 1 .. Len(pairs'), NEW l \in 1 .. Len(pairs'), j # l,
             IsLine(pairs'[j]), IsLine(pairs'[l]), SamePair(pairs'[j], pairs'[l])
      PROVE  FALSE
  <2>1. /\ \/ j \in 1 .. Len(pairs) /\ pairs'[j] = pairs[j]
           \/ j = Len(pairs) + 1 /\ \E p \in due : NewPair(pairs'[j], p)
        /\ \/ l \in 1 .. Len(pairs) /\ pairs'[l] = pairs[l]
           \/ l = Len(pairs) + 1 /\ \E p \in due : NewPair(pairs'[l], p)
    BY <1>2, <1>t, PairLines
  <2>2. CASE j \in 1 .. Len(pairs) /\ l \in 1 .. Len(pairs)
    BY <1>2, <1>t, <2>1, <2>2 DEF PairOnceInv, PairOnce
  <2>3. \A a, b : SamePair(a, b) => SamePair(b, a)
    BY DEF SamePair
  <2>4. CASE j \in 1 .. Len(pairs) /\ l = Len(pairs) + 1
    BY <1>1, <1>2, <1>t, <2>1, <2>4
  <2>5. CASE l \in 1 .. Len(pairs) /\ j = Len(pairs) + 1
    BY <1>1, <1>2, <1>t, <2>1, <2>3, <2>5
  <2>6. QED
    BY <1>2, <2>1, <2>2, <2>4, <2>5
<1>3. QED
  BY <1>2 DEF PairOnce

\* PairOnce holds over any number of runs, whatever fails and however they are killed.
THEOREM PairsNeverRepeat == Spec => []PairOnce
<1>1. PairOnceInv /\ [Next]_vars => PairOnceInv'
  BY BackedStep, FreshStep, PairsNewStep, PairOnceStep DEF PairOnceInv, BackedInv
<1>2. PairOnceInv => PairOnce
  BY DEF PairOnceInv
<1>3. QED
  BY <1>1, <1>2, PairOnceInit, PTL DEF Spec

-----------------------------------------------------------------------------
(* Every question has a row or is named in the error file. *)

\* A line of the metrics or of the error file does not parse.
Unsound == Damaged \/ ~Readable(errorLog)
Named(key) == \E ask \in failed \cup {r.ask : r \in Rows} : Key(ask) = key
Noted(ask) == Named(Key(ask))

\* What the loop has to have accounted for when it is at question q of sample i. The
\* property speaks of a finished run only, and of what an earlier run left.
LoopAccounted ==
    /\ \A key \in existing : Named(key)
    /\ \A k \in 1 .. N :
         k < i /\ dataset[k].recorded => \A p \in 1 .. dataset[k].n : Noted(<<k, p>>)
    /\ pc \in InSample => \A p \in 1 .. dataset[i].n : p < q => Noted(<<i, p>>)
    /\ pc = "pairs" => q > dataset[i].n
    /\ pc \in {"render", "close"} => Noted(<<i, q>>)

AccountedInv ==
    /\ TypeInv
    /\ pc = "start" => i = 1
    /\ ~Unsound => Accounted /\ (Running => LoopAccounted)

LEMMA ErrorsKept ==
    ASSUME TypeInv, [Next]_vars, ~(Start /\ overwrite)
    PROVE  KeptIn(errorLog, errorLog')
<1> USE DEF files
<1>m. errorLog \in Seq(Failure \cup Bad) /\ Len(errorLog) \in Nat
  BY LenProperties DEF TypeInv, TypeOK, Bad
<1>1. CASE UNCHANGED errorLog
  BY <1>m, <1>1 DEF KeptIn
<1>2. ASSUME pc = "except", NEW outcome \in Outcomes,
             errorLog' = AppendMetric(errorLog, ErrorRecord, outcome)
      PROVE  KeptIn(errorLog, errorLog')
  <2>1. ErrorRecord \in Failure
    BY <1>2, ErrorRecordType
  <2>2. QED
    BY <1>m, <1>2, <2>1, BareFailure, AppendMetricLines
<1>3. CASE LogError
  <2>1. PICK outcome \in Outcomes : errorLog' = AppendMetric(errorLog, ErrorRecord, outcome)
    BY <1>3 DEF LogError, WriteOutcomes, Outcomes
  <2>2. QED
    BY <1>2, <1>3, <2>1 DEF LogError
<1>4. CASE Kill /\ ~UNCHANGED errorLog
  <2>1. PICK cut \in Outcomes :
          pc = "except" /\ errorLog' = AppendMetric(errorLog, ErrorRecord, cut)
    BY <1>4 DEF Kill, KillWithin, Outcomes
  <2>2. QED
    BY <1>2, <2>1
<1>5. UNCHANGED errorLog \/ LogError \/ Kill
  BY DEF Next, Work, SampleStep, CaptureStep, QuestionStep, PairStep, Finished, vars,
         Start, DeleteOld, Return, SkipUnrecorded, LoadFails, OpenSample, SkipExisting,
         BuildFails, BeginCapture, EncoderPass, GenerateReturns, GenerateRaises,
         ReadPayload, WriteRow, Render, CloseQuestion, EndQuestions, EndSample, WritePair,
         Restart
<1>6. QED
  BY <1>1, <1>3, <1>4, <1>5

\* What the two files name, they name as long as both parse.
LEMMA FailedKept ==
    ASSUME TypeInv, [Next]_vars, ~(Start /\ overwrite), ~Unsound'
    PROVE  ~Unsound /\ failed \subseteq failed'
<1>1. PICK g : g = errorLog'
  OBVIOUS
<1>2. KeptIn(errorLog, g) /\ Readable(g)
  BY <1>1, ErrorsKept DEF Unsound, Readable
<1>3. Readable(errorLog) /\ Lines(errorLog) \subseteq Lines(g)
  BY <1>2, KeptLines
<1>4. failed' = {line.ask : line \in Lines(g)}
  BY <1>1 DEF failed, Lines
<1>5. ~Damaged
  BY RowsKept DEF Unsound
<1>6. QED
  BY <1>3, <1>4, <1>5 DEF Unsound, failed

LEMMA NamedKept ==
    ASSUME TypeInv, [Next]_vars, ~(Start /\ overwrite), ~Unsound', NEW key, Named(key)
    PROVE  Named(key)'
<1>1. failed \subseteq failed' /\ Rows \subseteq Rows'
  BY FailedKept, RowsKept DEF Unsound
<1>2. \A ask : Key(ask)' = Key(ask)
  BY DatasetFixed
<1>3. PICK ask \in failed \cup {r.ask : r \in Rows} : Key(ask) = key
  BY DEF Named
<1>4. ask \in failed' \cup {r.ask : r \in Rows'}
  BY <1>1
<1>5. QED
  BY <1>2, <1>3, <1>4 DEF Named

LEMMA NotedKept ==
    ASSUME TypeInv, [Next]_vars, ~(Start /\ overwrite), ~Unsound', NEW ask, Noted(ask)
    PROVE  Noted(ask)'
<1>1. PICK key : key = Key(ask)
  OBVIOUS
<1>2. Named(key)'
  BY <1>1, NamedKept DEF Noted
<1>3. Key(ask)' = key
  BY <1>1, DatasetFixed
<1>4. QED
  BY <1>2, <1>3 DEF Noted

\* A question with a row or an entry is noted.
LEMMA NotedNow ==
    ASSUME NEW ask, ask \in failed' \/ \E r \in Rows' : r.ask = ask
    PROVE  Noted(ask)'
BY DEF Noted, Named

\* A failure that is recorded names the question.
LEMMA LogErrorNames ==
    ASSUME TypeInv, LogError, ~Unsound', pc' = "question"
    PROVE  <<i, q>> \in failed'
<1>1. ErrorRecord \in Failure /\ errorLog \in Seq(Failure \cup Bad)
  BY ErrorRecordType DEF LogError, TypeInv, TypeOK, Bad
<1>2. PICK g : g = errorLog'
  OBVIOUS
<1>3. g = AppendMetric(errorLog, ErrorRecord, "ok") /\ Readable(g)
  BY <1>2 DEF LogError, Unsound, Readable
<1>4. ErrorRecord \in Lines(g)
  BY <1>1, <1>3, AppendMetricWrites
<1>5. failed' = {line.ask : line \in Lines(g)}
  BY <1>2 DEF failed, Lines
<1>6. ErrorRecord.ask = <<i, q>>
  BY DEF ErrorRecord
<1>7. QED
  BY <1>4, <1>5, <1>6

LEMMA AccountedInit == Init => AccountedInv
BY TypeInvInit DEF Init, AccountedInv, Accounted, Running, Over

\* A question is left behind when it was read back, has a row or is named as failed.
LEMMA QuestionAccounted ==
    ASSUME TypeInv, [Next]_vars, LoopAccounted, ~Unsound', pc' \in InSample,
           NEW k, k = i, NEW p \in 1 .. dataset[k].n, p < q'
    PROVE  Noted(<<k, p>>)'
<1> USE DEF files, capture, loop, job
<1>t. i \in 1 .. N + 1 /\ q \in 1 .. MaxQ + 1 /\ N \in Nat /\ MaxQ \in Nat
  BY AnalysisAssumption DEF TypeInv, TypeOK
<1>1. CASE OpenSample
  BY <1>1, <1>t DEF OpenSample
<1>2. CASE q' = q /\ pc \in InSample /\ ~Start
  BY <1>2, NotedKept DEF LoopAccounted
<1>3. CASE SkipExisting \/ CloseQuestion \/ LogError
  <2>1. CASE p < q
    <3>1. pc \in InSample /\ ~Start
      BY <1>3 DEF SkipExisting, CloseQuestion, LogError, Start, InSample, InCapture
    <3>2. QED
      BY <2>1, <3>1, NotedKept DEF LoopAccounted
  <2>2. CASE q' = q + 1 /\ p = q /\ ~LogError
    <3>1. Noted(<<k, p>>) /\ ~Start
      BY <1>3, <2>2 DEF SkipExisting, CloseQuestion, LoopAccounted, Start, Noted
    <3>2. QED
      BY <3>1, NotedKept
  <2>3. CASE q' = q + 1 /\ p = q /\ LogError
    <3>1. <<k, p>> \in failed' /\ pc' = "question"
      BY <2>3, LogErrorNames DEF LogError
    <3>2. QED
      BY <3>1, NotedNow
  <2>4. p < q \/ (q' = q + 1 /\ p = q)
    <3>1. q' = q \/ q' = q + 1
      BY <1>3 DEF SkipExisting, CloseQuestion, LogError
    <3>2. dataset[k].n \in Int \/ p \in Int
      OBVIOUS
    <3>3. QED
      BY <1>t, <3>1
  <2>5. QED
    BY <2>1, <2>2, <2>3, <2>4
<1>4. ~(Start \/ Return \/ SkipUnrecorded \/ LoadFails \/ BuildFails \/ EndSample \/ Kill
          \/ Restart)
  BY DEF Start, Return, SkipUnrecorded, LoadFails, BuildFails, EndSample, Kill, Restart,
         InSample, InCapture
<1>5. CaptureStep \/ ReadPayload \/ WriteRow \/ Render
        => q' = q /\ pc \in InSample /\ ~Start
  BY DEF CaptureStep, BeginCapture, EncoderPass, GenerateReturns, GenerateRaises,
         ReadPayload, WriteRow, Render, InSample, InCapture, Start
<1>6. EndQuestions \/ (\E s \in due : WritePair(s)) \/ UNCHANGED vars
        => q' = q /\ pc \in InSample /\ ~Start
  BY DEF EndQuestions, WritePair, vars, InSample, InCapture, Start
<1>7. QED
  BY <1>1, <1>2, <1>3, <1>4, <1>5, <1>6
  DEF Next, Work, SampleStep, QuestionStep, PairStep, Finished

LEMMA LoopAccountedStep ==
    ASSUME AccountedInv, [Next]_vars, ~Unsound', Running'
    PROVE  LoopAccounted'
<1> USE DEF files, capture, loop, job
<1>t. TypeInv /\ i \in 1 .. N + 1 /\ q \in 1 .. MaxQ + 1 /\ N \in Nat /\ MaxQ \in Nat
  BY AnalysisAssumption DEF AccountedInv, TypeInv, TypeOK
<1>d. dataset' = dataset
  BY DatasetFixed
<1>1. CASE Start /\ pc' = "sample"
  <2>1. existing' = {Key(r.ask)' : r \in Rows'}
    BY <1>1, DatasetFixed DEF Start
  <2>2. \A key \in existing' : Named(key)'
    BY <2>1 DEF Named
  <2>3. i' = 1
    BY <1>1 DEF Start, StartFrame, AccountedInv
  <2>4. QED
    BY <1>1, <2>2, <2>3 DEF LoopAccounted, InSample, InCapture
<1>2. CASE /\ Running /\ ~Start /\ existing' = existing
           /\ i' = i \/ (i' = i + 1 /\ pc' = "sample" /\ (EndSample \/ SkipUnrecorded))
  <2>1. LoopAccounted
    BY <1>2, <1>t, FailedKept DEF AccountedInv
  <2>2. \A key \in existing' : Named(key)'
    BY <1>2, <1>t, <2>1, NamedKept DEF LoopAccounted
  <2>3. ASSUME NEW k \in 1 .. N, k < i', dataset[k].recorded, NEW p \in 1 .. dataset[k].n
        PROVE  Noted(<<k, p>>)'
    <3>1. CASE k < i
      BY <1>2, <1>t, <2>1, <2>3, <3>1, NotedKept DEF LoopAccounted
    <3>2. CASE k = i /\ EndSample
      <4>1. pc = "pairs" /\ pc \in InSample /\ p < q
        BY <1>t, <2>1, <2>3, <3>2, SampleBounds DEF EndSample, LoopAccounted, InSample
      <4>2. Noted(<<k, p>>)
        BY <2>1, <2>3, <3>2, <4>1 DEF LoopAccounted
      <4>3. QED
        BY <1>2, <1>t, <4>2, NotedKept
    <3>3. CASE k = i /\ SkipUnrecorded
      BY <2>3, <3>3 DEF SkipUnrecorded
    <3>4. QED
      BY <1>2, <1>t, <2>3, <3>1, <3>2, <3>3
  <2>4. pc' \in InSample => \A p \in 1 .. dataset[i].n : p < q' => Noted(<<i, p>>)'
    <3>1. SUFFICES ASSUME pc' \in InSample, NEW k, k = i, NEW p \in 1 .. dataset[k].n, p < q'
                   PROVE  Noted(<<k, p>>)'
      BY <1>2 DEF InSample, InCapture
    <3>2. QED
      BY <1>t, <2>1, <3>1, QuestionAccounted
  <2>5. pc' = "pairs" => q' > dataset[i].n
    <3>1. CASE EndQuestions
      BY <1>t, <3>1, SampleBounds DEF EndQuestions, MoreQuestions, TypeInv, Position
    <3>2. CASE pc = "pairs" /\ q' = q
      BY <2>1, <3>2 DEF LoopAccounted
    <3>3. ~EndQuestions /\ pc' = "pairs" => pc = "pairs" /\ q' = q
      BY DEF Next, Work, SampleStep, CaptureStep, QuestionStep, PairStep, Finished, vars,
             Start, Return, SkipUnrecorded, LoadFails, OpenSample, SkipExisting, BuildFails,
             BeginCapture, EncoderPass, GenerateReturns, GenerateRaises, ReadPayload,
             WriteRow, Render, CloseQuestion, LogError, EndSample, WritePair, Kill, Restart
    <3>4. QED
      BY <3>1, <3>2, <3>3
  <2>6. pc' \in {"render", "close"} => Noted(<<i, q>>)' /\ q' = q /\ i' = i
    <3>1. CASE WriteRow /\ pc' = "render"
      BY <1>t, <3>1, WriteRowWrites, NotedNow DEF WriteRow, Unsound
    <3>2. CASE pc \in {"render", "close"} /\ i' = i /\ q' = q
      <4>1. Noted(<<i, q>>)
        BY <2>1, <3>2 DEF LoopAccounted
      <4>2. PICK ask : ask = <<i, q>>
        OBVIOUS
      <4>3. Noted(ask)'
        BY <1>2, <1>t, <4>1, <4>2, NotedKept
      <4>4. QED
        BY <3>2, <4>2, <4>3
    <3>3. ~WriteRow /\ pc' \in {"render", "close"}
            => pc \in {"render", "close"} /\ i' = i /\ q' = q
      BY DEF Next, Work, SampleStep, CaptureStep, QuestionStep, PairStep, Finished, vars,
             Start, Return, SkipUnrecorded, LoadFails, OpenSample, SkipExisting, BuildFails,
             BeginCapture, EncoderPass, GenerateReturns, GenerateRaises, ReadPayload,
             Render, CloseQuestion, LogError, EndQuestions, EndSample, WritePair, Kill,
             Restart
    <3>4. QED
      BY <3>1, <3>2, <3>3 DEF WriteRow
  <2>7. i' = i \/ pc' = "sample"
    BY <1>2
  <2>8. \A k \in 1 .. N :
          k < i' /\ dataset'[k].recorded => \A p \in 1 .. dataset'[k].n : Noted(<<k, p>>)'
    BY <1>d, <2>3
  <2>9. pc' \in InSample => \A p \in 1 .. dataset'[i'].n : p < q' => Noted(<<i, p>>)'
    BY <1>d, <2>4, <2>7 DEF InSample, InCapture
  <2>10. (pc' = "pairs" => q' > dataset'[i'].n)
         /\ (pc' \in {"render", "close"} => Noted(<<i, q>>)')
    BY <1>d, <2>5, <2>6, <2>7
  <2>11. QED
    BY <2>2, <2>8, <2>9, <2>10 DEF LoopAccounted
<1>3. QED
  BY <1>1, <1>2, <1>t, RunningStep

LEMMA AccountedStep == AccountedInv /\ [Next]_vars => AccountedInv'
<1> SUFFICES ASSUME AccountedInv, [Next]_vars PROVE AccountedInv'
  OBVIOUS
<1> USE DEF files, capture, loop, job
<1>t. TypeInv /\ TypeInv' /\ i \in 1 .. N + 1 /\ N \in Nat /\ MaxSamples \in Nat
  BY TypeInvStep, AnalysisAssumption DEF AccountedInv, TypeInv, TypeOK
<1>d. dataset' = dataset
  BY DatasetFixed
<1>1. pc' = "start" => i' = 1
  BY DEF Next, Work, SampleStep, CaptureStep, QuestionStep, PairStep, Finished, vars,
         Start, Return, SkipUnrecorded, LoadFails, OpenSample, SkipExisting, BuildFails,
         BeginCapture, EncoderPass, GenerateReturns, GenerateRaises, ReadPayload,
         WriteRow, Render, CloseQuestion, LogError, EndQuestions, EndSample, WritePair,
         Kill, Restart, AccountedInv
<1>2. ASSUME ~Unsound', pc' = "done", NEW k \in 1 .. N, NEW p \in Questions,
             k <= MaxSamples, dataset[k].recorded, p <= dataset[k].n
      PROVE  Noted(<<k, p>>)'
  <2>1. pc' = "done" => ~Start
    BY DEF Start
  <2>2. ~Unsound
    BY <1>2, <1>t, <2>1, FailedKept
  <2>3. CASE Return
    <3>1. LoopAccounted /\ k < i
      BY <1>2, <1>t, <2>2, <2>3 DEF Return, InScope, AccountedInv, Running, Over
    <3>2. dataset[k].n \in Int
      BY <1>t, SampleBounds
    <3>3. Noted(<<k, p>>)
      BY <1>2, <3>1, <3>2 DEF LoopAccounted, Questions
    <3>4. QED
      BY <1>2, <1>t, <2>1, <3>3, NotedKept
  <2>4. CASE pc = "done"
    <3>1. Accounted
      BY <2>2 DEF AccountedInv
    <3>2. Noted(<<k, p>>)
      BY <1>2, <2>2, <2>4, <3>1 DEF Accounted, Noted, Named, Unsound, Damaged
    <3>3. QED
      BY <1>2, <1>t, <2>1, <3>2, NotedKept
  <2>5. pc = "done" \/ Return
    BY <1>2
    DEF Next, Work, SampleStep, CaptureStep, QuestionStep, PairStep, Finished, vars,
         Start, Return, SkipUnrecorded, LoadFails, OpenSample, SkipExisting, BuildFails,
         BeginCapture, EncoderPass, GenerateReturns, GenerateRaises, ReadPayload,
         WriteRow, Render, CloseQuestion, LogError, EndQuestions, EndSample, WritePair,
         Kill, Restart
  <2>6. QED
    BY <2>3, <2>4, <2>5
<1>3. ~Unsound' => Accounted'
  BY <1>2, <1>d DEF Accounted, Noted, Named
<1>4. QED
  BY <1>1, <1>3, <1>t, LoopAccountedStep DEF AccountedInv

\* Accounted holds over any number of runs, whatever fails and however they are killed:
\* a run that returns, with files that parse, has left no question without a row or an
\* entry in the error file.
THEOREM NoneForgotten == Spec => []Accounted
<1>1. AccountedInv => Accounted
  BY DEF AccountedInv, Accounted, Unsound, Damaged
<1>2. QED
  BY <1>1, AccountedInit, AccountedStep, PTL DEF Spec

-----------------------------------------------------------------------------
(* What a first run leaves in raw_capture. *)

\* A call saves one tensor at most, since the first pass takes the metadata; past it
\* every file but the one that was found is of a question named as failed. No name is
\* lost, as the run ends when its error file is left without newline.
LeftInv ==
    /\ ~Over => ~Unended(errorLog)
    /\ pc = "start" => raw = <<>>
    /\ pc \in {"sample", "question", "pairs", "done"} =>
         \A j \in 1 .. Len(raw) : raw[j] \in failed
    /\ pc = "generate" =>
         /\ \A j \in 1 .. Len(raw) : j <= before => raw[j] \in failed
         /\ Len(raw) = before \/ (Len(raw) = before + 1 /\ queue = <<>>)
    /\ pc \in HasTensor => \A j \in 1 .. Len(raw) : j # tensor => raw[j] \in failed
    /\ pc \in InCapture =>
         \A j \in 1 .. Len(raw) : raw[j] \in failed \/ raw[j] = <<i, q>>

FirstRunInv == TypeInv /\ CaptureInv /\ (run = 1 => LeftInv)

LEMMA LeftInit == Init => FirstRunInv
<1>1. Init => CaptureInv
  BY RowsInvInit DEF RowsInv
<1>2. QED
  BY <1>1, TypeInvInit DEF Init, FirstRunInv, LeftInv, HasTensor, InCapture, Unended

\* Deleting file j leaves the others.
LEMMA RemoveAtKeeps ==
    ASSUME NEW S, NEW s \in Seq(S), NEW j \in 1 .. Len(s),
           NEW l \in 1 .. Len(RemoveAt(s, j))
    PROVE  \E m \in 1 .. Len(s) : m # j /\ RemoveAt(s, j)[l] = s[m]
<1>1. Len(s) \in Nat
  BY LenProperties
<1>2. /\ SubSeq(s, 1, j - 1) \in Seq(S) /\ Len(SubSeq(s, 1, j - 1)) = j - 1
      /\ \A m \in 1 .. j - 1 : SubSeq(s, 1, j - 1)[m] = s[m]
  BY <1>1, SubSeqProperties
<1>3. /\ SubSeq(s, j + 1, Len(s)) \in Seq(S) /\ Len(SubSeq(s, j + 1, Len(s))) = Len(s) - j
      /\ \A m \in 1 .. Len(s) - j : SubSeq(s, j + 1, Len(s))[m] = s[j + m]
  BY <1>1, SubSeqProperties
<1> DEFINE u == SubSeq(s, 1, j - 1)
           v == SubSeq(s, j + 1, Len(s))
<1> HIDE DEF u, v
<1>4. Len(u \o v) = Len(u) + Len(v)
      /\ \A m \in 1 .. Len(u) + Len(v) :
           (u \o v)[m] = IF m <= Len(u) THEN u[m] ELSE v[m - Len(u)]
  BY <1>2, <1>3, ConcatProperties DEF u, v
<1>5. RemoveAt(s, j) = u \o v /\ Len(u) = j - 1 /\ Len(v) = Len(s) - j
  BY <1>2, <1>3 DEF RemoveAt, u, v
<1>6. CASE l <= j - 1
  <2>1. RemoveAt(s, j)[l] = s[l]
    BY <1>1, <1>2, <1>4, <1>5, <1>6 DEF u
  <2>2. QED
    BY <1>1, <1>6, <2>1
<1>7. CASE ~(l <= j - 1)
  <2>1. l - (j - 1) \in 1 .. Len(s) - j /\ l + 1 = j + (l - (j - 1)) /\ l + 1 \in 1 .. Len(s)
    BY <1>1, <1>4, <1>5, <1>7
  <2>2. RemoveAt(s, j)[l] = v[l - (j - 1)]
    BY <1>1, <1>4, <1>5, <1>7
  <2>3. RemoveAt(s, j)[l] = s[l + 1]
    BY <1>3, <2>1, <2>2 DEF v
  <2>4. l + 1 # j
    BY <1>1, <1>7, <2>1
  <2>5. QED
    BY <2>1, <2>3, <2>4
<1>8. QED
  BY <1>6, <1>7

\* A first run that goes on after a failure has named the question.
LEMMA LogErrorAppends ==
    ASSUME TypeInv, LogError, ~Unended(errorLog), pc' = "question"
    PROVE  ~Unended(errorLog)' /\ failed' = failed \cup {<<i, q>>}
<1>1. ErrorRecord \in Failure /\ errorLog \in Seq(Failure \cup Bad)
  BY ErrorRecordType DEF LogError, TypeInv, TypeOK, Bad
<1>2. errorLog' = Append(errorLog, ErrorRecord)
  BY DEF LogError, AppendMetric, Glued
<1>3. /\ Len(errorLog) \in Nat /\ Len(errorLog') = Len(errorLog) + 1
      /\ errorLog'[Len(errorLog) + 1] = ErrorRecord
      /\ \A j \in 1 .. Len(errorLog) : errorLog'[j] = errorLog[j]
  BY <1>1, <1>2, AppendProperties, LenProperties
<1>4. IsLine(ErrorRecord) /\ ErrorRecord.ended /\ ErrorRecord.ask = <<i, q>>
  <2>1. IsLine(ErrorRecord)
    BY <1>1, AnalysisAssumption DEF IsLine
  <2>2. QED
    BY <2>1 DEF ErrorRecord
<1>5. ~Unended(errorLog)'
  BY <1>3, <1>4 DEF Unended, IsLine
<1>6. Lines(errorLog)' = Lines(errorLog) \cup {ErrorRecord}
  <2>1. \A j \in 1 .. Len(errorLog') : j \in 1 .. Len(errorLog) \/ j = Len(errorLog) + 1
    BY <1>3
  <2>2. Len(errorLog) + 1 \in 1 .. Len(errorLog')
        /\ \A j \in 1 .. Len(errorLog) : j \in 1 .. Len(errorLog')
    BY <1>3
  <2>3. QED
    BY <1>3, <1>4, <2>1, <2>2 DEF Lines, IsLine
<1>7. QED
  BY <1>4, <1>5, <1>6 DEF failed

LEMMA LeftStep ==
    ASSUME FirstRunInv, LeftInv, [Next]_vars, run' = 1
    PROVE  LeftInv'
<1> USE DEF files, capture, loop, job
<1>t. /\ TypeInv /\ CaptureInv /\ raw \in Seq(Ask) /\ Len(raw) \in Nat /\ before \in Nat
      /\ tensor \in Nat /\ queue \in Seq(Ask) /\ run \in Nat
  BY LenProperties DEF FirstRunInv, TypeInv, TypeOK
<1>u. UNCHANGED errorLog => failed' = failed /\ Unended(errorLog)' = Unended(errorLog)
  BY DEF failed, Lines, Unended
<1>1. CASE Start
  <2>1. ~Unended(errorLog)'
    BY <1>1, <1>u DEF Start, DeleteOld, Unended, LeftInv, Over
  <2>2. QED
    BY <1>1, <2>1, EmptySeq DEF Start, StartFrame, LeftInv, Over, HasTensor, InCapture
<1>2. CASE Return \/ SkipUnrecorded \/ LoadFails \/ OpenSample \/ SkipExisting \/ BuildFails
  BY <1>2, <1>u DEF Return, SkipUnrecorded, LoadFails, OpenSample, SkipExisting, BuildFails,
              LeftInv, Over, HasTensor, InCapture
<1>3. CASE BeginCapture
  BY <1>3, <1>u, <1>t DEF BeginCapture, LeftInv, Over, HasTensor, InCapture
<1>4. CASE EncoderPass
  <2>1. CASE UNCHANGED <<raw, queue>>
    BY <1>4, <1>u, <2>1 DEF EncoderPass, LeftInv, Over, HasTensor, InCapture
  <2>2. CASE queue # <<>> /\ raw' = Append(raw, Head(queue)) /\ queue' = Tail(queue)
    <3>1. queue = <<<<i, q>>>> /\ Head(queue) = <<i, q>> /\ Tail(queue) = <<>>
      BY SMTT(40), <1>4, <1>t, <2>2 DEF EncoderPass, CaptureInv
    <3>2. <<i, q>> \in Ask
      BY <1>t, <2>2, <3>1
    <3>3. /\ Len(raw') = Len(raw) + 1 /\ raw'[Len(raw) + 1] = <<i, q>>
          /\ \A j \in 1 .. Len(raw) : raw'[j] = raw[j]
      BY <1>t, <2>2, <3>1, <3>2, AppendProperties
    <3>4. /\ pc = "generate" /\ pc' = "generate" /\ Len(raw) = before
          /\ UNCHANGED <<before, failed, i, q>> /\ queue' = <<>> /\ ~Unended(errorLog)'
      BY <1>4, <1>u, <2>2, <3>1 DEF EncoderPass, LeftInv, Over
    <3>5. \A j \in 1 .. Len(raw) : raw[j] \in failed
      BY <1>t, <3>4 DEF LeftInv
    <3>6. \A j \in 1 .. Len(raw') : j \in 1 .. Len(raw) \/ j = Len(raw) + 1
      BY <1>t, <3>3
    <3>7. QED
      BY <1>t, <3>3, <3>4, <3>5, <3>6 DEF LeftInv, Over, HasTensor, InCapture
  <2>3. QED
    BY <1>4, <2>1, <2>2 DEF EncoderPass
<1>5. CASE GenerateReturns
  BY <1>5, <1>u, <1>t DEF GenerateReturns, NewTensor, LeftInv, Over, HasTensor, InCapture
<1>6. CASE GenerateRaises
  BY <1>6, <1>u DEF GenerateRaises, LeftInv, Over, HasTensor, InCapture
<1>7. CASE ReadPayload \/ WriteRow \/ Render
  BY <1>7, <1>u DEF ReadPayload, WriteRow, Render, LeftInv, Over, HasTensor, InCapture
<1>8. CASE CloseQuestion
  <2>1. tensor \in 1 .. Len(raw) /\ \A j \in 1 .. Len(raw) : j # tensor => raw[j] \in failed
    BY <1>8 DEF CloseQuestion, LeftInv, HasTensor, FirstRunInv, TypeInv, TypeOK
  <2>2. ASSUME NEW j \in 1 .. Len(raw') PROVE raw'[j] \in failed
    <3>1. raw' = RemoveAt(raw, tensor)
      BY <1>8 DEF CloseQuestion
    <3>2. raw \in Seq(Ask) /\ tensor \in 1 .. Len(raw) /\ j \in 1 .. Len(RemoveAt(raw, tensor))
      BY <1>t, <2>1, <2>2, <3>1
    <3>3. PICK m \in 1 .. Len(raw) : m # tensor /\ RemoveAt(raw, tensor)[j] = raw[m]
      BY <3>2, RemoveAtKeeps
    <3>4. QED
      BY <2>1, <3>1, <3>3
  <2>3. QED
    BY <1>8, <1>u, <2>2 DEF CloseQuestion, LeftInv, Over, HasTensor, InCapture
<1>9. CASE LogError
  <2>1. CASE pc' = "question"
    <3>1. failed' = failed \cup {<<i, q>>} /\ ~Unended(errorLog)'
      BY <1>9, <1>t, <2>1, LogErrorAppends DEF LogError, LeftInv, Over
    <3>2. raw' = raw /\ \A j \in 1 .. Len(raw) : raw[j] \in failed'
      BY <1>9, <3>1 DEF LogError, LeftInv, InCapture
    <3>3. QED
      BY <2>1, <3>1, <3>2 DEF LeftInv, HasTensor, InCapture
  <2>2. CASE pc' = "raised"
    BY <2>2 DEF LeftInv, Over, HasTensor, InCapture
  <2>3. QED
    BY <1>9, <2>1, <2>2 DEF LogError
<1>10. CASE EndQuestions \/ EndSample \/ \E p \in due : WritePair(p)
  BY <1>10, <1>u DEF EndQuestions, EndSample, WritePair, LeftInv, Over, HasTensor, InCapture
<1>11. CASE Kill
  BY <1>11 DEF Kill, LeftInv, Over, HasTensor, InCapture
<1>12. CASE Restart
  <2>1. run' = run + 1 /\ run \in 1 .. MaxRuns
    BY <1>12 DEF Restart, FirstRunInv, TypeInv, TypeOK
  <2>2. QED
    BY <2>1, AnalysisAssumption
<1>13. CASE UNCHANGED vars
  BY <1>13, <1>u DEF vars, LeftInv, Over, HasTensor, InCapture
<1>14. QED
  BY <1>1, <1>2, <1>3, <1>4, <1>5, <1>6, <1>7, <1>8, <1>9, <1>10, <1>11, <1>12, <1>13
  DEF Next, Work, SampleStep, CaptureStep, QuestionStep, PairStep, Finished

LEMMA FirstRunStep == FirstRunInv /\ [Next]_vars => FirstRunInv'
<1> SUFFICES ASSUME FirstRunInv, [Next]_vars PROVE FirstRunInv'
  OBVIOUS
<1>1. TypeInv' /\ CaptureInv'
  BY TypeInvStep, CaptureInvStep DEF FirstRunInv
<1>2. run' = 1 => run = 1
  <2>1. run' = run \/ run' = run + 1
    BY DEF Next, Work, SampleStep, CaptureStep, QuestionStep, PairStep, Finished, vars,
         Start, StartFrame, Return, SkipUnrecorded, LoadFails, OpenSample, SkipExisting,
         BuildFails, BeginCapture, EncoderPass, GenerateReturns, GenerateRaises, ReadPayload,
         WriteRow, Render, CloseQuestion, LogError, EndQuestions, EndSample, WritePair,
         Kill, Restart, job
  <2>2. run \in Nat /\ run # 0
    BY AnalysisAssumption DEF FirstRunInv, TypeInv, TypeOK
  <2>3. QED
    BY <2>1, <2>2
<1>3. QED
  BY <1>1, <1>2, LeftStep DEF FirstRunInv

\* LeftoversExplained holds whatever fails: a tensor file that a first run leaves behind
\* is of a question it names in the error file.
THEOREM LeftoversNamed == Spec => []LeftoversExplained
<1>1. FirstRunInv => LeftoversExplained
  BY DEF FirstRunInv, LeftInv, LeftoversExplained
<1>2. QED
  BY <1>1, LeftInit, FirstRunStep, PTL DEF Spec
=============================================================================
