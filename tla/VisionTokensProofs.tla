------------------------- MODULE VisionTokensProofs -------------------------
(* Theorems about VisionTokens, for images of every size and rows of every length. *)
EXTENDS VisionTokens, WellFoundedInduction, SequenceTheorems, TLAPS

-----------------------------------------------------------------------------
(* Tiling. *)

LEMMA LeastNatural ==
    ASSUME NEW S \in SUBSET Nat, S # {}
    PROVE  \E n \in S : \A m \in S : n <= m
<1> DEFINE Less == OpToRel(<, Nat)
<1>1. IsWellFoundedOn(Less, Nat)
  BY NatLessThanWellFounded, Zenon
<1>2. \A m, n \in Nat : m < n => <<m, n>> \in Less
  BY DEF OpToRel
<1> HIDE DEF Less
<1>3. PICK n \in S : \A m \in S : ~(<<m, n>> \in Less)
  BY <1>1, WFMin, Zenon
<1>4. \A m \in S : ~(m < n)
  BY <1>2, <1>3
<1>5. \A m \in S : m \in Nat /\ n \in Nat
  OBVIOUS
<1> QED
  BY <1>4, <1>5

\* The gap of a ratio over a denominator all the ratios share.
Distance(size, r) == Gap(size, r) * (60 \div r[2])

LEMMA DistanceOrder ==
    ASSUME NEW g \in Nat, NEW k \in Nat, NEW a \in 1 .. 6, NEW b \in 1 .. 6,
           g * (60 \div a) <= k * (60 \div b)
    PROVE  g * b <= k * a
<1>1. a = 1 \/ a = 2 \/ a = 3 \/ a = 4 \/ a = 5 \/ a = 6
  OBVIOUS
<1>2. b = 1 \/ b = 2 \/ b = 3 \/ b = 4 \/ b = 5 \/ b = 6
  OBVIOUS
<1>3. /\ 60 \div 1 = 60 /\ 60 \div 2 = 30 /\ 60 \div 3 = 20
      /\ 60 \div 4 = 15 /\ 60 \div 5 = 12 /\ 60 \div 6 = 10
  OBVIOUS
<1> QED
  BY <1>1, <1>2, <1>3

LEMMA GapNat ==
    ASSUME NEW size \in Sizes, NEW r \in TargetRatios
    PROVE  Gap(size, r) \in Nat /\ Distance(size, r) \in Nat /\ r[2] \in 1 .. 6
<1>1. r[1] \in 1 .. 6 /\ r[2] \in 1 .. 6 /\ size.w \in Nat /\ size.h \in Nat
  BY DEF TargetRatios, Sizes
<1>2. size.w * r[2] \in Nat /\ r[1] * size.h \in Nat
  BY <1>1
<1>3. Gap(size, r) \in Nat
  BY <1>2 DEF Gap
<1>4. 60 \div r[2] \in Nat
  BY <1>1
<1> QED
  BY <1>1, <1>3, <1>4 DEF Distance

LEMMA ClosestExists ==
    ASSUME NEW size \in Sizes
    PROVE  Closest(size) # {}
<1> DEFINE S == {Distance(size, r) : r \in TargetRatios}
<1>1. S \in SUBSET Nat
  BY GapNat
<1>2. <<1, 2>> \in TargetRatios
  BY DEF TargetRatios, Blocks
<1>3. S # {}
  BY <1>2
<1>4. PICK n \in S : \A m \in S : n <= m
  BY <1>1, <1>3, LeastNatural
<1>5. PICK r \in TargetRatios : n = Distance(size, r)
  BY <1>4
<1>6. ASSUME NEW s \in TargetRatios PROVE Gap(size, r) * s[2] <= Gap(size, s) * r[2]
  <2>1. Distance(size, r) <= Distance(size, s)
    BY <1>4, <1>5
  <2> QED
    BY <2>1, GapNat, DistanceOrder DEF Distance
<1> QED
  BY <1>5, <1>6 DEF Closest

\* Every image that is cut gets one of the target ratios: two to six local views.
LEMMA ClosestIsTarget ==
    ASSUME NEW size \in Sizes
    PROVE  FindClosestAspectRatio(size) \in TargetRatios
<1> DEFINE First(r) == \A s \in Closest(size) : Blocks(r) <= Blocks(s)
           Filled(r) == 2 * size.w * size.h > ImageSide * ImageSide * Blocks(r)
           Taken == {r \in Closest(size) : First(r) \/ Filled(r)}
           S == {Blocks(r) : r \in Closest(size)}
           L == {6 - Blocks(r) : r \in Taken}
<1>1. \A r \in Closest(size) : r \in TargetRatios /\ Blocks(r) \in 2 .. 6
  BY DEF Closest, TargetRatios
<1>2. \E r \in Closest(size) : First(r)
  <2>1. S \in SUBSET Nat /\ S # {}
    BY <1>1, ClosestExists
  <2>2. PICK n \in S : \A m \in S : n <= m
    BY <2>1, LeastNatural
  <2> QED
    BY <2>2
<1>3. L \in SUBSET Nat /\ L # {}
  BY <1>1, <1>2
<1> HIDE DEF First, Filled
<1>4. PICK n \in L : \A m \in L : n <= m
  BY <1>3, LeastNatural
<1>5. PICK r \in Taken : n = 6 - Blocks(r)
  BY <1>4
<1>6. \A s \in Taken : Blocks(s) <= Blocks(r)
  BY <1>1, <1>4, <1>5
<1>7. FindClosestAspectRatio(size) \in Taken
  BY <1>5, <1>6 DEF FindClosestAspectRatio, First, Filled
<1> QED
  BY <1>1, <1>7

-----------------------------------------------------------------------------
(* Views and rows. *)

LEMMA TrainedViewsType ==
    ASSUME NEW size \in Sizes, NEW c \in BOOLEAN
    PROVE  TrainedViews(size, c) \in Views
<1>1. Blocks(FindClosestAspectRatio(size)) \in Nat
  BY ClosestIsTarget DEF TargetRatios
<1> QED
  BY <1>1 DEF TrainedViews, Views, LocalViews, BaseSide, ImageSide

LEMMA ServedLocals ==
    ASSUME NEW size \in Sizes, NEW c \in BOOLEAN
    PROVE  /\ LocalViews(ServedTiles(size, c)) \in Nat
           /\ ServedViews(size, c).locals = LocalViews(ServedTiles(size, c))
           /\ ServedViews(size, c).side = BaseSide
<1>1. Blocks(FindClosestAspectRatio(size)) \in Nat
  BY ClosestIsTarget DEF TargetRatios
<1>2. LocalViews(<<1, 1>>) = 0
  BY DEF LocalViews
<1>3. LocalViews(ServedTiles(size, c)) =
        IF c /\ ~Small(size) THEN LocalViews(FindClosestAspectRatio(size)) ELSE 0
  BY <1>2 DEF ServedTiles
<1>4. LocalViews(FindClosestAspectRatio(size)) \in Nat
  BY <1>1 DEF LocalViews
<1>5. /\ ServedViews(size, c).locals = LocalViews(ServedTiles(size, c))
      /\ ServedViews(size, c).side = BaseSide
  BY DEF ServedViews
<1> QED
  BY <1>3, <1>4, <1>5

LEMMA QueryCounts ==
    /\ Queries(1024) = 16 /\ Queries(768) = 12
    /\ 1024 \div 64 = 16 /\ 768 \div 64 = 12
BY DEF Queries

\* Products of naturals grow with their factors.
LEMMA ProductMonotone ==
    ASSUME NEW k \in Nat, NEW a \in Nat, NEW b \in Nat, a <= b
    PROVE  k * a <= k * b /\ k * a \in Nat /\ k * b \in Nat
OBVIOUS

\* The slots the template reserves are the rows the encoder returns if and only if every
\* local view is encoded, with the T the slots were reserved for.
LEMMA RowsMatch ==
    ASSUME NEW views \in Views, NEW t \in 1 .. MaxSteps, NEW u \in 1 .. MaxSteps,
           NEW seen \in {0, views.locals}
    PROVE  EncodedRows(views, seen, u) = TemplateSlots(views, t)
             <=> seen = views.locals /\ u = t
<1> DEFINE k == views.locals
           q == IF views.side = 1024 THEN 256 ELSE 144
<1>1. k \in Nat /\ views.side \in {1024, 768} /\ t \in 1 .. 32 /\ u \in 1 .. 32
  BY DEF Views, BaseSide, ImageSide, MaxSteps
<1>2. EncodedRows(views, seen, u) = seen * (144 + u) + (q + u) + 1
  BY <1>1, QueryCounts DEF EncodedRows, EncodedView, ImageSide
<1>3. TemplateSlots(views, t) = q + t + k * (144 + t) + 1
  BY <1>1, QueryCounts DEF TemplateSlots, ImageSide
<1> HIDE DEF k, q
<1>4. q \in Nat
  BY <1>1 DEF q
<1>5. CASE seen = k
  <2>1. u < t => k * (144 + u) + u < k * (144 + t) + t
    BY <1>1, ProductMonotone
  <2>2. t < u => k * (144 + t) + t < k * (144 + u) + u
    BY <1>1, ProductMonotone
  <2>3. k * (144 + u) \in Nat /\ k * (144 + t) \in Nat
    BY <1>1
  <2> QED
    BY <1>1, <1>2, <1>3, <1>4, <1>5, <2>1, <2>2, <2>3 DEF k
<1>6. CASE seen # k
  <2>1. seen = 0 /\ k >= 1
    BY <1>1, <1>6 DEF k
  <2>2. k * (144 + t) >= 144
    BY <1>1, <2>1
  <2>3. EncodedRows(views, seen, u) = q + u + 1
    BY <1>1, <1>2, <1>4, <2>1
  <2> QED
    BY <1>1, <1>3, <1>4, <1>6, <2>2, <2>3 DEF k
<1> QED
  BY <1>5, <1>6

\* The placeholders are the rows of all the views.
LEMMA PlaceholderRows ==
    ASSUME NEW size \in Sizes, NEW c \in BOOLEAN, NEW t \in 1 .. MaxSteps
    PROVE  NumImageTokens(size, c, t)
             = EncodedRows(ServedViews(size, c), ServedViews(size, c).locals, t)
<1> DEFINE k == LocalViews(ServedTiles(size, c))
<1>1. k \in Nat /\ t \in Nat /\ ServedViews(size, c).locals = k
      /\ ServedViews(size, c).side = 1024
  BY ServedLocals DEF MaxSteps, BaseSide
<1>2. NumImageTokens(size, c, t) = 256 + t + 1 + k * (144 + t)
  BY QueryCounts DEF NumImageTokens, BaseSide, ImageSide, ServedTiles, Small
<1>3. EncodedRows(ServedViews(size, c), k, t) = k * (144 + t) + (256 + t) + 1
  BY <1>1, QueryCounts DEF EncodedRows, EncodedView, ImageSide
<1>4. k * (144 + t) \in Nat
  BY <1>1
<1> HIDE DEF k
<1> QED
  BY <1>1, <1>2, <1>3, <1>4

\* An image that is encoded has at least the rows of its global view.
LEMMA EmbeddedSome ==
    ASSUME NEW size \in Sizes, NEW c \in BOOLEAN, NEW t \in 1 .. MaxSteps, NEW blank \in BOOLEAN
    PROVE  EncodedRows(ServedViews(size, c), SeenLocals(ServedViews(size, c), blank), t) # 0
<1> DEFINE seen == SeenLocals(ServedViews(size, c), blank)
<1>1. seen \in Nat /\ t \in Nat /\ ServedViews(size, c).side = 1024
  BY ServedLocals DEF SeenLocals, MaxSteps, BaseSide
<1>2. EncodedRows(ServedViews(size, c), seen, t) = seen * (144 + t) + (256 + t) + 1
  BY <1>1, QueryCounts DEF EncodedRows, EncodedView, ImageSide
<1> HIDE DEF seen
<1>3. seen * (144 + t) \in Nat
  BY <1>1
<1>4. EncodedRows(ServedViews(size, c), seen, t) # 0
  BY <1>1, <1>2, <1>3
<1> QED
  BY <1>4 DEF seen

-----------------------------------------------------------------------------
(* Training. *)

Stages == {"batch", "encode", "forward", "loss", "step", "raised", "serve"}
Rolled(i) == IF lengths = <<>> THEN MaxSteps ELSE lengths[i]
Reservation(row) ==
    [views |-> TrainedViews(row.image.size, crop), steps |-> Steps(row),
     slots |-> TemplateSlots(TrainedViews(row.image.size, crop), Steps(row))]
Reservations == [views : Views, steps : 1 .. MaxSteps, slots : Int]
Fillings == [locals : Nat, steps : 1 .. MaxSteps, rows : Int]

\* What the template reserved, row by row.
Reserved ==
    /\ encoded \in Seq(Reservations) /\ Len(encoded) <= Len(batch)
    /\ \A i \in 1 .. Len(encoded) :
         encoded[i] = Reservation(batch[i]) /\ Encodable(batch[i])

\* What the collator gathered: one length in range for each row, its own if rows have one.
Collated ==
    pc \in {"forward", "loss", "step"} =>
        /\ Len(encoded) = Len(batch)
        /\ \A i \in 1 .. Len(batch) : Rolled(i) \in 1 .. MaxSteps
        /\ (\A i \in 1 .. Len(batch) : HasLength(batch[i])) =>
              \A i \in 1 .. Len(batch) : Rolled(i) = batch[i].length

\* What forward filled: the slots of the samples so far, as they were reserved.
Filled ==
    /\ filled \in Seq(Fillings) /\ Len(filled) <= Len(encoded)
    /\ \A i \in 1 .. Len(filled) :
         filled[i] = [locals |-> encoded[i].views.locals, steps |-> encoded[i].steps,
                      rows |-> encoded[i].slots]
    /\ maps \in Seq(1 .. MaxSteps)
    /\ Len(maps) = IF weighted THEN Len(filled) ELSE 0
    /\ \A i \in 1 .. Len(maps) : maps[i] = encoded[i].steps
    /\ pc \in {"batch", "encode"} => filled = <<>>
    /\ pc \in {"loss", "step"} =>
         Len(filled) = Len(batch) \/ (filled = <<>> /\ batch[1].image.blank = "global")

Settled ==
    /\ used \in {"none", "own", "earlier"}
    /\ used = "own" => pc = "step" /\ weighted /\ Len(filled) = Len(batch)
    /\ used = "earlier" => pc = "raised" /\ batch[1].image.blank = "global"

\* There are tries left while the batch is encoded.
Tried == tries \in Nat /\ (pc = "encode" => tries < NTryFetch)

TrainInv ==
    /\ crop \in BOOLEAN /\ weighted \in BOOLEAN /\ runtimeCrop \in BOOLEAN
    /\ strict \in BOOLEAN /\ Tried
    /\ pc \in Stages /\ batch \in Seq(Rows)
    /\ pc \in {"encode", "forward", "loss", "step"} => Len(batch) > 0
    /\ Reserved /\ Collated /\ Filled /\ Settled /\ RegularRowsTrain

LEMMA TrainInvInit == Init => TrainInv
BY VisionTokensAssumption, EmptySeq
   DEF GaveUp, Tried, NTryFetch, Init, TrainInv, Stages, Reserved, Collated, Filled, Settled, RegularRowsTrain

\* Without any try in vain there is one left.
LEMMA NoneTried == strict \in BOOLEAN => NTryFetch \in Nat /\ 0 < NTryFetch
BY VisionTokensAssumption DEF NTryFetch

LEMMA NextBatchStep == TrainInv /\ NextBatch => TrainInv'
<1> SUFFICES ASSUME TrainInv, NextBatch PROVE TrainInv'
  OBVIOUS
<1>1. batch' \in Seq(Rows) /\ Len(batch') > 0
  <2>1. PICK n \in BatchSizes : batch' \in [1 .. n -> Rows]
    BY DEF NextBatch
  <2>2. n \in Nat /\ n > 0
    BY VisionTokensAssumption
  <2>3. batch' \in Seq(Rows)
    BY <2>1, <2>2, SeqDef
  <2> QED
    BY <2>1, <2>2, <2>3, LenProperties
<1>2. Len(batch') \in Nat
  BY <1>1
<1>3. Tried'
  <2>1. tries' = 0 /\ NTryFetch' = NTryFetch /\ 0 < NTryFetch
    BY NoneTried DEF NextBatch, NTryFetch, TrainInv, config
  <2> QED
    BY <2>1 DEF Tried
<1> QED
  BY <1>1, <1>2, <1>3, EmptySeq
     DEF NextBatch, TrainInv, Stages, Reserved, Collated, Filled, Settled,
         RegularRowsTrain, config

LEMMA RowType ==
    ASSUME NEW row \in Rows
    PROVE  /\ row.image.size \in Sizes /\ row.image.blank \in Blanks
           /\ row.length \in Int \cup {None} /\ row.map \in (1 .. MaxSteps) \cup {None}
BY VisionTokensAssumption DEF Row, Image

LEMMA ReservationType ==
    ASSUME NEW row \in Rows, Encodable(row), crop \in BOOLEAN
    PROVE  Reservation(row) \in Reservations
<1>1. TrainedViews(row.image.size, crop) \in Views
  BY RowType, TrainedViewsType
<1>2. Steps(row) \in 1 .. MaxSteps
  BY DEF Encodable
<1>3. TemplateSlots(TrainedViews(row.image.size, crop), Steps(row)) \in Int
  <2>1. Queries(768) \in Int /\ Queries(1024) \in Int
    BY QueryCounts
  <2> QED
    BY <1>1, <1>2, <2>1 DEF TemplateSlots, Views, BaseSide, ImageSide, MaxSteps
<1> QED
  BY <1>1, <1>2, <1>3 DEF Reservation, Reservations

LEMMA EncodeStep == TrainInv /\ Encode => TrainInv'
<1> SUFFICES ASSUME TrainInv, Encode PROVE TrainInv'
  OBVIOUS
<1> DEFINE n == Len(encoded) + 1
<1>1. n \in 1 .. Len(batch) /\ batch[n] \in Rows /\ Encodable(batch[n])
  BY DEF TrainInv, Reserved, Encode
<1>2. encoded' = Append(encoded, Reservation(batch[n]))
  BY DEF Encode, Reservation
<1>3. Reservation(batch[n]) \in Reservations
  BY <1>1, ReservationType DEF TrainInv
<1>4. Reserved'
  <2>1. /\ encoded' \in Seq(Reservations) /\ Len(encoded') = n
        /\ \A i \in 1 .. Len(encoded) : encoded'[i] = encoded[i]
        /\ encoded'[n] = Reservation(batch[n])
    BY <1>2, <1>3 DEF TrainInv, Reserved
  <2>2. batch' = batch /\ crop' = crop
    BY DEF Encode, config
  <2>3. ASSUME NEW i \in 1 .. n
        PROVE  encoded'[i] = Reservation(batch[i]) /\ Encodable(batch[i])
    <3>1. CASE i = n
      BY <1>1, <2>1, <3>1
    <3>2. CASE i # n
      <4>1. i \in 1 .. Len(encoded)
        BY <3>2 DEF TrainInv, Reserved
      <4> QED
        BY <2>1, <4>1 DEF TrainInv, Reserved
    <3> QED
      BY <3>1, <3>2
  <2>4. \A i \in 1 .. n : Reservation(batch[i])' = Reservation(batch[i])
    BY <2>2 DEF Reservation
  <2> QED
    BY <1>1, <2>1, <2>2, <2>3, <2>4 DEF Reserved
<1>5. filled = <<>> /\ filled' = filled /\ maps' = maps /\ weighted' = weighted
      /\ pc = "encode" /\ pc' = pc /\ Len(filled) = 0 /\ Len(maps) = 0
  BY DEF TrainInv, Filled, Encode, config
<1>6. Filled'
  BY <1>4, <1>5 DEF TrainInv, Filled, Reserved
<1>7. Collated' /\ Settled' /\ RegularRowsTrain'
  BY <1>5 DEF TrainInv, Collated, Settled, RegularRowsTrain, Encode
<1>8. Tried'
  <2>1. tries' = 0 /\ NTryFetch' = NTryFetch /\ 0 < NTryFetch
    BY NoneTried DEF Encode, NTryFetch, TrainInv, config
  <2> QED
    BY <2>1 DEF Tried
<1> QED
  BY <1>4, <1>6, <1>7, <1>8 DEF TrainInv, Encode, config

LEMMA EncodeFailsStep == TrainInv /\ EncodeFails => TrainInv'
<1> SUFFICES ASSUME TrainInv, EncodeFails PROVE TrainInv'
  OBVIOUS
<1>1. Len(encoded) + 1 \in 1 .. Len(batch)
  BY DEF EncodeFails, TrainInv, Reserved
<1>2. filled = <<>> /\ filled' = filled /\ maps' = maps /\ weighted' = weighted
      /\ pc = "encode" /\ Len(filled) = 0 /\ Len(maps) = 0 /\ encoded' = encoded
      /\ strict' = strict /\ NTryFetch' = NTryFetch /\ NTryFetch \in Nat
  BY VisionTokensAssumption DEF TrainInv, Filled, EncodeFails, NTryFetch, config
<1>3. tries' \in Nat /\ tries < NTryFetch /\ tries' = tries + 1
  BY <1>2 DEF TrainInv, Tried, EncodeFails
<1>4. CASE tries' < NTryFetch
  <2>1. PICK row \in Rows : batch' = [batch EXCEPT ![Len(encoded) + 1] = row]
    BY <1>4 DEF EncodeFails
  <2>2. batch' \in Seq(Rows) /\ Len(batch') = Len(batch) /\ pc' = "encode"
        /\ \A i \in 1 .. Len(encoded) : batch'[i] = batch[i]
    BY <1>1, <1>2, <1>4, <2>1, ExceptSeq DEF TrainInv, Reserved, EncodeFails
  <2>3. Reserved'
    BY <2>2 DEF TrainInv, Reserved, EncodeFails, Reservation, config
  <2>4. Filled'
    BY <1>2, <2>2, <2>3 DEF TrainInv, Filled, Reserved
  <2>5. Tried'
    BY <1>2, <1>3, <1>4 DEF Tried
  <2>6. Collated' /\ Settled' /\ RegularRowsTrain'
    BY <1>2, <2>2 DEF TrainInv, Collated, Settled, RegularRowsTrain, EncodeFails
  <2> QED
    BY <2>2, <2>3, <2>4, <2>5, <2>6 DEF TrainInv, EncodeFails, config
<1>5. CASE ~(tries' < NTryFetch)
  <2>1. batch' = batch /\ pc' = "raised" /\ UNCHANGED <<config, encoded, lengths, used>>
    BY <1>5 DEF EncodeFails
  <2>2. tries' = NTryFetch
    <3>1. PICK n \in Nat : n = NTryFetch
      BY <1>2
    <3>2. PICK k \in Nat : k = tries
      BY DEF TrainInv, Tried
    <3>3. k < n /\ ~(k + 1 < n)
      BY <1>3, <1>5, <3>1, <3>2
    <3>4. k + 1 = n
      BY <3>3
    <3> QED
      BY <1>3, <3>1, <3>2, <3>4
  <2>3. Reserved'
    BY <2>1 DEF TrainInv, Reserved, Reservation, config
  <2>4. Filled'
    BY <1>2, <2>1 DEF TrainInv, Filled
  <2>5. RegularRowsTrain'
    BY <1>1, <1>2, <2>1, <2>2 DEF RegularRowsTrain, GaveUp, EncodeFails, TrainInv, Reserved
  <2>6. Collated' /\ Settled' /\ Tried'
    BY <1>2, <1>3, <2>1 DEF TrainInv, Collated, Settled, Tried
  <2> QED
    BY <2>1, <2>3, <2>4, <2>5, <2>6 DEF TrainInv, Stages, config
<1> QED
  BY <1>4, <1>5

\* The rows of a batch that is not ragged all have a length, or none of them has.
LEMMA DataCollatorStep == TrainInv /\ DataCollator => TrainInv'
<1> SUFFICES ASSUME TrainInv, DataCollator PROVE TrainInv'
  OBVIOUS
<1>1. /\ Len(batch) \in Nat /\ Len(batch) > 0 /\ Len(encoded) = Len(batch)
      /\ \A i \in 1 .. Len(batch) : batch[i] \in Rows /\ Encodable(batch[i])
  BY DEF TrainInv, Reserved, DataCollator
<1>2. 1 \in 1 .. Len(batch)
  BY <1>1
<1>3. /\ pc = "encode" /\ pc' = "forward" /\ lengths' = RawLengths
      /\ UNCHANGED <<config, batch, encoded, tries, filled, maps, used>>
  BY DEF DataCollator
<1>4. /\ \A i \in 1 .. Len(batch) : Rolled(i)' \in 1 .. MaxSteps
      /\ (\A i \in 1 .. Len(batch) : HasLength(batch[i])) =>
            \A i \in 1 .. Len(batch) : Rolled(i)' = batch[i].length
  <2>1. CASE Some(HasLength)
    <3>1. \A i \in 1 .. Len(batch) : HasLength(batch[i])
      BY <2>1 DEF DataCollator, Ragged
    <3>2. lengths' = [i \in 1 .. Len(batch) |-> batch[i].length]
      BY <1>3, <2>1 DEF RawLengths
    <3>3. \A i \in 1 .. Len(batch) : batch[i].length \in 1 .. MaxSteps
      BY <1>1, <3>1 DEF Encodable, Steps, HasLength
    <3>4. lengths' # <<>>
      BY <1>2, <3>2
    <3> QED
      BY <3>2, <3>3, <3>4 DEF Rolled
  <2>2. CASE ~Some(HasLength)
    <3>1. ~HasLength(batch[1])
      BY <1>2, <2>2 DEF Some
    <3>2. CASE Some(HasMap)
      <4>1. \A i \in 1 .. Len(batch) : HasMap(batch[i])
        BY <3>2 DEF DataCollator, Ragged
      <4>2. lengths' = [i \in 1 .. Len(batch) |-> batch[i].map]
        BY <1>3, <2>2, <3>2 DEF RawLengths
      <4>3. \A i \in 1 .. Len(batch) : batch[i].map \in 1 .. MaxSteps
        BY <1>1, <4>1, RowType DEF HasMap
      <4>4. lengths' # <<>>
        BY <1>2, <4>2
      <4> QED
        BY <1>2, <3>1, <4>2, <4>3, <4>4 DEF Rolled
    <3>3. CASE ~Some(HasMap)
      <4>1. lengths' = <<>>
        BY <1>3, <2>2, <3>3 DEF RawLengths
      <4> QED
        BY <1>2, <3>1, <4>1 DEF Rolled, MaxSteps
    <3> QED
      BY <3>2, <3>3
  <2> QED
    BY <2>1, <2>2
<1>5. Collated'
  BY <1>1, <1>3, <1>4 DEF Collated
<1>6. Reserved' /\ Filled' /\ Settled' /\ Tried'
  BY <1>1, <1>3 DEF TrainInv, Reserved, Filled, Settled, Tried, Reservation, config
<1>7. RegularRowsTrain'
  BY <1>3 DEF RegularRowsTrain
<1> QED
  BY <1>1, <1>3, <1>5, <1>6, <1>7 DEF TrainInv, Stages, config

LEMMA CollatorRaisesStep == TrainInv /\ CollatorRaises => TrainInv'
<1> SUFFICES ASSUME TrainInv, CollatorRaises PROVE TrainInv'
  OBVIOUS
<1>1. \E i \in 1 .. Len(batch) : ~Regular(batch[i])
  BY DEF CollatorRaises, Ragged, Regular
<1> QED
  BY <1>1 DEF GaveUp, Tried, NTryFetch, CollatorRaises, TrainInv, Reserved, Reservation, Collated, Filled, Settled,
              RegularRowsTrain, Stages, config

LEMMA SkipImagesStep == TrainInv /\ SkipImages => TrainInv'
BY DEF GaveUp, Tried, NTryFetch, SkipImages, TrainInv, Reserved, Reservation, Collated, Rolled, Filled, Settled,
       RegularRowsTrain, Stages, config

\* The sample forward has come to: what was reserved for it, and what is encoded.
LEMMA SampleFacts ==
    ASSUME TrainInv, Reached
    PROVE  /\ Sample \in 1 .. Len(batch) /\ Sample \in 1 .. Len(encoded)
           /\ batch[Sample] \in Rows
           /\ encoded[Sample] = Reservation(batch[Sample])
           /\ encoded[Sample].views \in Views /\ encoded[Sample].steps \in 1 .. MaxSteps
           /\ Rollout \in 1 .. MaxSteps
           /\ Seen \in {0, encoded[Sample].views.locals}
           /\ Features = encoded[Sample].slots
                <=> Seen = encoded[Sample].views.locals /\ Rollout = encoded[Sample].steps
<1>1. Sample \in 1 .. Len(batch) /\ Len(encoded) = Len(batch)
  BY DEF TrainInv, Filled, Collated, Reached, Sample
<1>2. batch[Sample] \in Rows /\ encoded[Sample] \in Reservations
      /\ encoded[Sample] = Reservation(batch[Sample])
  BY <1>1 DEF TrainInv, Reserved
<1>3. encoded[Sample].views \in Views /\ encoded[Sample].steps \in 1 .. MaxSteps
  BY <1>2 DEF Reservations
<1>4. Rollout \in 1 .. MaxSteps
  BY <1>1 DEF TrainInv, Collated, Reached, Rolled, Rollout
<1>5. Seen \in {0, encoded[Sample].views.locals}
  BY DEF Seen, SeenLocals
<1>6. encoded[Sample].slots = TemplateSlots(encoded[Sample].views, encoded[Sample].steps)
  BY <1>2 DEF Reservation
<1> QED
  BY <1>1, <1>2, <1>3, <1>4, <1>5, <1>6, RowsMatch DEF Features

LEMMA EncodeSampleStep == TrainInv /\ EncodeSample => TrainInv'
<1> SUFFICES ASSUME TrainInv, EncodeSample PROVE TrainInv'
  OBVIOUS
<1> DEFINE filling == [locals |-> encoded[Sample].views.locals,
                       steps |-> encoded[Sample].steps, rows |-> encoded[Sample].slots]
<1>1. Reached /\ Features = encoded[Sample].slots /\ Fill /\ pc = "forward" /\ pc' = pc
  BY DEF EncodeSample, Reached, Fill
<1>2. Seen = encoded[Sample].views.locals /\ Rollout = encoded[Sample].steps
      /\ Sample \in 1 .. Len(encoded) /\ Rollout \in 1 .. MaxSteps
  BY <1>1, SampleFacts
<1>3. filled' = Append(filled, filling)
  BY <1>1, <1>2 DEF Fill
<1>4. filling \in Fillings
  <2>1. encoded[Sample] \in Reservations
    BY <1>2 DEF TrainInv, Reserved
  <2> QED
    BY <2>1 DEF Reservations, Fillings, Views
<1>5. /\ filled' \in Seq(Fillings) /\ Len(filled') = Sample
      /\ \A i \in 1 .. Len(filled) : filled'[i] = filled[i]
      /\ filled'[Sample] = filling
  BY <1>3, <1>4 DEF TrainInv, Filled, Sample
<1>6. encoded' = encoded /\ batch' = batch /\ weighted' = weighted /\ crop' = crop
      /\ runtimeCrop' = runtimeCrop /\ lengths' = lengths /\ used' = used
  BY <1>1 DEF Fill, config
<1>7. /\ maps' \in Seq(1 .. MaxSteps)
      /\ Len(maps') = IF weighted THEN Sample ELSE 0
      /\ \A i \in 1 .. Len(maps') : maps'[i] = encoded[i].steps
  <2>1. CASE weighted
    <3>1. maps' = Append(maps, Rollout) /\ Len(maps) = Len(filled)
      BY <1>1, <2>1 DEF Fill, Collects, TrainInv, Filled
    <3> QED
      BY <1>2, <2>1, <3>1 DEF TrainInv, Filled, Sample
  <2>2. CASE ~weighted
    BY <1>1, <2>2 DEF Fill, Collects, TrainInv, Filled
  <2> QED
    BY <2>1, <2>2 DEF TrainInv
<1>8. Filled'
  <2>1. ASSUME NEW i \in 1 .. Len(filled')
        PROVE  filled'[i] = [locals |-> encoded[i].views.locals, steps |-> encoded[i].steps,
                             rows |-> encoded[i].slots]
    <3>1. i \in 1 .. Len(filled) \/ i = Sample
      BY <1>5 DEF TrainInv, Filled, Sample
    <3> QED
      BY <1>5, <3>1 DEF TrainInv, Filled
  <2>2. Len(filled') <= Len(encoded)
    BY <1>2, <1>5
  <2>3. Len(maps') = IF weighted THEN Len(filled') ELSE 0
    BY <1>5, <1>7
  <2> QED
    BY <1>1, <1>5, <1>6, <1>7, <2>1, <2>2, <2>3 DEF Filled
<1>9. Reserved' /\ Collated'
  BY <1>1, <1>6 DEF TrainInv, Reserved, Reservation, Collated, Rolled
<1>10. Settled'
  BY <1>1, <1>6 DEF TrainInv, Settled
<1>11. RegularRowsTrain'
  BY <1>1 DEF RegularRowsTrain
<1> QED
  BY <1>1, <1>6, <1>8, <1>9, <1>10, <1>11 DEF Tried, NTryFetch, TrainInv, Fill, config

\* A step that only moves on, and leaves the batch and what was made of it.
LEMMA CountMismatchStep == TrainInv /\ CountMismatch => TrainInv'
<1> SUFFICES ASSUME TrainInv, CountMismatch PROVE TrainInv'
  OBVIOUS
<1>1. Reached /\ Features # encoded[Sample].slots /\ pc = "forward" /\ pc' = "raised"
      /\ UNCHANGED <<config, batch, encoded, tries, lengths, filled, maps, used, request>>
  BY DEF CountMismatch, Reached
<1>2. Sample \in 1 .. Len(batch) /\ encoded[Sample] = Reservation(batch[Sample])
      /\ ~(Seen = encoded[Sample].views.locals /\ Rollout = encoded[Sample].steps)
  BY <1>1, SampleFacts
<1>3. \E i \in 1 .. Len(batch) : ~Regular(batch[i])
  <2> SUFFICES ASSUME \A i \in 1 .. Len(batch) : Regular(batch[i]) PROVE FALSE
    OBVIOUS
  <2>1. Seen = encoded[Sample].views.locals
    BY <1>2 DEF Regular, Seen, SeenLocals
  <2>2. Rolled(Sample) = batch[Sample].length
    BY <1>1, <1>2 DEF TrainInv, Collated, Regular
  <2>3. Rollout = encoded[Sample].steps
    BY <1>2, <2>2 DEF Rolled, Rollout, Reservation, Steps, Regular, HasLength
  <2> QED
    BY <1>2, <2>1, <2>3
<1> QED
  BY <1>1, <1>3 DEF GaveUp, Tried, NTryFetch, TrainInv, Reserved, Reservation, Collated, Filled, Settled,
                    RegularRowsTrain, Stages, config

LEMMA ConcatenateStep == TrainInv /\ Concatenate => TrainInv'
<1> SUFFICES ASSUME TrainInv, Concatenate PROVE TrainInv'
  OBVIOUS
<1>1. Len(filled) = Len(batch) /\ Len(encoded) = Len(batch) /\ pc = "forward"
      /\ UNCHANGED <<config, batch, encoded, tries, lengths, filled, maps, kept, used, request>>
  BY DEF Concatenate, TrainInv, Filled, Collated, Sample
<1>2. CASE SameRollouts
  <2>1. pc' = "loss"
    BY <1>2 DEF Concatenate
  <2>2. Reserved' /\ Collated'
    BY <1>1, <2>1 DEF TrainInv, Reserved, Reservation, Collated, Rolled, config
  <2>3. Filled'
    BY <1>1, <2>1 DEF TrainInv, Filled, config
  <2>4. Settled' /\ RegularRowsTrain'
    BY <1>1, <2>1 DEF TrainInv, Settled, RegularRowsTrain, config
  <2> QED
    BY <1>1, <2>1, <2>2, <2>3, <2>4 DEF Tried, NTryFetch, TrainInv, Stages, config
<1>3. CASE ~SameRollouts
  <2>1. PICK i, j \in 1 .. Len(maps) : maps[i] # maps[j]
    BY <1>3 DEF SameRollouts
  <2>2. weighted /\ i \in 1 .. Len(batch) /\ j \in 1 .. Len(batch)
    BY <1>1, <2>1 DEF TrainInv, Filled
  <2>3. Steps(batch[i]) # Steps(batch[j])
    <3>1. encoded[i] = Reservation(batch[i]) /\ encoded[j] = Reservation(batch[j])
          /\ maps[i] = encoded[i].steps /\ maps[j] = encoded[j].steps
      BY <1>1, <2>1, <2>2 DEF TrainInv, Filled, Reserved
    <3> QED
      BY <2>1, <3>1 DEF Reservation
  <2>4. RegularRowsTrain'
    BY <1>1, <2>2, <2>3 DEF RegularRowsTrain, Regular, Steps, HasLength, config
  <2> QED
    BY <1>1, <1>3, <2>4 DEF Tried, NTryFetch, Concatenate, TrainInv, Reserved, Reservation, Collated, Filled,
                            Settled, Stages, config
<1> QED
  BY <1>2, <1>3

LEMMA AttentionLossStep == TrainInv /\ AttentionLoss => TrainInv'
<1> SUFFICES ASSUME TrainInv, AttentionLoss PROVE TrainInv'
  OBVIOUS
<1>1. UNCHANGED <<config, batch, encoded, tries, lengths, filled, maps, kept, request>> /\ pc = "loss"
      /\ Len(batch) > 0 /\ Len(batch) \in Nat
  BY DEF AttentionLoss, TrainInv
<1>2. CASE ~Supervised
  BY <1>1, <1>2 DEF GaveUp, AttentionLoss, TrainInv, Reserved, Reservation, Collated, Rolled, Filled,
                    Settled, RegularRowsTrain, Tried, NTryFetch, Stages, config
<1>3. CASE Supervised /\ maps # <<>>
  <2>1. Len(maps) > 0
    BY <1>3, EmptySeq DEF TrainInv, Filled
  <2>2. weighted /\ Len(filled) = Len(batch)
    BY <1>1, <1>3, <2>1, EmptySeq DEF Supervised, TrainInv, Filled
  <2> QED
    BY <1>1, <1>3, <2>2 DEF GaveUp, AttentionLoss, TrainInv, Reserved, Reservation, Collated, Rolled,
                            Filled, Settled, RegularRowsTrain, Tried, NTryFetch, Stages, config
<1>4. CASE Supervised /\ maps = <<>>
  <2>1. batch[1].image.blank = "global"
    BY <1>1, <1>4, EmptySeq DEF Supervised, TrainInv, Filled
  <2>2. RegularRowsTrain'
    BY <1>1, <2>1 DEF RegularRowsTrain, Regular
  <2>3. pc' = "raised" /\ used' \in {"none", "earlier"}
    BY <1>4 DEF AttentionLoss
  <2> QED
    BY <1>1, <2>1, <2>2, <2>3 DEF Tried, NTryFetch, TrainInv, Reserved, Reservation, Collated, Filled, Settled,
                                  Stages, config
<1> QED
  BY <1>2, <1>3, <1>4

LEMMA ServeStep == TrainInv /\ Serve => TrainInv'
BY EmptySeq DEF GaveUp, Tried, NTryFetch, Serve, TrainInv, Reserved, Collated, Filled, Settled, RegularRowsTrain,
                Stages, config

LEMMA AskStep ==
    ASSUME TrainInv, UNCHANGED <<config, pc, batch, encoded, tries, lengths, filled, maps, kept, used>>
    PROVE  TrainInv'
<1>1. Reserved' /\ Collated'
  BY DEF TrainInv, Reserved, Reservation, Collated, Rolled, config
<1>2. Filled'
  BY DEF TrainInv, Filled, config
<1>3. Settled' /\ RegularRowsTrain'
  BY DEF GaveUp, Tried, NTryFetch, TrainInv, Settled, RegularRowsTrain, config
<1> QED
  BY <1>1, <1>2, <1>3 DEF Tried, NTryFetch, TrainInv, config

LEMMA TrainInvStep == TrainInv /\ [Next]_vars => TrainInv'
<1> SUFFICES ASSUME TrainInv, [Next]_vars PROVE TrainInv'
  OBVIOUS
<1>1. CASE NextBatch
  BY <1>1, NextBatchStep
<1>2. CASE Encode
  BY <1>2, EncodeStep
<1>3. CASE EncodeFails
  BY <1>3, EncodeFailsStep
<1>4. CASE DataCollator
  BY <1>4, DataCollatorStep
<1>5. CASE CollatorRaises
  BY <1>5, CollatorRaisesStep
<1>6. CASE SkipImages
  BY <1>6, SkipImagesStep
<1>7. CASE EncodeSample
  BY <1>7, EncodeSampleStep
<1>8. CASE CountMismatch
  BY <1>8, CountMismatchStep
<1>9. CASE Concatenate
  BY <1>9, ConcatenateStep
<1>10. CASE AttentionLoss
  BY <1>10, AttentionLossStep
<1>11. CASE Serve
  BY <1>11, ServeStep
<1>12. CASE Ask
  BY <1>12, AskStep DEF Ask
<1>13. CASE UNCHANGED vars
  BY <1>13, AskStep DEF vars
<1> QED
  BY <1>1, <1>2, <1>3, <1>4, <1>5, <1>6, <1>7, <1>8, <1>9, <1>10, <1>11, <1>12, <1>13 DEF Next

LEMMA TrainInvAlways == Spec => []TrainInv
BY TrainInvInit, TrainInvStep, PTL DEF Spec

\* A step of training ends only with every sample used as the template reserved it.
THEOREM TrainedAsReservedHolds == Spec => []TrainedAsReserved
<1>1. ASSUME TrainInv PROVE TrainedAsReserved
  <2>1. ASSUME NEW i \in 1 .. Len(filled)
        PROVE  /\ filled[i].locals = encoded[i].views.locals
               /\ filled[i].steps = encoded[i].steps
               /\ filled[i].rows = encoded[i].slots
    <3>1. filled[i] = [locals |-> encoded[i].views.locals, steps |-> encoded[i].steps,
                       rows |-> encoded[i].slots]
      BY <1>1 DEF TrainInv, Filled
    <3> QED
      BY <3>1
  <2>2. pc = "step" => Len(filled) = Len(batch)
                         \/ (filled = <<>> /\ batch[1].image.blank = "global")
    BY <1>1 DEF TrainInv, Filled
  <2> QED
    BY <2>1, <2>2 DEF TrainedAsReserved
<1> QED
  BY <1>1, TrainInvAlways, PTL

\* Rows with their length and their fixation map, and images that do not sum to 0, stop the
\* training only where as many of them as are tried for one were too long, or where a batch
\* mixes lengths under attention supervision.
THEOREM RegularRowsTrainHolds == Spec => []RegularRowsTrain
<1>1. TrainInv => RegularRowsTrain
  BY DEF TrainInv
<1> QED
  BY <1>1, TrainInvAlways, PTL

\* The attention loss is never of the maps of an earlier step unless the first image of the
\* batch sums to 0, and otherwise of one map per sample.
THEOREM SupervisedByOwnHolds == Spec => []SupervisedByOwn
<1>1. ASSUME TrainInv PROVE SupervisedByOwn
  <2>1. ASSUME used = "own" PROVE maps = [i \in 1 .. Len(batch) |-> encoded[i].steps]
    <3>1. Len(maps) = Len(batch) /\ maps \in [1 .. Len(maps) -> 1 .. MaxSteps]
      BY <1>1, <2>1, LenProperties DEF TrainInv, Settled, Filled
    <3>2. \A i \in 1 .. Len(maps) : maps[i] = encoded[i].steps
      BY <1>1 DEF TrainInv, Filled
    <3> QED
      BY <3>1, <3>2
  <2>2. used = "earlier" => batch[1].image.blank = "global"
    BY <1>1 DEF TrainInv, Settled
  <2> QED
    BY <2>1, <2>2 DEF SupervisedByOwn
<1> QED
  BY <1>1, TrainInvAlways, PTL

-----------------------------------------------------------------------------
(* Serving. *)

\* The last request is what Ask makes of some image.
Placeholders(image) == NumImageTokens(image.size, runtimeCrop, InferenceSteps)
Served(image) ==
    [image |-> image, views |-> ServedViews(image.size, runtimeCrop),
     filled |-> Embedded(image) = Placeholders(image),
     raised |-> Embedded(image) \notin {0, Placeholders(image)}]
ServeInv ==
    /\ crop \in BOOLEAN /\ runtimeCrop \in BOOLEAN
    /\ request # None => \E image \in Images : request = Served(image)

LEMMA ServedAgain ==
    ASSUME UNCHANGED config, NEW image
    PROVE  Served(image)' = Served(image)
BY DEF Served, Embedded, Placeholders, config

LEMMA ServeInvAlways == Spec => []ServeInv
<1>1. Init => ServeInv
  BY VisionTokensAssumption DEF Init, ServeInv
<1>2. ServeInv /\ [Next]_vars => ServeInv'
  <2> SUFFICES ASSUME ServeInv, [Next]_vars PROVE ServeInv'
    OBVIOUS
  <2>1. UNCHANGED config
    BY DEF Next, vars, NextBatch, Encode, EncodeFails, DataCollator, CollatorRaises, SkipImages,
           EncodeSample, Fill, CountMismatch, Concatenate, AttentionLoss, Serve, Ask
  <2>2. CASE Ask
    <3>1. PICK image \in Images : request' = Served(image)
      BY <2>2 DEF Ask, Served, Placeholders
    <3> QED
      BY <2>1, <3>1, ServedAgain DEF ServeInv, config
  <2>3. CASE ~Ask
    <3>1. request' = request
      BY <2>3 DEF Next, vars, NextBatch, Encode, EncodeFails, DataCollator, CollatorRaises,
                  SkipImages, EncodeSample, Fill, CountMismatch, Concatenate, AttentionLoss, Serve
    <3> QED
      BY <2>1, <3>1, ServedAgain DEF ServeInv, config
  <2> QED
    BY <2>2, <2>3
<1> QED
  BY <1>1, <1>2, PTL DEF Spec

\* For every image, with crop mode on or off, the placeholders counted from its size are the
\* rows of its views, and filled with them. If its local views sum to 0 the request raises;
\* if its global view does, the request goes on with none of them filled.
THEOREM PlaceholdersFilledHolds == Spec => []PlaceholdersFilled
<1>1. ASSUME ServeInv PROVE PlaceholdersFilled
  <2> SUFFICES ASSUME request # None, ~request.filled
               PROVE  \/ request.image.blank = "global" /\ ~request.raised
                      \/ /\ request.image.blank = "locals" /\ request.views.locals > 0
                         /\ request.raised
    BY DEF PlaceholdersFilled
  <2>1. PICK image \in Images : request = Served(image)
    BY <1>1 DEF ServeInv
  <2> DEFINE views == ServedViews(image.size, runtimeCrop)
             seen == SeenLocals(views, image.blank = "locals")
             rows == EncodedRows(views, seen, InferenceSteps)
  <2>2. image.size \in Sizes /\ runtimeCrop \in BOOLEAN /\ InferenceSteps \in 1 .. MaxSteps
    BY <1>1, VisionTokensAssumption DEF ServeInv, Image
  <2>3. request.views = views /\ request.image = image
        /\ Embedded(image) # Placeholders(image)
        /\ request.raised = (Embedded(image) \notin {0, Placeholders(image)})
    BY <2>1 DEF Served
  <2>4. Embedded(image) = IF image.blank = "global" THEN 0 ELSE rows
    BY DEF Embedded
  <2>5. CASE image.blank = "global"
    BY <2>3, <2>4, <2>5
  <2>6. CASE image.blank # "global"
    <3>1. rows # Placeholders(image)
      BY <2>3, <2>4, <2>6
    <3>2. Placeholders(image) = EncodedRows(views, views.locals, InferenceSteps)
      BY <2>2, PlaceholderRows DEF Placeholders
    <3>3. image.blank = "locals" /\ views.locals # 0
      BY <3>1, <3>2 DEF SeenLocals
    <3>4. views.locals \in Nat
      BY <2>2, ServedLocals
    <3>5. rows # 0
      BY <2>2, EmbeddedSome
    <3>6. request.raised
      BY <2>3, <2>4, <2>6, <3>5
    <3> QED
      BY <2>3, <3>3, <3>4, <3>6
  <2> QED
    BY <2>5, <2>6
<1> QED
  BY <1>1, ServeInvAlways, PTL
=============================================================================
