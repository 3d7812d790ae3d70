-------------------------- MODULE TrainLoaderProofs --------------------------
(***************************************************************************)
(* Proofs about TrainLoader: the workers share the stream exactly, however *)
(* many there are, whatever the datasets and in whatever order they run.   *)
(***************************************************************************)
EXTENDS TrainLoader, FiniteSetTheorems, SequenceTheorems, WellFoundedInduction, TLAPS

-----------------------------------------------------------------------------
(* The names: the fold of _normalize_train_dataset_names, by its first position *)
(* that goes wrong.                                                             *)

\* Every non-empty set of naturals has a least element.
LEMMA Least ==
    ASSUME NEW S \in SUBSET Nat, S # {}
    PROVE  \E n \in S : \A m \in S : n <= m
<1> DEFINE R == OpToRel(<, Nat)
<1>1. \E n \in S : \A m \in S : <<m, n>> \notin R
  BY NatLessThanWellFounded, WFMin
<1>2. R = {ss \in Nat \X Nat : ss[1] < ss[2]}
  BY Zenon DEF OpToRel
<1>3. \A m, n \in Nat : m < n => <<m, n>> \in R
  <2> HIDE DEF R
  <2> QED BY <1>2
<1> HIDE DEF R
<1>4. PICK n \in S : \A m \in S : <<m, n>> \notin R
  BY <1>1
<1>5. ASSUME NEW m \in S PROVE n <= m
  <2>1. ~(m < n) /\ m \in Nat /\ n \in Nat
    BY <1>3, <1>4
  <2>2. QED
    BY <2>1
<1>6. QED
  BY <1>5

\* it: what Once computes for every set of the first k positions of s, the last one first.
FoldsTo(it, s, k) ==
    it = [t \in SUBSET (1 .. k) |-> IF t = {} THEN <<>> ELSE Once(it[t \ {Max(t)}], s[Max(t)])]

LEMMA FoldDef ==
    ASSUME NEW s, NEW n \in Nat, DOMAIN s = 1 .. n
    PROVE  FoldLeft(Once, <<>>, s) = (CHOOSE it : FoldsTo(it, s, n))[1 .. n]
BY DEF FoldLeft, MapThenFoldSet, FoldsTo

LEMMA LastPosition ==
    ASSUME NEW k \in Nat, NEW t \in SUBSET (1 .. (k + 1)), k + 1 \in t
    PROVE  Max(t) = k + 1
<1>1. \A y \in t : k + 1 >= y
  OBVIOUS
<1>2. ASSUME NEW x \in t, \A y \in t : x >= y PROVE x = k + 1
  BY <1>2
<1>3. QED
  BY <1>1, <1>2 DEF Max

LEMMA FoldExtends ==
    ASSUME NEW s, NEW k \in Nat, NEW g, FoldsTo(g, s, k)
    PROVE  \E h : FoldsTo(h, s, k + 1)
<1> DEFINE h == [t \in SUBSET (1 .. (k + 1)) |->
                   IF k + 1 \in t THEN Once(g[t \ {k + 1}], s[k + 1]) ELSE g[t]]
           value(t) == IF t = {} THEN <<>> ELSE Once(h[t \ {Max(t)}], s[Max(t)])
<1>1. ASSUME NEW t \in SUBSET (1 .. (k + 1)) PROVE h[t] = value(t)
  <2>1. CASE k + 1 \in t
    <3>1. Max(t) = k + 1
      BY <2>1, LastPosition
    <3>2. t \ {k + 1} \in SUBSET (1 .. (k + 1)) /\ k + 1 \notin t \ {k + 1}
      OBVIOUS
    <3>3. h[t \ {k + 1}] = g[t \ {k + 1}]
      BY <3>2
    <3>4. QED
      BY <2>1, <3>1, <3>3
  <2>2. CASE k + 1 \notin t
    <3>1. t \in SUBSET (1 .. k)
      BY <2>2
    <3>2. h[t] = g[t]
      BY <2>2
    <3>3. g[t] = IF t = {} THEN <<>> ELSE Once(g[t \ {Max(t)}], s[Max(t)])
      BY <3>1 DEF FoldsTo
    <3>4. h[t \ {Max(t)}] = g[t \ {Max(t)}]
      BY <2>2
    <3>5. QED
      BY <3>2, <3>3, <3>4
  <2>3. QED
    BY <2>1, <2>2
<1>2. h = [t \in SUBSET (1 .. (k + 1)) |-> value(t)]
  <2> HIDE DEF value
  <2> QED BY <1>1
<1>3. FoldsTo(h, s, k + 1)
  BY <1>2 DEF FoldsTo
<1>4. QED
  BY <1>3

LEMMA FoldExists ==
    ASSUME NEW s, NEW n \in Nat
    PROVE  \E it : FoldsTo(it, s, n)
<1> DEFINE Bad == {k \in Nat : ~ \E it : FoldsTo(it, s, k)}
<1>1. SUFFICES ASSUME Bad # {} PROVE FALSE
  OBVIOUS
<1>2. PICK k \in Bad : \A m \in Bad : k <= m
  BY <1>1, Least
<1>3. k # 0
  <2>1. FoldsTo([t \in SUBSET (1 .. 0) |-> <<>>], s, 0)
    BY DEF FoldsTo
  <2>2. QED
    BY <2>1
<1>4. k - 1 \in Nat /\ (k - 1) + 1 = k /\ ~(k <= k - 1)
  BY <1>3
<1>5. k - 1 \notin Bad
  BY <1>2, <1>4
<1>6. QED
  BY <1>4, <1>5, FoldExtends

LEMMA OnceOfSeq ==
    ASSUME NEW T, NEW names \in Seq(T), IsInjective(names), NEW new \in T
    PROVE  Once(names, new) \in Seq(T) /\ IsInjective(Once(names, new))
<1>1. CASE Contains(names, new)
  BY <1>1 DEF Once
<1>2. CASE ~Contains(names, new)
  <2>1. Once(names, new) = Append(names, new)
    BY <1>2 DEF Once
  <2>2. \A i \in 1 .. Len(names) : names[i] # new
    BY <1>2 DEF Contains
  <2>3. \A i, j \in 1 .. Len(names) : names[i] = names[j] => i = j
    BY DEF IsInjective
  <2> DEFINE u == Append(names, new)
  <2>4. /\ u \in Seq(T) /\ Len(u) = Len(names) + 1 /\ Len(names) \in Nat /\ DOMAIN u = 1 .. Len(u)
        /\ u[Len(names) + 1] = new /\ \A i \in 1 .. Len(names) : u[i] = names[i]
    OBVIOUS
  <2> HIDE DEF u
  <2>5. ASSUME NEW i \in 1 .. Len(u), NEW j \in 1 .. Len(u), u[i] = u[j] PROVE i = j
    <3>1. (i \in 1 .. Len(names) \/ i = Len(names) + 1) /\ (j \in 1 .. Len(names) \/ j = Len(names) + 1)
      BY <2>4
    <3> QED BY <2>2, <2>3, <2>4, <2>5, <3>1
  <2> QED BY <2>1, <2>4, <2>5 DEF IsInjective, u
<1> QED BY <1>1, <1>2

\* The fold of the first k positions is a sequence without repetitions.
Gathers(it, T, k) == it[1 .. k] \in Seq(T) /\ IsInjective(it[1 .. k])

LEMMA GathersFirst ==
    ASSUME NEW T, NEW s, NEW n \in Nat, NEW it, FoldsTo(it, s, n)
    PROVE  Gathers(it, T, 0)
<1>1. 1 .. 0 = {} /\ it[{}] = <<>>
  BY DEF FoldsTo
<1>2. <<>> \in Seq(T) /\ IsInjective(<<>>)
  BY DEF IsInjective
<1> QED BY <1>1, <1>2 DEF Gathers

LEMMA GathersNext ==
    ASSUME NEW T, NEW s \in Seq(T), NEW it, FoldsTo(it, s, Len(s)),
           NEW k \in Nat, k + 1 <= Len(s), Gathers(it, T, k)
    PROVE  Gathers(it, T, k + 1)
<1>1. Max(1 .. (k + 1)) = k + 1 /\ (1 .. (k + 1)) \ {k + 1} = 1 .. k
  BY LastPosition
<1>2. it[1 .. (k + 1)] = Once(it[1 .. k], s[k + 1])
  <2>1. 1 .. (k + 1) \in SUBSET (1 .. Len(s)) /\ 1 .. (k + 1) # {}
    <3>1. Len(s) \in Nat
      BY LenProperties
    <3> QED BY <3>1
  <2> QED BY <1>1, <2>1 DEF FoldsTo
<1>3. s[k + 1] \in T
  BY ElementOfSeq
<1>4. \A names \in Seq(T), new \in T :
        IsInjective(names) => Once(names, new) \in Seq(T) /\ IsInjective(Once(names, new))
  BY OnceOfSeq
<1> QED BY <1>2, <1>3, <1>4, Zenon DEF Gathers

LEMMA FoldOnce ==
    ASSUME NEW T, NEW s \in Seq(T)
    PROVE  FoldLeft(Once, <<>>, s) \in Seq(T) /\ IsInjective(FoldLeft(Once, <<>>, s))
<1> DEFINE it == CHOOSE g : FoldsTo(g, s, Len(s))
           Bad == {k \in Nat : k <= Len(s) /\ ~Gathers(it, T, k)}
<1>1. Len(s) \in Nat /\ DOMAIN s = 1 .. Len(s)
  OBVIOUS
<1>2. FoldsTo(it, s, Len(s))
  BY <1>1, FoldExists
<1>3. FoldLeft(Once, <<>>, s) = it[1 .. Len(s)]
  BY <1>1, FoldDef
<1> HIDE DEF it
<1>4. Bad = {}
  <2>1. SUFFICES ASSUME Bad # {} PROVE FALSE
    OBVIOUS
  <2>2. PICK k \in Bad : \A m \in Bad : k <= m
    BY <2>1, Least
  <2>3. k # 0
    BY <1>1, <1>2, GathersFirst
  <2>4. k - 1 \in Nat /\ (k - 1) + 1 = k /\ ~(k <= k - 1) /\ k - 1 <= Len(s) /\ k <= Len(s)
    BY <1>1, <2>3
  <2>5. Gathers(it, T, k - 1)
    BY <2>2, <2>4
  <2>6. Gathers(it, T, k)
    BY <1>2, <2>4, <2>5, GathersNext
  <2> QED BY <2>6
<1>5. Gathers(it, T, Len(s))
  BY <1>1, <1>4
<1> QED BY <1>3, <1>5 DEF Gathers

LEMMA NamesAre ==
    ASSUME request \in Requests
    PROVE  Names \in Seq(Datasets) /\ IsInjective(Names)
<1>1. request \in Seq(Datasets)
  BY LoaderAssumption
<1> QED BY <1>1, FoldOnce DEF Names

LEMMA NamesFixed == request' = request => Names' = Names
BY DEF Names

-----------------------------------------------------------------------------
(* The examples of a dataset: no two positions hold the same one.              *)

\* flat: the first i sequences of s, one after the other, for every i up to n.
Flattens(flat, s, n) ==
    flat = [i \in 1 .. n |-> IF i = 1 THEN s[i] ELSE flat[i - 1] \o s[i]]

LEMMA FlattenDef ==
    ASSUME NEW s, Len(s) # 0 PROVE FlattenSeq(s) = (CHOOSE flat : Flattens(flat, s, Len(s)))[Len(s)]
BY DEF FlattenSeq, Flattens

LEMMA FlattenExtends ==
    ASSUME NEW s, NEW n \in Nat, NEW flat, Flattens(flat, s, n)
    PROVE  \E more : Flattens(more, s, n + 1)
<1> DEFINE last == IF n + 1 = 1 THEN s[n + 1] ELSE flat[n] \o s[n + 1]
           more == [i \in 1 .. (n + 1) |-> IF i = n + 1 THEN last ELSE flat[i]]
           value(i) == IF i = 1 THEN s[i] ELSE more[i - 1] \o s[i]
<1>1. ASSUME NEW i \in 1 .. (n + 1) PROVE more[i] = value(i)
  <2>1. CASE i = n + 1
    <3>1. i # 1 => n \in 1 .. (n + 1) /\ n # n + 1 /\ i - 1 = n
      BY <2>1
    <3>2. i # 1 => more[i - 1] = flat[n]
      BY <3>1
    <3> QED BY <2>1, <3>2
  <2>2. CASE i # n + 1
    <3>1. i \in 1 .. n
      BY <2>2
    <3>2. i # 1 => i - 1 \in 1 .. (n + 1) /\ i - 1 # n + 1
      BY <3>1
    <3>3. flat[i] = IF i = 1 THEN s[i] ELSE flat[i - 1] \o s[i]
      BY <3>1 DEF Flattens
    <3>4. more[i] = flat[i] /\ (i # 1 => more[i - 1] = flat[i - 1])
      BY <2>2, <3>2
    <3> QED BY <3>3, <3>4
  <2> QED BY <2>1, <2>2
<1>2. more = [i \in 1 .. (n + 1) |-> value(i)]
  <2> HIDE DEF value
  <2> QED BY <1>1
<1>3. Flattens(more, s, n + 1)
  BY <1>2 DEF Flattens
<1> QED BY <1>3

LEMMA FlattenExists ==
    ASSUME NEW s, NEW n \in Nat PROVE \E flat : Flattens(flat, s, n)
<1> DEFINE Bad == {k \in Nat : ~ \E flat : Flattens(flat, s, k)}
<1>1. SUFFICES ASSUME Bad # {} PROVE FALSE
  OBVIOUS
<1>2. PICK k \in Bad : \A m \in Bad : k <= m
  BY <1>1, Least
<1>3. k # 0
  <2>1. Flattens([i \in 1 .. 0 |-> s[i]], s, 0)
    BY DEF Flattens
  <2> QED BY <2>1
<1>4. k - 1 \in Nat /\ (k - 1) + 1 = k /\ ~(k <= k - 1)
  BY <1>3
<1>5. k - 1 \notin Bad
  BY <1>2, <1>4
<1> QED BY <1>4, <1>5, FlattenExtends

Example(d, s, n) == [q \in 1 .. n |-> <<d, s, q>>]
Triples == Datasets \X Nat \X Nat

\* The examples of the first i samples.
Spread(flat, d, i) ==
    /\ flat[i] \in Seq(Triples)
    /\ IsInjective(flat[i])
    /\ \A k \in 1 .. Len(flat[i]) : flat[i][k][1] = d /\ flat[i][k][2] <= i

LEMMA SpreadFirst ==
    ASSUME NEW d \in Datasets, NEW n \in Nat, NEW flat, flat[1] = Example(d, 1, n)
    PROVE  Spread(flat, d, 1)
<1>1. flat[1] \in Seq(Triples) /\ DOMAIN flat[1] = 1 .. n /\ Len(flat[1]) = n
  BY DEF Example, Triples
<1>2. \A k \in 1 .. n : flat[1][k] = <<d, 1, k>>
  BY DEF Example
<1> QED BY <1>1, <1>2 DEF Spread, IsInjective

LEMMA SpreadNext ==
    ASSUME NEW d \in Datasets, NEW n \in Nat, NEW flat, NEW i \in Nat, i # 0,
           flat[i + 1] = flat[i] \o Example(d, i + 1, n), Spread(flat, d, i)
    PROVE  Spread(flat, d, i + 1)
<1> DEFINE u == flat[i + 1]
           old == flat[i]
           new == Example(d, i + 1, n)
           m == Len(old)
<1>1. old \in Seq(Triples) /\ m \in Nat /\ DOMAIN old = 1 .. m
  BY DEF Spread
<1>2. new \in Seq(Triples) /\ Len(new) = n
  BY DEF Example, Triples
<1>3. \A k \in 1 .. n : new[k] = <<d, i + 1, k>>
  BY DEF Example
<1>4. \A k \in 1 .. m : old[k][1] = d /\ old[k][2] \in Nat /\ old[k][2] <= i
  <2>1. \A k \in 1 .. m : old[k] \in Triples
    BY <1>1
  <2>2. \A x \in Triples : x[2] \in Nat
    BY DEF Triples
  <2> QED BY <2>1, <2>2 DEF Spread
<1>5. \A k, l \in 1 .. m : old[k] = old[l] => k = l
  BY <1>1 DEF Spread, IsInjective
<1>6. u = old \o new
  OBVIOUS
<1> HIDE DEF u, old, new, m
<1>7. /\ u \in Seq(Triples) /\ Len(u) = m + n /\ DOMAIN u = 1 .. (m + n)
      /\ \A k \in 1 .. m : u[k] = old[k]
      /\ \A k \in (m + 1) .. (m + n) : u[k] = new[k - m]
  <2>1. m = Len(old)
    BY DEF m
  <2>2. /\ u \in Seq(Triples) /\ Len(u) = m + n
        /\ \A k \in 1 .. (m + n) : u[k] = IF k <= m THEN old[k] ELSE new[k - m]
    BY <1>1, <1>2, <1>6, <2>1, ConcatProperties
  <2>3. DOMAIN u = 1 .. (m + n)
    BY <2>2
  <2>4. \A k \in 1 .. m : k \in 1 .. (m + n) /\ k <= m
    BY <1>1
  <2>5. \A k \in (m + 1) .. (m + n) : k \in 1 .. (m + n) /\ ~(k <= m)
    BY <1>1
  <2> QED BY <2>2, <2>3, <2>4, <2>5
<1>8. \A k \in (m + 1) .. (m + n) : u[k] = <<d, i + 1, k - m>>
  <2> TAKE k \in (m + 1) .. (m + n)
  <2>1. k - m \in 1 .. n
    BY <1>1
  <2> QED BY <1>3, <1>7, <2>1
<1>9. \A k \in 1 .. (m + n) : k \in 1 .. m \/ k \in (m + 1) .. (m + n)
  BY <1>1
<1>10. \A k \in 1 .. (m + n) : u[k][1] = d /\ u[k][2] <= i + 1
  <2> TAKE k \in 1 .. (m + n)
  <2>1. CASE k \in 1 .. m
    <3>1. u[k][1] = d /\ u[k][2] \in Nat /\ u[k][2] <= i
      BY <1>4, <1>7, <2>1
    <3> QED BY <3>1
  <2>2. CASE k \in (m + 1) .. (m + n)
    BY <1>8, <2>2
  <2> QED BY <1>9, <2>1, <2>2
<1>11. ASSUME NEW k \in 1 .. (m + n), NEW l \in 1 .. (m + n), u[k] = u[l] PROVE k = l
  <2>1. CASE k \in 1 .. m /\ l \in 1 .. m
    BY <1>5, <1>7, <1>11, <2>1
  <2>2. CASE k \in (m + 1) .. (m + n) /\ l \in (m + 1) .. (m + n)
    <3>1. k - m = l - m
      BY <1>8, <1>11, <2>2
    <3> QED BY <1>1, <3>1
  <2>3. \A x \in 1 .. m, y \in (m + 1) .. (m + n) : u[x] # u[y]
    <3> TAKE x \in 1 .. m, y \in (m + 1) .. (m + n)
    <3>1. u[x][2] \in Nat /\ u[x][2] <= i
      BY <1>4, <1>7
    <3>2. u[y][2] = i + 1
      BY <1>8
    <3>3. u[x][2] # u[y][2]
      BY <3>1, <3>2
    <3> QED BY <3>3
  <2> QED BY <1>9, <1>11, <2>1, <2>2, <2>3
<1> QED BY <1>7, <1>10, <1>11 DEF Spread, IsInjective, u

\* Every example is at one position of one dataset.
LEMMA ExamplesOf ==
    ASSUME NEW d \in Datasets
    PROVE  /\ Examples(d) \in Seq(Triples) /\ Len(Examples(d)) \in Nat
           /\ \A j, k \in 1 .. Len(Examples(d)) : Examples(d)[j] = Examples(d)[k] => j = k
           /\ \A k \in 1 .. Len(Examples(d)) : Examples(d)[k][1] = d
<1> DEFINE size(i) == Yield(d, Questions[d][i])
           s == [i \in 1 .. Len(Questions[d]) |-> Example(d, i, size(i))]
           n == Len(Questions[d])
<1>1. n \in Nat /\ \A i \in 1 .. n : size(i) \in Nat
  <2>1. Questions[d] \in Seq(Nat)
    BY LoaderAssumption
  <2>2. n \in Nat /\ \A i \in 1 .. n : Questions[d][i] \in Nat
    BY <2>1
  <2> QED BY <2>2 DEF Yield
<1>2. Examples(d) = FlattenSeq(s)
  BY DEF Examples, Example
<1>3. Len(s) = n /\ \A i \in 1 .. n : s[i] = Example(d, i, size(i))
  BY <1>1
<1> HIDE DEF n, size
<1>4. CASE n = 0
  <2>1. s = <<>>
    BY <1>4 DEF n
  <2>2. FlattenSeq(s) = <<>>
    BY <2>1 DEF FlattenSeq
  <2> HIDE DEF s
  <2>3. Examples(d) = <<>>
    BY <1>2, <2>2
  <2>4. <<>> \in Seq(Triples) /\ Len(<<>>) \in Nat /\ 1 .. Len(<<>>) = {}
    OBVIOUS
  <2> QED BY <2>3, <2>4, Zenon
<1>5. CASE n # 0
  <2> HIDE DEF s
  <2> DEFINE flat == CHOOSE f : Flattens(f, s, n)
             Bad == {i \in Nat : i \in 1 .. n /\ ~Spread(flat, d, i)}
  <2>1. Flattens(flat, s, n)
    BY <1>1, FlattenExists
  <2>2. Examples(d) = flat[n]
    BY <1>2, <1>3, <1>5, FlattenDef
  <2> HIDE DEF flat
  <2>3. \A i \in 1 .. n : flat[i] = IF i = 1 THEN s[i] ELSE flat[i - 1] \o s[i]
    BY <2>1 DEF Flattens
  <2>4. Bad = {}
    <3>1. SUFFICES ASSUME Bad # {} PROVE FALSE
      OBVIOUS
    <3>2. PICK i \in Bad : \A m \in Bad : i <= m
      BY <3>1, Least
    <3>3. CASE i = 1
      <4>1. flat[1] = Example(d, 1, size(1)) /\ size(1) \in Nat
        BY <1>1, <1>3, <2>3, <3>3
      <4> QED BY <3>2, <3>3, <4>1, SpreadFirst
    <3>4. CASE i # 1
      <4>1. i - 1 \in Nat /\ i - 1 # 0 /\ (i - 1) + 1 = i /\ i - 1 \in 1 .. n /\ ~(i <= i - 1)
        BY <1>1, <3>4
      <4>2. flat[i] = flat[i - 1] \o Example(d, i, size(i)) /\ size(i) \in Nat
        BY <1>1, <1>3, <2>3, <3>4
      <4>3. Spread(flat, d, i - 1)
        BY <3>2, <4>1
      <4>4. Spread(flat, d, i)
        BY <4>1, <4>2, <4>3, SpreadNext
      <4> QED BY <4>4
    <3> QED BY <3>3, <3>4
  <2>5. Spread(flat, d, n)
    BY <1>1, <1>5, <2>4
  <2> QED BY <2>2, <2>5 DEF Spread, IsInjective
<1> QED BY <1>4, <1>5

-----------------------------------------------------------------------------
(* The order of the stream, for datasets with a rank (their place among the names) *)
(* and a size: what a worker has read says which example comes next, and the       *)
(* example that comes next says how much of each dataset has been read before it.  *)

\* a comes before b when p of each have been read.
Ahead(rank, rr, p, a, b) ==
    IF rr THEN p[a] < p[b] \/ (p[a] = p[b] /\ rank[a] < rank[b]) ELSE rank[a] < rank[b]

\* How far a waiting dataset may be from the one whose turn it is.
Near(rank, rr, p, head, a) ==
    IF rr THEN p[a] = p[head] \/ (p[a] = p[head] + 1 /\ rank[a] < rank[head])
          ELSE a = head \/ p[a] = 0

Setting(rank, size) ==
    /\ DOMAIN rank \subseteq Datasets
    /\ \A d \in DOMAIN rank : rank[d] \in Nat
    /\ \A a, b \in DOMAIN rank : rank[a] = rank[b] => a = b
    /\ \A d \in Datasets : size[d] \in Nat

InTurn(rank, size, rr, t, p) ==
    /\ t \in Seq(DOMAIN rank) /\ p \in [Datasets -> Nat]
    /\ \A d \in Datasets : p[d] <= size[d] /\ (d \notin DOMAIN rank => p[d] = 0)
    /\ \A i, k \in 1 .. Len(t) : i < k => Ahead(rank, rr, p, t[i], t[k])
    /\ \A i \in 1 .. Len(t) : Near(rank, rr, p, t[1], t[i])
    /\ \A d \in DOMAIN rank :
         \/ \E i \in 1 .. Len(t) : t[i] = d
         \/ p[d] = size[d] /\ (t # <<>> => Ahead(rank, rr, p, d, t[1]))

LEMMA AheadTransitive ==
    ASSUME NEW rank, NEW size, Setting(rank, size), NEW rr \in BOOLEAN, NEW p \in [Datasets -> Nat],
           NEW a \in DOMAIN rank, NEW b \in DOMAIN rank, NEW c \in DOMAIN rank,
           Ahead(rank, rr, p, a, b), Ahead(rank, rr, p, b, c)
    PROVE  Ahead(rank, rr, p, a, c)
<1>1. /\ rank[a] \in Nat /\ rank[b] \in Nat /\ rank[c] \in Nat
      /\ p[a] \in Nat /\ p[b] \in Nat /\ p[c] \in Nat
  BY DEF Setting
<1> QED BY <1>1 DEF Ahead

LEMMA AheadNotEqual ==
    ASSUME NEW rank, NEW size, Setting(rank, size), NEW rr \in BOOLEAN, NEW p \in [Datasets -> Nat],
           NEW a \in DOMAIN rank, NEW b \in DOMAIN rank, Ahead(rank, rr, p, a, b)
    PROVE  a # b
<1>1. rank[a] \in Nat /\ p[a] \in Nat
  BY DEF Setting
<1> QED BY <1>1 DEF Ahead

\* Whoever is behind the next of the waiting ones is near to it.
LEMMA NearNext ==
    ASSUME NEW rank, NEW size, Setting(rank, size), NEW rr \in BOOLEAN, NEW p \in [Datasets -> Nat],
           NEW h \in DOMAIN rank, NEW g \in DOMAIN rank, NEW a \in DOMAIN rank,
           Ahead(rank, rr, p, h, g), Near(rank, rr, p, h, g), g # h, a # h,
           Ahead(rank, rr, p, g, a), Near(rank, rr, p, h, a)
    PROVE  Near(rank, rr, p, g, a)
<1>1. /\ rank[a] \in Nat /\ rank[g] \in Nat /\ rank[h] \in Nat
      /\ p[a] \in Nat /\ p[g] \in Nat /\ p[h] \in Nat
  BY DEF Setting
<1> QED BY <1>1 DEF Ahead, Near

\* StopIteration: the dataset whose turn it was leaves.
LEMMA TurnExhausts ==
    ASSUME NEW rank, NEW size, Setting(rank, size), NEW rr \in BOOLEAN, NEW t, NEW p,
           InTurn(rank, size, rr, t, p), t # <<>>, p[t[1]] = size[t[1]]
    PROVE  InTurn(rank, size, rr, Tail(t), p)
<1>1. /\ t \in Seq(DOMAIN rank) /\ p \in [Datasets -> Nat]
      /\ \A d \in Datasets : p[d] <= size[d] /\ (d \notin DOMAIN rank => p[d] = 0)
      /\ \A i, k \in 1 .. Len(t) : i < k => Ahead(rank, rr, p, t[i], t[k])
      /\ \A i \in 1 .. Len(t) : Near(rank, rr, p, t[1], t[i])
      /\ \A d \in DOMAIN rank :
           \/ \E i \in 1 .. Len(t) : t[i] = d
           \/ p[d] = size[d] /\ (t # <<>> => Ahead(rank, rr, p, d, t[1]))
  BY DEF InTurn
<1> DEFINE u == Tail(t)
<1>2. /\ Len(t) \in Nat /\ Len(t) # 0 /\ u \in Seq(DOMAIN rank) /\ Len(u) = Len(t) - 1
      /\ \A i \in 1 .. Len(u) : u[i] = t[i + 1]
      /\ \A i \in 1 .. Len(t) : t[i] \in DOMAIN rank
  BY <1>1
<1> HIDE DEF u
<1>3. \A i \in 1 .. Len(u) : i + 1 \in 1 .. Len(t) /\ 1 < i + 1 /\ 1 \in 1 .. Len(t)
  BY <1>2
<1>4. ASSUME NEW i \in 1 .. Len(u), NEW k \in 1 .. Len(u), i < k PROVE Ahead(rank, rr, p, u[i], u[k])
  <2>1. i + 1 < k + 1
    BY <1>4
  <2> QED BY <1>1, <1>2, <1>3, <2>1
<1>5. ASSUME NEW i \in 1 .. Len(u) PROVE Near(rank, rr, p, u[1], u[i])
  <2>1. CASE i = 1
    <3>1. rank[u[1]] \in Nat
      BY <1>2, <1>3, <2>1 DEF Setting
    <3> QED BY <2>1 DEF Near
  <2>2. CASE i # 1
    <3>1. 1 \in 1 .. Len(u) /\ 1 < i
      BY <1>2, <2>2
    <3>2. Ahead(rank, rr, p, u[1], u[i])
      BY <1>4, <3>1
    <3>3. /\ Ahead(rank, rr, p, t[1], u[1]) /\ Near(rank, rr, p, t[1], u[1])
          /\ Ahead(rank, rr, p, t[1], u[i]) /\ Near(rank, rr, p, t[1], u[i])
      BY <1>1, <1>2, <1>3, <3>1
    <3>4. t[1] \in DOMAIN rank /\ u[1] \in DOMAIN rank /\ u[i] \in DOMAIN rank
      BY <1>2, <1>3, <3>1
    <3>5. u[1] # t[1] /\ u[i] # t[1]
      BY <1>1, <3>3, <3>4, AheadNotEqual
    <3> QED BY <1>1, <3>2, <3>3, <3>4, <3>5, NearNext
  <2> QED BY <2>1, <2>2
<1>6. ASSUME NEW d \in DOMAIN rank
      PROVE  \/ \E i \in 1 .. Len(u) : u[i] = d
             \/ p[d] = size[d] /\ (u # <<>> => Ahead(rank, rr, p, d, u[1]))
  <2>1. u # <<>> => Ahead(rank, rr, p, t[1], u[1]) /\ u[1] \in DOMAIN rank /\ t[1] \in DOMAIN rank
    <3>1. u # <<>> => 1 \in 1 .. Len(u)
      BY <1>2
    <3> QED BY <1>1, <1>2, <1>3, <3>1
  <2>2. CASE d = t[1]
    BY <2>1, <2>2
  <2>3. CASE d # t[1] /\ \E i \in 1 .. Len(t) : t[i] = d
    <3>1. PICK i \in 1 .. Len(t) : t[i] = d
      BY <2>3
    <3>2. i # 1 /\ i - 1 \in 1 .. Len(u) /\ (i - 1) + 1 = i
      BY <1>2, <2>3, <3>1
    <3> QED BY <1>2, <3>1, <3>2
  <2>4. CASE p[d] = size[d] /\ Ahead(rank, rr, p, d, t[1])
    BY <1>1, <2>1, <2>4, AheadTransitive
  <2> QED BY <1>1, <2>2, <2>3, <2>4
<1> QED BY <1>1, <1>2, <1>4, <1>5, <1>6 DEF InTurn, u

\* What a step of the head leaves as it was between others.
LEMMA AheadKept ==
    ASSUME NEW rank, NEW rr \in BOOLEAN, NEW p, NEW q, NEW a, NEW b, q[a] = p[a], q[b] = p[b]
    PROVE  /\ Ahead(rank, rr, q, a, b) <=> Ahead(rank, rr, p, a, b)
           /\ Near(rank, rr, q, a, b) <=> Near(rank, rr, p, a, b)
BY DEF Ahead, Near

\* An example is read: in turn, the dataset goes to the end; otherwise it stays.
LEMMA TurnRotates ==
    ASSUME NEW rank, NEW size, Setting(rank, size), NEW t, NEW p,
           InTurn(rank, size, TRUE, t, p), t # <<>>, p[t[1]] < size[t[1]]
    PROVE  InTurn(rank, size, TRUE, Append(Tail(t), t[1]), [p EXCEPT ![t[1]] = @ + 1])
<1>1. /\ t \in Seq(DOMAIN rank) /\ p \in [Datasets -> Nat]
      /\ \A d \in Datasets : p[d] <= size[d] /\ (d \notin DOMAIN rank => p[d] = 0)
      /\ \A i, k \in 1 .. Len(t) : i < k => Ahead(rank, TRUE, p, t[i], t[k])
      /\ \A i \in 1 .. Len(t) : Near(rank, TRUE, p, t[1], t[i])
      /\ \A d \in DOMAIN rank :
           \/ \E i \in 1 .. Len(t) : t[i] = d
           \/ p[d] = size[d] /\ (t # <<>> => Ahead(rank, TRUE, p, d, t[1]))
  BY DEF InTurn
<1> DEFINE h == t[1]
           u == Append(Tail(t), h)
           q == [p EXCEPT ![h] = @ + 1]
           n == Len(t)
<1>2. /\ n \in Nat /\ n # 0 /\ 1 \in 1 .. n /\ h \in DOMAIN rank
      /\ \A i \in 1 .. n : t[i] \in DOMAIN rank
  BY <1>1
<1>3. u \in Seq(DOMAIN rank) /\ Len(u) = n /\ u[n] = h /\ \A i \in 1 .. (n - 1) : u[i] = t[i + 1]
  BY <1>1, <1>2
<1>4. \A i \in 1 .. (n - 1) : i \in 1 .. n /\ i + 1 \in 1 .. n /\ 1 < i + 1
  BY <1>2
<1>5. h \in Datasets /\ p[h] \in Nat /\ size[h] \in Nat /\ rank[h] \in Nat
  BY <1>1, <1>2 DEF Setting
<1>6. q \in [Datasets -> Nat] /\ q[h] = p[h] + 1 /\ \A d \in Datasets : d # h => q[d] = p[d]
  BY <1>1, <1>5
<1>7. \A i \in 1 .. (n - 1) : Ahead(rank, TRUE, p, h, t[i + 1]) /\ t[i + 1] # h /\ t[i + 1] \in Datasets
  <2> TAKE i \in 1 .. (n - 1)
  <2>1. Ahead(rank, TRUE, p, h, t[i + 1]) /\ t[i + 1] \in DOMAIN rank
    BY <1>1, <1>2, <1>4
  <2>2. h # t[i + 1]
    BY <1>1, <1>2, <2>1, AheadNotEqual
  <2> QED BY <2>1, <2>2 DEF Setting
<1>8. h = t[1]
  OBVIOUS
<1>0. n # 1 => /\ 1 \in 1 .. (n - 1) /\ 2 \in 1 .. n /\ u[1] = t[2] /\ t[2] # h /\ t[2] \in Datasets
                /\ Ahead(rank, TRUE, p, h, t[2]) /\ t[2] \in DOMAIN rank
  <2> SUFFICES ASSUME n # 1
               PROVE  /\ 1 \in 1 .. (n - 1) /\ 2 \in 1 .. n /\ u[1] = t[2] /\ t[2] # h /\ t[2] \in Datasets
                      /\ Ahead(rank, TRUE, p, h, t[2]) /\ t[2] \in DOMAIN rank
    OBVIOUS
  <2> HIDE DEF u, h, n
  <2>1. 1 \in 1 .. (n - 1) /\ 2 \in 1 .. n /\ 1 + 1 = 2
    BY <1>2
  <2>2. t[1 + 1] = t[2]
    BY <2>1
  <2>3. u[1] = t[1 + 1]
    BY <1>3, <2>1
  <2>4. Ahead(rank, TRUE, p, h, t[1 + 1]) /\ t[1 + 1] # h /\ t[1 + 1] \in Datasets
    BY <1>7, <2>1
  <2>5. t[2] \in DOMAIN rank
    BY <1>2, <2>1
  <2> QED BY <2>1, <2>2, <2>3, <2>4, <2>5
<1> HIDE DEF u, q, n, h
<1>9. \A d \in Datasets : q[d] <= size[d] /\ (d \notin DOMAIN rank => q[d] = 0)
  <2>1. q[h] <= size[h]
    BY <1>5, <1>6, <1>8
  <2> QED BY <1>1, <1>2, <1>6, <2>1
<1>10. \A i \in 1 .. n : i = n \/ i \in 1 .. (n - 1)
  BY <1>2
<1>11. ASSUME NEW i \in 1 .. n, NEW k \in 1 .. n, i < k PROVE Ahead(rank, TRUE, q, u[i], u[k])
  <2>1. i \in 1 .. (n - 1)
    BY <1>2, <1>11
  <2>2. CASE k = n
    <3>1. Near(rank, TRUE, p, h, t[i + 1])
      BY <1>1, <1>4, <1>8, <2>1 DEF n
    <3>2. p[t[i + 1]] \in Nat /\ q[t[i + 1]] = p[t[i + 1]] /\ t[i + 1] # h
      BY <1>1, <1>6, <1>7, <2>1
    <3>3. Ahead(rank, TRUE, q, t[i + 1], h)
      BY <1>5, <1>6, <3>1, <3>2 DEF Near, Ahead
    <3> QED BY <1>3, <2>1, <2>2, <3>3
  <2>3. CASE k \in 1 .. (n - 1)
    <3>1. i + 1 < k + 1
      BY <1>11
    <3>2. Ahead(rank, TRUE, p, t[i + 1], t[k + 1])
      BY <1>1, <1>4, <2>1, <2>3, <3>1 DEF n
    <3>3. q[t[i + 1]] = p[t[i + 1]] /\ q[t[k + 1]] = p[t[k + 1]]
      BY <1>6, <1>7, <2>1, <2>3
    <3>4. Ahead(rank, TRUE, q, t[i + 1], t[k + 1])
      BY <3>2, <3>3, AheadKept
    <3> QED BY <1>3, <2>1, <2>3, <3>4
  <2> QED BY <1>10, <2>2, <2>3
<1>12. ASSUME NEW i \in 1 .. n PROVE Near(rank, TRUE, q, u[1], u[i])
  <2>1. CASE i = 1
    BY <2>1 DEF Near
  <2>2. CASE i # 1
    <3>1. n # 1 /\ 2 \in 1 .. n
      BY <1>2, <1>0, <2>2
    <3> DEFINE g == t[2]
    <3>2. u[1] = g /\ g # h /\ g \in Datasets /\ Ahead(rank, TRUE, p, h, g) /\ g \in DOMAIN rank
          /\ Near(rank, TRUE, p, h, g)
      <4>1. Near(rank, TRUE, p, h, t[2])
        BY <1>1, <1>8, <3>1 DEF n
      <4> QED BY <1>0, <3>1, <4>1
    <3> HIDE DEF g
    <3>3. q[g] = p[g] /\ p[g] \in Nat /\ rank[g] \in Nat
      BY <1>1, <1>6, <3>2 DEF Setting
    <3>4. CASE i = n
      <4>1. Near(rank, TRUE, q, g, h)
        BY <1>5, <1>6, <3>2, <3>3 DEF Near, Ahead
      <4> QED BY <1>3, <3>2, <3>4, <4>1
    <3>5. CASE i \in 1 .. (n - 1)
      <4> DEFINE a == t[i + 1]
      <4>1. a # h /\ a \in Datasets /\ a \in DOMAIN rank /\ u[i] = a /\ Near(rank, TRUE, p, h, a)
        BY <1>1, <1>2, <1>3, <1>4, <1>7, <1>8, <3>5 DEF n
      <4>2. Ahead(rank, TRUE, p, g, a)
        <5>1. 2 < i + 1 /\ 2 \in 1 .. Len(t) /\ i + 1 \in 1 .. Len(t)
          BY <1>2, <2>2, <3>5 DEF n
        <5> QED BY <1>1, <5>1 DEF g
      <4> HIDE DEF a
      <4>3. Near(rank, TRUE, p, g, a)
        BY <1>1, <1>2, <3>2, <4>1, <4>2, NearNext
      <4>4. q[a] = p[a]
        BY <1>6, <4>1
      <4>5. Near(rank, TRUE, q, g, a)
        BY <3>3, <4>3, <4>4, AheadKept
      <4> QED BY <3>2, <4>1, <4>5
    <3> QED BY <1>10, <3>4, <3>5
  <2> QED BY <2>1, <2>2
<1>13. ASSUME NEW d \in DOMAIN rank
       PROVE  (\E i \in 1 .. n : u[i] = d) \/ (q[d] = size[d] /\ Ahead(rank, TRUE, q, d, u[1]))
  <2>1. CASE \E i \in 1 .. n : t[i] = d
    <3>1. PICK i \in 1 .. n : t[i] = d
      BY <2>1
    <3>2. CASE i = 1
      <4>1. d = h /\ n \in 1 .. n
        BY <1>2, <1>8, <3>1, <3>2
      <4> QED BY <1>3, <4>1
    <3>3. CASE i # 1
      <4>1. i - 1 \in 1 .. (n - 1) /\ (i - 1) + 1 = i /\ i - 1 \in 1 .. n
        BY <1>2, <3>3
      <4> QED BY <1>3, <3>1, <4>1
    <3> QED BY <3>2, <3>3
  <2>2. CASE p[d] = size[d] /\ Ahead(rank, TRUE, p, d, h)
    <3>0. d # h
      BY <1>1, <1>2, <2>2, AheadNotEqual
    <3>1. d # h /\ d \in Datasets
      BY <3>0 DEF Setting
    <3>2. q[d] = p[d] /\ p[d] \in Nat /\ rank[d] \in Nat
      BY <1>1, <1>6, <3>1 DEF Setting
    <3>3. CASE n = 1
      <4>1. u[1] = h
        BY <1>3, <3>3
      <4>2. Ahead(rank, TRUE, q, d, h)
        BY <1>5, <1>6, <2>2, <3>2 DEF Ahead
      <4> QED BY <2>2, <3>2, <4>1, <4>2
    <3>4. CASE n # 1
      <4> DEFINE g == t[2]
      <4>2. u[1] = g /\ g # h /\ g \in Datasets /\ Ahead(rank, TRUE, p, h, g) /\ g \in DOMAIN rank
        BY <1>0, <3>4
      <4> HIDE DEF g
      <4>3. Ahead(rank, TRUE, p, d, g)
        BY <1>1, <1>2, <2>2, <4>2, AheadTransitive
      <4>4. Ahead(rank, TRUE, q, d, g)
        BY <1>6, <3>2, <4>2, <4>3, AheadKept
      <4> QED BY <2>2, <3>2, <4>2, <4>4
    <3> QED BY <3>3, <3>4
  <2> QED BY <1>1, <1>8, <2>1, <2>2 DEF n
<1>14. InTurn(rank, size, TRUE, u, q)
  BY <1>3, <1>6, <1>9, <1>11, <1>12, <1>13 DEF InTurn
<1> QED BY <1>14 DEF u, q, h

LEMMA TurnStays ==
    ASSUME NEW rank, NEW size, Setting(rank, size), NEW t, NEW p,
           InTurn(rank, size, FALSE, t, p), t # <<>>, p[t[1]] < size[t[1]]
    PROVE  InTurn(rank, size, FALSE, t, [p EXCEPT ![t[1]] = @ + 1])
<1>1. /\ t \in Seq(DOMAIN rank) /\ p \in [Datasets -> Nat]
      /\ \A d \in Datasets : p[d] <= size[d] /\ (d \notin DOMAIN rank => p[d] = 0)
      /\ \A i, k \in 1 .. Len(t) : i < k => Ahead(rank, FALSE, p, t[i], t[k])
      /\ \A i \in 1 .. Len(t) : Near(rank, FALSE, p, t[1], t[i])
      /\ \A d \in DOMAIN rank :
           \/ \E i \in 1 .. Len(t) : t[i] = d
           \/ p[d] = size[d] /\ (t # <<>> => Ahead(rank, FALSE, p, d, t[1]))
  BY DEF InTurn
<1> DEFINE h == t[1]
           q == [p EXCEPT ![h] = @ + 1]
<1>2. h \in DOMAIN rank /\ h \in Datasets /\ p[h] \in Nat /\ size[h] \in Nat /\ p[h] < size[h]
      /\ \A i \in 1 .. Len(t) : t[i] \in DOMAIN rank /\ t[i] \in Datasets
  <2>1. \A i \in 1 .. Len(t) : t[i] \in DOMAIN rank
    BY <1>1
  <2>2. 1 \in 1 .. Len(t)
    BY <1>1
  <2> QED BY <1>1, <2>1, <2>2 DEF Setting
<1>3. h = t[1]
  OBVIOUS
<1>4. q \in [Datasets -> Nat] /\ q[h] = p[h] + 1 /\ \A d \in Datasets : d # h => q[d] = p[d]
  BY <1>1, <1>2
<1> HIDE DEF h, q
<1>5. \A d \in Datasets : q[d] <= size[d] /\ (d \notin DOMAIN rank => q[d] = 0)
  <2>1. q[h] <= size[h]
    BY <1>2, <1>4
  <2> QED BY <1>1, <1>2, <1>4, <2>1
<1>6. \A i, k \in 1 .. Len(t) : i < k => Ahead(rank, FALSE, q, t[i], t[k])
  BY <1>1 DEF Ahead
<1>7. \A i \in 1 .. Len(t) : Near(rank, FALSE, q, t[1], t[i])
  BY <1>1, <1>2, <1>3, <1>4 DEF Near
<1>8. ASSUME NEW d \in DOMAIN rank
      PROVE  (\E i \in 1 .. Len(t) : t[i] = d) \/ (q[d] = size[d] /\ (t # <<>> => Ahead(rank, FALSE, q, d, t[1])))
  <2>1. CASE p[d] = size[d] /\ Ahead(rank, FALSE, p, d, h)
    <3>1. d # h /\ d \in Datasets
      BY <1>1, <1>2, <2>1, AheadNotEqual DEF Setting
    <3> QED BY <1>3, <1>4, <2>1, <3>1 DEF Ahead
  <2> QED BY <1>1, <1>3, <2>1
<1>9. InTurn(rank, size, FALSE, t, q)
  BY <1>1, <1>4, <1>5, <1>6, <1>7, <1>8 DEF InTurn
<1> QED BY <1>9 DEF q, h

AtMost(a, b) == IF a <= b THEN a ELSE b

\* How much of each dataset is read before the j-th example of d.
ReadBefore(rank, size, rr, d, j) ==
    [a \in Datasets |->
       IF a \notin DOMAIN rank THEN 0
       ELSE IF rr THEN AtMost(size[a], IF rank[a] < rank[d] THEN j ELSE j - 1)
       ELSE IF rank[a] < rank[d] THEN size[a]
       ELSE IF a = d THEN j - 1 ELSE 0]

LEMMA NextIsKnown ==
    ASSUME NEW rank, NEW size, Setting(rank, size), NEW rr \in BOOLEAN, NEW t, NEW p,
           InTurn(rank, size, rr, t, p), t # <<>>
    PROVE  p = ReadBefore(rank, size, rr, t[1], p[t[1]] + 1)
<1>1. /\ t \in Seq(DOMAIN rank) /\ p \in [Datasets -> Nat]
      /\ \A d \in Datasets : p[d] <= size[d] /\ (d \notin DOMAIN rank => p[d] = 0)
      /\ \A i, k \in 1 .. Len(t) : i < k => Ahead(rank, rr, p, t[i], t[k])
      /\ \A i \in 1 .. Len(t) : Near(rank, rr, p, t[1], t[i])
      /\ \A d \in DOMAIN rank :
           \/ \E i \in 1 .. Len(t) : t[i] = d
           \/ p[d] = size[d] /\ Ahead(rank, rr, p, d, t[1])
  BY DEF InTurn
<1> DEFINE h == t[1]
           j == p[h] + 1
           value(a) == IF a \notin DOMAIN rank THEN 0
                       ELSE IF rr THEN AtMost(size[a], IF rank[a] < rank[h] THEN j ELSE j - 1)
                       ELSE IF rank[a] < rank[h] THEN size[a]
                       ELSE IF a = h THEN j - 1 ELSE 0
<1>2. h \in DOMAIN rank /\ h \in Datasets /\ p[h] \in Nat /\ rank[h] \in Nat /\ 1 \in 1 .. Len(t)
  <2>1. 1 \in 1 .. Len(t)
    BY <1>1
  <2> QED BY <1>1, <2>1 DEF Setting
<1>3. ASSUME NEW a \in DOMAIN rank PROVE p[a] = value(a)
  <2>1. a \in Datasets /\ p[a] \in Nat /\ size[a] \in Nat /\ rank[a] \in Nat /\ p[a] <= size[a]
        /\ (rank[a] = rank[h] => a = h)
    BY <1>1, <1>2 DEF Setting
  <2>2. CASE \E i \in 1 .. Len(t) : t[i] = a
    <3>1. PICK i \in 1 .. Len(t) : t[i] = a
      BY <2>2
    <3>2. Near(rank, rr, p, h, a)
      BY <1>1, <3>1
    <3>3. a = h \/ Ahead(rank, rr, p, h, a)
      <4>1. i = 1 \/ 1 < i
        OBVIOUS
      <4> QED BY <1>1, <1>2, <3>1, <4>1
    <3> HIDE DEF h
    <3> QED BY <1>2, <2>1, <3>2, <3>3 DEF Near, Ahead, AtMost
  <2>3. CASE p[a] = size[a] /\ Ahead(rank, rr, p, a, h)
    <3> HIDE DEF h
    <3> QED BY <1>2, <2>1, <2>3 DEF Ahead, AtMost
  <2> QED BY <1>1, <2>2, <2>3
<1>4. \A a \in Datasets : p[a] = value(a)
  BY <1>1, <1>3
<1>5. p = [a \in Datasets |-> value(a)]
  <2> HIDE DEF value
  <2> QED BY <1>1, <1>4
<1> QED BY <1>5 DEF ReadBefore

-----------------------------------------------------------------------------
(* The position in the stream is what has been read of all datasets together.  *)

\* sum: what has been read of the first k names, for every k up to n.
Sums(sum, names, p, n) ==
    sum = [k \in 0 .. n |-> IF k = 0 THEN 0 ELSE sum[k - 1] + p[names[k]]]

AllRead(names, p) == (CHOOSE sum : Sums(sum, names, p, Len(names)))[Len(names)]

LEMMA SumExtends ==
    ASSUME NEW names, NEW p, NEW n \in Nat, NEW sum, Sums(sum, names, p, n)
    PROVE  \E more : Sums(more, names, p, n + 1)
<1> DEFINE last == sum[n] + p[names[n + 1]]
           more == [k \in 0 .. (n + 1) |-> IF k = n + 1 THEN last ELSE sum[k]]
           value(k) == IF k = 0 THEN 0 ELSE more[k - 1] + p[names[k]]
<1>1. ASSUME NEW k \in 0 .. (n + 1) PROVE more[k] = value(k)
  <2>1. CASE k = n + 1
    <3>1. k # 0 /\ k - 1 = n /\ n \in 0 .. (n + 1) /\ n # n + 1
      BY <2>1
    <3>2. more[n] = sum[n]
      BY <3>1
    <3> QED BY <2>1, <3>1, <3>2
  <2>2. CASE k # n + 1
    <3>1. k \in 0 .. n
      BY <2>2
    <3>2. k # 0 => k - 1 \in 0 .. (n + 1) /\ k - 1 # n + 1
      BY <3>1
    <3>3. sum[k] = IF k = 0 THEN 0 ELSE sum[k - 1] + p[names[k]]
      BY <3>1 DEF Sums
    <3>4. more[k] = sum[k] /\ (k # 0 => more[k - 1] = sum[k - 1])
      BY <2>2, <3>2
    <3> QED BY <3>3, <3>4
  <2> QED BY <2>1, <2>2
<1>2. more = [k \in 0 .. (n + 1) |-> value(k)]
  <2> HIDE DEF value
  <2> QED BY <1>1
<1>3. Sums(more, names, p, n + 1)
  BY <1>2 DEF Sums
<1> QED BY <1>3

LEMMA SumExists ==
    ASSUME NEW names, NEW p, NEW n \in Nat PROVE \E sum : Sums(sum, names, p, n)
<1> DEFINE Bad == {k \in Nat : ~ \E sum : Sums(sum, names, p, k)}
<1>1. SUFFICES ASSUME Bad # {} PROVE FALSE
  OBVIOUS
<1>2. PICK k \in Bad : \A m \in Bad : k <= m
  BY <1>1, Least
<1>3. k # 0
  <2>1. Sums([i \in 0 .. 0 |-> 0], names, p, 0)
    BY DEF Sums
  <2> QED BY <2>1
<1>4. k - 1 \in Nat /\ (k - 1) + 1 = k /\ ~(k <= k - 1)
  BY <1>3
<1>5. k - 1 \notin Bad
  BY <1>2, <1>4
<1> QED BY <1>4, <1>5, SumExtends

\* One more of one dataset is one more of all.
LEMMA SumStep ==
    ASSUME NEW names \in Seq(Datasets), IsInjective(names), NEW p \in [Datasets -> Nat],
           NEW at \in 1 .. Len(names)
    PROVE  /\ AllRead(names, p) \in Nat
           /\ AllRead(names, [p EXCEPT ![names[at]] = @ + 1]) = AllRead(names, p) + 1
<1> DEFINE n == Len(names)
           d == names[at]
           q == [p EXCEPT ![d] = @ + 1]
           sum == CHOOSE s : Sums(s, names, p, n)
           next == CHOOSE s : Sums(s, names, q, n)
           more(k) == IF at <= k THEN 1 ELSE 0
           Bad == {k \in Nat : k <= n /\ ~(sum[k] \in Nat /\ next[k] = sum[k] + more(k))}
<1>1. n \in Nat /\ (\A i \in 1 .. n : names[i] \in Datasets) /\ d \in Datasets /\ at \in 1 .. n
  OBVIOUS
<1>2. \A i, j \in 1 .. n : names[i] = names[j] => i = j
  <2>1. DOMAIN names = 1 .. n
    OBVIOUS
  <2> QED BY <2>1 DEF IsInjective
<1>3. AllRead(names, p) = sum[n] /\ AllRead(names, q) = next[n]
  BY DEF AllRead
<1>4. d = names[at]
  OBVIOUS
<1>5. q[d] = p[d] + 1 /\ p[d] \in Nat /\ \A a \in Datasets : a # d => q[a] = p[a]
  BY <1>1
<1> HIDE DEF n, d, q
<1>6. Sums(sum, names, p, n) /\ Sums(next, names, q, n)
  BY <1>1, SumExists
<1> HIDE DEF sum, next
<1>7. Bad = {}
  <2>1. SUFFICES ASSUME Bad # {} PROVE FALSE
    OBVIOUS
  <2>2. PICK k \in Bad : \A m \in Bad : k <= m
    BY <2>1, Least
  <2>3. k # 0
    <3>1. sum[0] = 0 /\ next[0] = 0
      BY <1>1, <1>6 DEF Sums
    <3>2. more(0) = 0
      BY <1>1
    <3> QED BY <3>1, <3>2
  <2>4. k - 1 \in Nat /\ ~(k <= k - 1) /\ k - 1 <= n /\ k <= n /\ k \in 1 .. n
    BY <1>1, <2>3
  <2>5. sum[k - 1] \in Nat /\ next[k - 1] = sum[k - 1] + more(k - 1)
    BY <2>2, <2>4
  <2>6. sum[k] = sum[k - 1] + p[names[k]] /\ next[k] = next[k - 1] + q[names[k]]
    <3>1. k \in 0 .. n
      BY <2>4
    <3> QED BY <1>6, <2>3, <3>1 DEF Sums
  <2>7. p[names[k]] \in Nat
    BY <1>1, <2>4
  <2>8. CASE k = at
    <3>1. more(k - 1) = 0 /\ more(k) = 1 /\ names[k] = d
      BY <1>1, <1>4, <2>8
    <3> HIDE DEF more
    <3>2. PICK a \in Nat, b \in Nat : a = sum[k - 1] /\ b = p[d]
      BY <1>5, <2>5
    <3>3. q[names[k]] = b + 1 /\ p[names[k]] = b
      BY <1>5, <3>1, <3>2
    <3>4. sum[k] = a + b /\ next[k] = (a + 0) + (b + 1)
      BY <2>5, <2>6, <3>1, <3>2, <3>3
    <3>5. sum[k] \in Nat /\ next[k] = sum[k] + 1
      BY <3>4
    <3>6. sum[k] \in Nat /\ next[k] = sum[k] + more(k)
      BY <3>1, <3>5, Zenon
    <3> QED BY <3>6
  <2>9. CASE k # at
    <3>1. more(k - 1) = more(k) /\ more(k) \in Nat
      BY <1>1, <2>4, <2>9
    <3>2. q[names[k]] = p[names[k]]
      BY <1>1, <1>2, <1>4, <1>5, <2>4, <2>9
    <3> HIDE DEF more
    <3>3. PICK a \in Nat, b \in Nat, c \in Nat : a = sum[k - 1] /\ b = p[names[k]] /\ c = more(k)
      BY <2>5, <2>7, <3>1
    <3>4. sum[k] = a + b /\ next[k] = (a + c) + b
      BY <2>5, <2>6, <3>1, <3>2, <3>3
    <3>5. sum[k] \in Nat /\ next[k] = sum[k] + c
      BY <3>4
    <3>6. sum[k] \in Nat /\ next[k] = sum[k] + more(k)
      BY <3>3, <3>5, Zenon
    <3> QED BY <3>6, Zenon
  <2> QED BY <2>8, <2>9, Zenon
<1>8. sum[n] \in Nat /\ next[n] = sum[n] + more(n)
  <2>1. n \in Nat /\ n <= n
    BY <1>1
  <2> HIDE DEF more
  <2> QED BY <1>7, <2>1
<1>9. more(n) = 1
  BY <1>1
<1> QED BY <1>3, <1>8, <1>9 DEF q, d

\* The sum is a number, and 0 at the start.
LEMMA SumStart ==
    ASSUME NEW names \in Seq(Datasets), NEW p \in [Datasets -> Nat]
    PROVE  /\ AllRead(names, p) \in Nat
           /\ (\A d \in Datasets : p[d] = 0) => AllRead(names, p) = 0
<1> DEFINE n == Len(names)
           sum == CHOOSE s : Sums(s, names, p, n)
           none == \A d \in Datasets : p[d] = 0
           Bad == {k \in Nat : k <= n /\ ~(sum[k] \in Nat /\ (none => sum[k] = 0))}
<1>1. n \in Nat /\ \A i \in 1 .. n : names[i] \in Datasets
  OBVIOUS
<1>2. AllRead(names, p) = sum[n]
  BY DEF AllRead
<1>3. Sums(sum, names, p, n)
  BY <1>1, SumExists
<1> HIDE DEF n, sum
<1>4. Bad = {}
  <2>1. SUFFICES ASSUME Bad # {} PROVE FALSE
    OBVIOUS
  <2>2. PICK k \in Bad : \A m \in Bad : k <= m
    BY <2>1, Least
  <2>3. k # 0
    <3>1. sum[0] = 0
      BY <1>1, <1>3 DEF Sums
    <3> QED BY <3>1
  <2>4. k - 1 \in Nat /\ ~(k <= k - 1) /\ k - 1 <= n /\ k <= n /\ k \in 1 .. n /\ k \in 0 .. n
    BY <1>1, <2>3
  <2>5. sum[k - 1] \in Nat /\ (none => sum[k - 1] = 0)
    BY <2>2, <2>4
  <2>6. sum[k] = sum[k - 1] + p[names[k]]
    BY <1>3, <2>3, <2>4 DEF Sums
  <2>7. p[names[k]] \in Nat /\ (none => p[names[k]] = 0)
    BY <1>1, <2>4
  <2> QED BY <2>5, <2>6, <2>7
<1> QED BY <1>1, <1>2, <1>4

-----------------------------------------------------------------------------
(* The stream of the names that were asked for, and the worker every example of it *)
(* belongs to.                                                                     *)

RankIn(names) == [d \in ToSet(names) |-> CHOOSE i \in 1 .. Len(names) : names[i] = d]
Size == [d \in Datasets |-> Len(Examples(d))]
InStream(names, m, t, p) == InTurn(RankIn(names), Size, m = "round_robin", t, p)

\* The position of the j-th example of d in the stream, and the worker that keeps it.
Earlier(names, m, d, j) == AllRead(names, ReadBefore(RankIn(names), Size, m = "round_robin", d, j))
Falls(n, i, w) == n = 0 \/ i % n = w
Owned(names, m, n, w, d, j) == Falls(n, Earlier(names, m, d, j), w)

\* The examples that a worker has kept when it has read p.
Due(names, m, n, w, p) ==
    {e \in AllExamples : \E d \in ToSet(names) : \E j \in 1 .. p[d] :
                             j <= Size[d] /\ e = Examples(d)[j] /\ Owned(names, m, n, w, d, j)}

WorkersOf(n) == IF n = 0 THEN {0} ELSE 0 .. n - 1

LEMMA RankSetting ==
    ASSUME NEW names \in Seq(Datasets), IsInjective(names)
    PROVE  /\ Setting(RankIn(names), Size)
           /\ DOMAIN RankIn(names) = ToSet(names)
           /\ \A i \in 1 .. Len(names) : RankIn(names)[names[i]] = i /\ names[i] \in ToSet(names)
<1>1. DOMAIN names = 1 .. Len(names) /\ Len(names) \in Nat /\ \A i \in 1 .. Len(names) : names[i] \in Datasets
  OBVIOUS
<1>2. \A i, j \in 1 .. Len(names) : names[i] = names[j] => i = j
  BY <1>1 DEF IsInjective
<1>3. \A d \in ToSet(names) : d \in Datasets /\ \E i \in 1 .. Len(names) : names[i] = d
  BY <1>1 DEF ToSet
<1>4. DOMAIN RankIn(names) = ToSet(names)
  BY DEF RankIn
<1>5. \A i \in 1 .. Len(names) : names[i] \in ToSet(names)
  BY <1>1 DEF ToSet
<1>6. \A i \in 1 .. Len(names) : RankIn(names)[names[i]] = i
  <2> TAKE i \in 1 .. Len(names)
  <2>1. RankIn(names)[names[i]] = CHOOSE k \in 1 .. Len(names) : names[k] = names[i]
    BY <1>5 DEF RankIn
  <2> QED BY <1>2, <2>1
<1>7. \A d \in Datasets : Size[d] \in Nat
  BY ExamplesOf DEF Size
<1>8. ToSet(names) \subseteq Datasets
  BY <1>3
<1>9. \A d \in ToSet(names) : RankIn(names)[d] \in Nat
  <2> TAKE d \in ToSet(names)
  <2>1. PICK i \in 1 .. Len(names) : names[i] = d
    BY <1>3
  <2> QED BY <1>6, <2>1
<1>10. \A a, b \in ToSet(names) : RankIn(names)[a] = RankIn(names)[b] => a = b
  <2> TAKE a, b \in ToSet(names)
  <2>1. PICK i \in 1 .. Len(names), k \in 1 .. Len(names) : names[i] = a /\ names[k] = b
    BY <1>3
  <2> QED BY <1>6, <2>1
<1> QED BY <1>4, <1>5, <1>6, <1>7, <1>8, <1>9, <1>10 DEF Setting

\* Every worker starts at the beginning of the stream.
LEMMA StreamStarts ==
    ASSUME NEW names \in Seq(Datasets), IsInjective(names), NEW m
    PROVE  /\ InStream(names, m, names, [d \in Datasets |-> 0])
           /\ AllRead(names, [d \in Datasets |-> 0]) = 0
<1> DEFINE p == [d \in Datasets |-> 0]
           rank == RankIn(names)
           rr == (m = "round_robin")
<1>1. /\ Setting(rank, Size) /\ DOMAIN rank = ToSet(names)
      /\ \A i \in 1 .. Len(names) : rank[names[i]] = i /\ names[i] \in ToSet(names)
  BY RankSetting
<1>2. p \in [Datasets -> Nat] /\ \A d \in Datasets : p[d] = 0
  OBVIOUS
<1>3. AllRead(names, p) = 0
  BY <1>2, SumStart
<1>4. names \in Seq(DOMAIN rank) /\ \A i \in 1 .. Len(names) : names[i] \in Datasets
  BY <1>1
<1> HIDE DEF p, rank, rr
<1>5. \A d \in Datasets : p[d] <= Size[d] /\ (d \notin DOMAIN rank => p[d] = 0)
  BY <1>1, <1>2 DEF Setting
<1>6. \A i, k \in 1 .. Len(names) : i < k => Ahead(rank, rr, p, names[i], names[k])
  BY <1>1, <1>2, <1>4 DEF Ahead
<1>7. \A i \in 1 .. Len(names) : Near(rank, rr, p, names[1], names[i])
  <2> TAKE i \in 1 .. Len(names)
  <2>1. p[names[i]] = 0 /\ p[names[1]] = 0
    BY <1>2, <1>4
  <2> QED BY <2>1 DEF Near
<1>8. \A d \in DOMAIN rank : \E i \in 1 .. Len(names) : names[i] = d
  BY <1>1 DEF ToSet
<1>9. InTurn(rank, Size, rr, names, p)
  BY <1>2, <1>4, <1>5, <1>6, <1>7, <1>8 DEF InTurn
<1> QED BY <1>3, <1>9 DEF InStream, p, rank, rr

\* What an iterator that is still active can be.
LEMMA StreamOf ==
    ASSUME NEW names \in Seq(Datasets), IsInjective(names), NEW m, NEW t, NEW p, InStream(names, m, t, p)
    PROVE  /\ t \in Seq(Datasets) /\ t \in Seq(ToSet(names)) /\ p \in [Datasets -> Nat]
           /\ \A d \in Datasets : p[d] <= Size[d] /\ Size[d] \in Nat
           /\ t # <<>> => t[1] \in ToSet(names) /\ t[1] \in Datasets /\ Head(t) = t[1]
           /\ \A d \in ToSet(names) : d \in Datasets /\ (d \in ToSet(t) \/ p[d] = Size[d])
<1>1. Setting(RankIn(names), Size) /\ DOMAIN RankIn(names) = ToSet(names)
  BY RankSetting
<1>2. /\ t \in Seq(ToSet(names)) /\ p \in [Datasets -> Nat]
      /\ \A d \in Datasets : p[d] <= Size[d]
      /\ \A d \in ToSet(names) : (\E i \in 1 .. Len(t) : t[i] = d) \/ p[d] = Size[d]
  BY <1>1 DEF InStream, InTurn
<1>3. ToSet(names) \subseteq Datasets /\ \A d \in Datasets : Size[d] \in Nat
  BY <1>1 DEF Setting
<1>4. t \in Seq(Datasets)
  BY <1>2, <1>3
<1>5. t # <<>> => t[1] \in ToSet(names) /\ Head(t) = t[1]
  BY <1>2
<1>6. \A d : (\E i \in 1 .. Len(t) : t[i] = d) => d \in ToSet(t)
  BY <1>2 DEF ToSet
<1> QED BY <1>2, <1>3, <1>4, <1>5, <1>6

\* One example further: what the worker reads next, what it has read then, and whose turn it is.
Coming(t, p) == Examples(t[1])[p[t[1]] + 1]
Advanced(t, p) == [p EXCEPT ![t[1]] = @ + 1]
Turned(m, t) == IF m = "round_robin" THEN Append(Tail(t), Head(t)) ELSE t

\* What a worker has read says which position of the stream comes next.
LEMMA StreamKnown ==
    ASSUME NEW names \in Seq(Datasets), IsInjective(names), NEW m, NEW t, NEW p,
           InStream(names, m, t, p), t # <<>>
    PROVE  Earlier(names, m, t[1], p[t[1]] + 1) = AllRead(names, p)
<1>1. \A rr \in BOOLEAN : InTurn(RankIn(names), Size, rr, t, p) =>
        p = ReadBefore(RankIn(names), Size, rr, t[1], p[t[1]] + 1)
  BY RankSetting, NextIsKnown
<1>2. InTurn(RankIn(names), Size, m = "round_robin", t, p) /\ (m = "round_robin") \in BOOLEAN
  BY DEF InStream
<1>3. p = ReadBefore(RankIn(names), Size, m = "round_robin", t[1], p[t[1]] + 1)
  BY <1>1, <1>2, Zenon
<1> QED BY <1>3, Zenon DEF Earlier

LEMMA StreamReads ==
    ASSUME NEW names \in Seq(Datasets), IsInjective(names), NEW m, NEW t, NEW p,
           InStream(names, m, t, p), t # <<>>, p[t[1]] < Size[t[1]]
    PROVE  /\ InStream(names, m, Turned(m, t), Advanced(t, p))
           /\ AllRead(names, Advanced(t, p)) = AllRead(names, p) + 1
           /\ AllRead(names, p) \in Nat
<1>1. Setting(RankIn(names), Size)
  BY RankSetting
<1>2. p \in [Datasets -> Nat] /\ t[1] \in ToSet(names) /\ Head(t) = t[1]
  BY StreamOf
<1>3. InTurn(RankIn(names), Size, m = "round_robin", t, p)
  BY DEF InStream
<1>6. InStream(names, m, Turned(m, t), Advanced(t, p))
  <2>1. CASE m = "round_robin"
    <3>1. (m = "round_robin") = TRUE
      BY <2>1
    <3>2. InTurn(RankIn(names), Size, TRUE, Append(Tail(t), t[1]), [p EXCEPT ![t[1]] = @ + 1])
      BY <1>1, <1>3, <3>1, TurnRotates
    <3> QED BY <1>2, <2>1, <3>1, <3>2, Zenon DEF InStream, Turned, Advanced
  <2>2. CASE m # "round_robin"
    <3>1. (m = "round_robin") = FALSE
      BY <2>2
    <3>2. InTurn(RankIn(names), Size, FALSE, t, [p EXCEPT ![t[1]] = @ + 1])
      BY <1>1, <1>3, <3>1, TurnStays
    <3> QED BY <2>2, <3>1, <3>2, Zenon DEF InStream, Turned, Advanced
  <2> QED BY <2>1, <2>2
<1>7. PICK at \in 1 .. Len(names) : names[at] = t[1]
  BY <1>2 DEF ToSet
<1>8. /\ AllRead(names, p) \in Nat
      /\ AllRead(names, [p EXCEPT ![names[at]] = @ + 1]) = AllRead(names, p) + 1
  BY <1>2, SumStep
<1> QED BY <1>6, <1>7, <1>8 DEF Advanced

LEMMA StreamEnds ==
    ASSUME NEW names \in Seq(Datasets), IsInjective(names), NEW m, NEW t, NEW p,
           InStream(names, m, t, p), t # <<>>, p[t[1]] = Size[t[1]]
    PROVE  InStream(names, m, Tail(t), p)
<1>1. Setting(RankIn(names), Size) /\ (m = "round_robin") \in BOOLEAN
  BY RankSetting
<1> QED BY <1>1, TurnExhausts DEF InStream

LEMMA ReadBeforeIsRead ==
    ASSUME NEW rank, NEW size, Setting(rank, size), NEW rr \in BOOLEAN, NEW d, NEW j \in Nat, j # 0
    PROVE  ReadBefore(rank, size, rr, d, j) \in [Datasets -> Nat]
<1> DEFINE value(a) == IF a \notin DOMAIN rank THEN 0
                       ELSE IF rr THEN AtMost(size[a], IF rank[a] < rank[d] THEN j ELSE j - 1)
                       ELSE IF rank[a] < rank[d] THEN size[a]
                       ELSE IF a = d THEN j - 1 ELSE 0
<1>1. j - 1 \in Nat
  OBVIOUS
<1>2. ASSUME NEW a \in Datasets PROVE value(a) \in Nat
  <2>1. size[a] \in Nat
    BY DEF Setting
  <2> QED BY <1>1, <2>1 DEF AtMost
<1>3. ReadBefore(rank, size, rr, d, j) = [a \in Datasets |-> value(a)]
  BY DEF ReadBefore
<1> HIDE DEF value
<1> QED BY <1>2, <1>3

LEMMA ExampleIsOne ==
    ASSUME NEW d \in Datasets, NEW j \in 1 .. Size[d]
    PROVE  /\ Examples(d)[j] \in AllExamples
           /\ \A c \in Datasets : \A k \in 1 .. Size[c] : Examples(c)[k] = Examples(d)[j] => c = d /\ k = j
<1>1. \A c \in Datasets : \A k \in 1 .. Size[c] : Examples(c)[k][1] = c
  BY ExamplesOf DEF Size
<1>2. \A k \in 1 .. Size[d] : Examples(d)[k] = Examples(d)[j] => k = j
  BY ExamplesOf DEF Size
<1>3. Examples(d)[j] \in AllExamples
  <2>1. DOMAIN Examples(d) = 1 .. Size[d]
    BY ExamplesOf DEF Size
  <2>2. Examples(d)[j] \in ToSet(Examples(d))
    BY <2>1 DEF ToSet
  <2> QED BY <2>2 DEF AllExamples
<1>4. ASSUME NEW c \in Datasets, NEW k \in 1 .. Size[c], Examples(c)[k] = Examples(d)[j] PROVE c = d /\ k = j
  <2>1. c = d
    BY <1>1, <1>4
  <2> QED BY <1>2, <1>4, <2>1
<1> QED BY <1>3, <1>4

LEMMA DueStart ==
    ASSUME NEW names \in Seq(Datasets), NEW m, NEW n, NEW w
    PROVE  Due(names, m, n, w, [d \in Datasets |-> 0]) = {}
<1>1. \A d \in ToSet(names) : d \in Datasets
  BY DEF ToSet
<1> QED BY <1>1 DEF Due

\* Reading on: the example is new, and due exactly if its position in the stream is the worker's.
LEMMA DueNext ==
    ASSUME NEW names \in Seq(Datasets), IsInjective(names), NEW m, NEW n, NEW t, NEW p,
           InStream(names, m, t, p), t # <<>>, p[t[1]] < Size[t[1]]
    PROVE  /\ Coming(t, p) \in AllExamples
           /\ \A v : Coming(t, p) \notin Due(names, m, n, v, p)
           /\ \A v : \A x \in AllExamples :
                 x \in Due(names, m, n, v, Advanced(t, p)) <=>
                   \/ x \in Due(names, m, n, v, p)
                   \/ x = Coming(t, p) /\ Falls(n, AllRead(names, p), v)
<1> DEFINE d == t[1]
           j == p[d] + 1
           e == Coming(t, p)
           q == Advanced(t, p)
<1>1. /\ d \in ToSet(names) /\ d \in Datasets /\ p \in [Datasets -> Nat] /\ p[d] \in Nat /\ Size[d] \in Nat
      /\ \A c \in ToSet(names) : c \in Datasets
  <2>1. d \in ToSet(names) /\ d \in Datasets /\ p \in [Datasets -> Nat]
    BY StreamOf
  <2>2. Size[d] \in Nat /\ \A c \in ToSet(names) : c \in Datasets
    BY <2>1, StreamOf
  <2> QED BY <2>1, <2>2
<1>2. j \in 1 .. Size[d] /\ ~(j <= p[d]) /\ j \in 1 .. j
  BY <1>1
<1>3. q[d] = j /\ \A c \in Datasets : c # d => q[c] = p[c]
  BY <1>1 DEF Advanced
<1>4. Earlier(names, m, d, j) = AllRead(names, p)
  BY StreamKnown
<1>5. \A v : Owned(names, m, n, v, d, j) <=> Falls(n, AllRead(names, p), v)
  BY <1>4, Zenon DEF Owned
<1>6. \A k \in 1 .. j : k = j \/ k \in 1 .. p[d]
  BY <1>1
<1>7. \A k \in 1 .. p[d] : k \in 1 .. j
  BY <1>1
<1>0. e = Examples(d)[j]
  BY DEF Coming
<1> HIDE DEF d, j, e, q
<1>8. /\ e \in AllExamples
      /\ \A c \in Datasets : \A k \in 1 .. Size[c] : Examples(c)[k] = e => c = d /\ k = j
  BY <1>0, <1>1, <1>2, ExampleIsOne
<1>9. ASSUME NEW v PROVE e \notin Due(names, m, n, v, p)
  <2>1. SUFFICES ASSUME NEW c \in ToSet(names), NEW k \in 1 .. p[c], k <= Size[c], e = Examples(c)[k] PROVE FALSE
    BY DEF Due
  <2>2. c \in Datasets /\ k \in 1 .. Size[c]
    BY <1>1, <2>1, StreamOf
  <2>3. c = d /\ k = j
    BY <1>8, <2>1, <2>2
  <2> QED BY <1>1, <1>2, <2>3
<1>10. ASSUME NEW v, NEW x \in AllExamples
       PROVE  x \in Due(names, m, n, v, q) <=>
                \/ x \in Due(names, m, n, v, p)
                \/ x = e /\ Falls(n, AllRead(names, p), v)
  <2>1. ASSUME NEW c \in ToSet(names), NEW k \in 1 .. q[c], k <= Size[c], x = Examples(c)[k], Owned(names, m, n, v, c, k)
        PROVE  x \in Due(names, m, n, v, p) \/ (x = e /\ Owned(names, m, n, v, d, j))
    <3>1. CASE c = d /\ k = j
      BY <1>0, <2>1, <3>1
    <3>2. CASE c = d /\ k # j
      BY <1>3, <1>6, <2>1, <3>2 DEF Due
    <3>3. CASE c # d
      BY <1>1, <1>3, <2>1, <3>3 DEF Due
    <3> QED BY <3>1, <3>2, <3>3
  <2>2. ASSUME x = e, Owned(names, m, n, v, d, j) PROVE x \in Due(names, m, n, v, q)
    <3>1. j \in 1 .. q[d] /\ j <= Size[d]
      BY <1>2, <1>3
    <3> QED BY <1>0, <1>1, <2>2, <3>1 DEF Due
  <2>3. ASSUME NEW c \in ToSet(names), NEW k \in 1 .. p[c], k <= Size[c], x = Examples(c)[k], Owned(names, m, n, v, c, k)
        PROVE  x \in Due(names, m, n, v, q)
    <3>1. k \in 1 .. q[c]
      BY <1>1, <1>3, <1>7
    <3> QED BY <2>3, <3>1 DEF Due
  <2>4. x \in Due(names, m, n, v, q) => x \in Due(names, m, n, v, p) \/ (x = e /\ Owned(names, m, n, v, d, j))
    BY <2>1 DEF Due
  <2>5. x \in Due(names, m, n, v, p) => x \in Due(names, m, n, v, q)
    BY <2>3 DEF Due
  <2> QED BY <1>5, <2>2, <2>4, <2>5, Zenon
<1> QED BY <1>8, <1>9, <1>10, Zenon DEF e, q

More(S, e) == S \cup {e}

LEMMA DueMore ==
    ASSUME NEW names \in Seq(Datasets), IsInjective(names), NEW m, NEW n, NEW t, NEW p,
           InStream(names, m, t, p), t # <<>>, p[t[1]] < Size[t[1]], NEW v
    PROVE  /\ Falls(n, AllRead(names, p), v) =>
                Due(names, m, n, v, Advanced(t, p)) = More(Due(names, m, n, v, p), Coming(t, p))
           /\ ~Falls(n, AllRead(names, p), v) =>
                Due(names, m, n, v, Advanced(t, p)) = Due(names, m, n, v, p)
<1> DEFINE old == Due(names, m, n, v, p)
           new == Due(names, m, n, v, Advanced(t, p))
           e == Coming(t, p)
<1>1. old \subseteq AllExamples /\ new \subseteq AllExamples
  BY DEF Due
<1>2. e \in AllExamples
  BY DueNext
<1>3. \A x \in AllExamples : x \in new <=> x \in old \/ (x = e /\ Falls(n, AllRead(names, p), v))
  BY DueNext
<1> HIDE DEF old, new, e
<1>4. Falls(n, AllRead(names, p), v) => new = More(old, e)
  BY <1>1, <1>2, <1>3 DEF More
<1>5. ~Falls(n, AllRead(names, p), v) => new = old
  BY <1>1, <1>3
<1> QED BY <1>4, <1>5 DEF old, new, e

\* No example is due to two workers.
LEMMA DueApart ==
    ASSUME NEW names \in Seq(Datasets), NEW m, NEW n \in Nat, NEW w \in WorkersOf(n), NEW v \in WorkersOf(n),
           NEW p, NEW q, NEW e, e \in Due(names, m, n, w, p), e \in Due(names, m, n, v, q)
    PROVE  v = w
<1>0. PICK c \in ToSet(names) : \E k \in 1 .. p[c] : k <= Size[c] /\ e = Examples(c)[k] /\ Owned(names, m, n, w, c, k)
  BY DEF Due
<1>1. PICK k \in 1 .. p[c] : k <= Size[c] /\ e = Examples(c)[k] /\ Owned(names, m, n, w, c, k)
  BY <1>0
<1>d. PICK d \in ToSet(names) : \E j \in 1 .. q[d] : j <= Size[d] /\ e = Examples(d)[j] /\ Owned(names, m, n, v, d, j)
  BY DEF Due
<1>2. PICK j \in 1 .. q[d] : j <= Size[d] /\ e = Examples(d)[j] /\ Owned(names, m, n, v, d, j)
  BY <1>d
<1>3. c \in Datasets /\ d \in Datasets
  BY DEF ToSet
<1>4. k \in 1 .. Size[c] /\ j \in 1 .. Size[d]
  BY <1>1, <1>2, <1>3, ExamplesOf DEF Size
<1>5. c = d /\ k = j
  <2>1. \A b \in Datasets : \A i \in 1 .. Size[b] : Examples(b)[i] = Examples(d)[j] => b = d /\ i = j
    BY <1>3, <1>4, ExampleIsOne
  <2> QED BY <1>1, <1>2, <1>3, <1>4, <2>1
<1>6. CASE n = 0
  BY <1>6 DEF WorkersOf
<1>7. CASE n # 0
  BY <1>1, <1>2, <1>5, <1>7 DEF Owned, Falls
<1> QED BY <1>6, <1>7

\* Every example is due to a worker.
LEMMA DueToOne ==
    ASSUME NEW names \in Seq(Datasets), IsInjective(names), NEW m, NEW n \in Nat,
           NEW d \in ToSet(names), NEW j \in 1 .. Size[d]
    PROVE  \E w \in WorkersOf(n) : \A p : j \in 1 .. p[d] => Examples(d)[j] \in Due(names, m, n, w, p)
<1> DEFINE before == ReadBefore(RankIn(names), Size, m = "round_robin", d, j)
<1>1. d \in Datasets
  BY DEF ToSet
<1>2. j \in Nat /\ j # 0 /\ j <= Size[d]
  BY <1>1, ExamplesOf DEF Size
<1>3. before \in [Datasets -> Nat]
  <2>1. Setting(RankIn(names), Size) /\ (m = "round_robin") \in BOOLEAN
    BY RankSetting
  <2>2. \A rr \in BOOLEAN : ReadBefore(RankIn(names), Size, rr, d, j) \in [Datasets -> Nat]
    BY <1>2, <2>1, ReadBeforeIsRead
  <2> QED BY <2>1, <2>2, Zenon
<1>4. Earlier(names, m, d, j) \in Nat
  <2>1. AllRead(names, before) \in Nat
    <3> HIDE DEF before
    <3> QED BY <1>3, SumStart
  <2> QED BY <2>1, Zenon DEF Earlier
<1>5. \E w \in WorkersOf(n) : Owned(names, m, n, w, d, j)
  <2>1. CASE n = 0
    BY <2>1 DEF WorkersOf, Owned, Falls
  <2>2. CASE n # 0
    <3>1. Earlier(names, m, d, j) % n \in 0 .. n - 1
      BY <1>4, <2>2
    <3> QED BY <2>2, <3>1 DEF WorkersOf, Owned, Falls
  <2> QED BY <2>1, <2>2
<1>6. Examples(d)[j] \in AllExamples
  BY <1>1, ExampleIsOne
<1> QED BY <1>2, <1>5, <1>6 DEF Due

-----------------------------------------------------------------------------
(* Where an example can be: in the batch b a worker collects, in the results r it *)
(* has sent, or with the training loop, which has got it got[e] times.            *)

Result == [kind : {"batch", "error", "end"}, examples : Seq(AllExamples)]

\* No example is in two places, and only what is due to the worker is in its hands.
Placed(b, r, got, due) ==
    /\ \A k, l \in 1 .. Len(b) : b[k] = b[l] => k = l
    /\ \A k \in 1 .. Len(b) : b[k] \in due /\ got[b[k]] = 0
    /\ \A i, j \in 1 .. Len(r) : \A k \in 1 .. Len(r[i].examples), l \in 1 .. Len(r[j].examples) :
          r[i].examples[k] = r[j].examples[l] => i = j /\ k = l
    /\ \A i \in 1 .. Len(r) : \A k \in 1 .. Len(r[i].examples) :
          /\ r[i].examples[k] \in due /\ got[r[i].examples[k]] = 0
          /\ \A l \in 1 .. Len(b) : r[i].examples[k] # b[l]

\* What was due and is nowhere.
Missing(b, r, got, due) ==
    {e \in due : /\ got[e] = 0
                 /\ \A k \in 1 .. Len(b) : b[k] # e
                 /\ \A i \in 1 .. Len(r) : \A k \in 1 .. Len(r[i].examples) : r[i].examples[k] # e}

\* The loop receives x.
Added(got, x) == [e \in AllExamples |-> got[e] + Cardinality({k \in DOMAIN x : x[k] = e})]

LEMMA AppendedSeq ==
    ASSUME NEW T, NEW s \in Seq(T), NEW x \in T
    PROVE  /\ Append(s, x) \in Seq(T) /\ Len(s) \in Nat /\ Len(Append(s, x)) = Len(s) + 1
           /\ Append(s, x)[Len(s) + 1] = x
           /\ \A k \in 1 .. Len(s) : Append(s, x)[k] = s[k]
           /\ \A k \in 1 .. (Len(s) + 1) : k = Len(s) + 1 \/ k \in 1 .. Len(s)
OBVIOUS

LEMMA PlacedRead ==
    ASSUME NEW b \in Seq(AllExamples), NEW r, NEW got, NEW due, NEW e \in AllExamples,
           Placed(b, r, got, due), e \notin due, got[e] = 0
    PROVE  Placed(Append(b, e), r, got, due \cup {e})
<1> DEFINE c == Append(b, e)
           n == Len(b)
<1>1. /\ n \in Nat /\ Len(c) = n + 1 /\ c[n + 1] = e /\ \A k \in 1 .. n : c[k] = b[k]
      /\ \A k \in 1 .. (n + 1) : k = n + 1 \/ k \in 1 .. n
  BY AppendedSeq
<1>2. /\ \A k, l \in 1 .. n : b[k] = b[l] => k = l
      /\ \A k \in 1 .. n : b[k] \in due /\ got[b[k]] = 0
  BY DEF Placed
<1>3. \A i \in 1 .. Len(r) : \A k \in 1 .. Len(r[i].examples) :
        /\ r[i].examples[k] \in due /\ got[r[i].examples[k]] = 0
        /\ \A l \in 1 .. n : r[i].examples[k] # b[l]
  BY DEF Placed
<1> HIDE DEF c, n
<1>4. \A k, l \in 1 .. Len(c) : c[k] = c[l] => k = l
  BY <1>1, <1>2
<1>5. \A k \in 1 .. Len(c) : c[k] \in due \cup {e} /\ got[c[k]] = 0
  BY <1>1, <1>2
<1>6. \A i \in 1 .. Len(r) : \A k \in 1 .. Len(r[i].examples) :
        /\ r[i].examples[k] \in due \cup {e} /\ got[r[i].examples[k]] = 0
        /\ \A l \in 1 .. Len(c) : r[i].examples[k] # c[l]
  <2> SUFFICES ASSUME NEW i \in 1 .. Len(r), NEW k \in 1 .. Len(r[i].examples)
               PROVE  /\ r[i].examples[k] \in due \cup {e} /\ got[r[i].examples[k]] = 0
                      /\ \A l \in 1 .. Len(c) : r[i].examples[k] # c[l]
    OBVIOUS
  <2>1. /\ r[i].examples[k] \in due /\ got[r[i].examples[k]] = 0
        /\ \A l \in 1 .. n : r[i].examples[k] # b[l]
    BY <1>3
  <2> QED BY <1>1, <2>1
<1>7. Placed(c, r, got, due \cup {e})
  BY <1>4, <1>5, <1>6 DEF Placed
<1> QED BY <1>7 DEF c

\* The batch is sent, or nothing is sent with the signal.
LEMMA PlacedSent ==
    ASSUME NEW b \in Seq(AllExamples), NEW r \in Seq(Result), NEW got, NEW due, NEW x \in Result,
           Placed(b, r, got, due), x.examples = b \/ x.examples = <<>>
    PROVE  Placed(<<>>, Append(r, x), got, due)
<1> DEFINE s == Append(r, x)
           n == Len(r)
<1>1. /\ n \in Nat /\ Len(s) = n + 1 /\ s[n + 1] = x /\ \A k \in 1 .. n : s[k] = r[k]
      /\ \A k \in 1 .. (n + 1) : k = n + 1 \/ k \in 1 .. n
  BY AppendedSeq
<1>2. \A i, j \in 1 .. n : \A k \in 1 .. Len(r[i].examples), l \in 1 .. Len(r[j].examples) :
        r[i].examples[k] = r[j].examples[l] => i = j /\ k = l
  BY DEF Placed
<1>3. \A i \in 1 .. n : \A k \in 1 .. Len(r[i].examples) :
        /\ r[i].examples[k] \in due /\ got[r[i].examples[k]] = 0
        /\ \A l \in 1 .. Len(b) : r[i].examples[k] # b[l]
  BY DEF Placed
<1>4. /\ \A k, l \in 1 .. Len(x.examples) : x.examples[k] = x.examples[l] => k = l
      /\ \A k \in 1 .. Len(x.examples) : x.examples[k] \in due /\ got[x.examples[k]] = 0
      /\ \A k \in 1 .. Len(x.examples) : k \in 1 .. Len(b) /\ x.examples[k] = b[k]
  <2>1. CASE x.examples = b
    BY <2>1 DEF Placed
  <2>2. CASE x.examples = <<>>
    <3>1. 1 .. Len(x.examples) = {}
      BY <2>2
    <3> QED BY <3>1
  <2> QED BY <2>1, <2>2
<1> HIDE DEF s, n
<1>5. ASSUME NEW i \in 1 .. Len(s), NEW j \in 1 .. Len(s),
             NEW k \in 1 .. Len(s[i].examples), NEW l \in 1 .. Len(s[j].examples),
             s[i].examples[k] = s[j].examples[l]
      PROVE  i = j /\ k = l
  <2>1. CASE i = n + 1 /\ j = n + 1
    BY <1>1, <1>4, <1>5, <2>1
  <2>2. CASE i = n + 1 /\ j \in 1 .. n
    BY <1>1, <1>3, <1>4, <1>5, <2>2
  <2>3. CASE i \in 1 .. n /\ j = n + 1
    BY <1>1, <1>3, <1>4, <1>5, <2>3
  <2>4. CASE i \in 1 .. n /\ j \in 1 .. n
    <3>1. s[i] = r[i] /\ s[j] = r[j]
      BY <1>1, <2>4
    <3> QED BY <1>2, <1>5, <2>4, <3>1
  <2> QED BY <1>1, <2>1, <2>2, <2>3, <2>4
<1>6. \A i \in 1 .. Len(s) : \A k \in 1 .. Len(s[i].examples) :
        s[i].examples[k] \in due /\ got[s[i].examples[k]] = 0
  BY <1>1, <1>3, <1>4
<1>7. 1 .. Len(<<>>) = {}
  OBVIOUS
<1>8. Placed(<<>>, s, got, due)
  BY <1>5, <1>6, <1>7 DEF Placed
<1> QED BY <1>8 DEF s

LEMMA CountOne ==
    ASSUME NEW x \in Seq(AllExamples), \A k, l \in 1 .. Len(x) : x[k] = x[l] => k = l, NEW e
    PROVE  Cardinality({k \in DOMAIN x : x[k] = e}) = IF \E k \in 1 .. Len(x) : x[k] = e THEN 1 ELSE 0
<1>1. DOMAIN x = 1 .. Len(x)
  OBVIOUS
<1>2. CASE \E k \in 1 .. Len(x) : x[k] = e
  <2>1. PICK k \in 1 .. Len(x) : x[k] = e
    BY <1>2
  <2>2. {l \in DOMAIN x : x[l] = e} = {k}
    BY <1>1, <2>1
  <2> QED BY <1>2, <2>2, FS_Singleton
<1>3. CASE ~ \E k \in 1 .. Len(x) : x[k] = e
  <2>1. {l \in DOMAIN x : x[l] = e} = {}
    BY <1>1, <1>3
  <2> QED BY <1>3, <2>1, FS_EmptySet
<1> QED BY <1>2, <1>3

LEMMA AddedOnce ==
    ASSUME NEW got \in [AllExamples -> Nat], NEW x \in Seq(AllExamples),
           \A k, l \in 1 .. Len(x) : x[k] = x[l] => k = l
    PROVE  /\ Added(got, x) \in [AllExamples -> Nat]
           /\ \A k \in 1 .. Len(x) : Added(got, x)[x[k]] = got[x[k]] + 1
           /\ \A e \in AllExamples : (\A k \in 1 .. Len(x) : x[k] # e) => Added(got, x)[e] = got[e]
           /\ \A e \in AllExamples : Added(got, x)[e] = 0 => got[e] = 0
<1> DEFINE count(e) == Cardinality({k \in DOMAIN x : x[k] = e})
<1>1. \A e : count(e) = IF \E k \in 1 .. Len(x) : x[k] = e THEN 1 ELSE 0
  BY CountOne
<1>2. \A e \in AllExamples : Added(got, x)[e] = got[e] + count(e)
  BY DEF Added
<1>3. Added(got, x) = [e \in AllExamples |-> got[e] + count(e)]
  BY DEF Added
<1>4. \A k \in 1 .. Len(x) : x[k] \in AllExamples
  OBVIOUS
<1> HIDE DEF count
<1>5. \A e \in AllExamples : got[e] + count(e) \in Nat
  BY <1>1
<1>6. Added(got, x) \in [AllExamples -> Nat]
  BY <1>3, <1>5
<1> HIDE DEF Added
<1>7. \A k \in 1 .. Len(x) : Added(got, x)[x[k]] = got[x[k]] + 1
  <2> TAKE k \in 1 .. Len(x)
  <2>1. count(x[k]) = 1
    BY <1>1
  <2> QED BY <1>2, <1>4, <2>1
<1>8. ASSUME NEW e \in AllExamples, \A k \in 1 .. Len(x) : x[k] # e PROVE Added(got, x)[e] = got[e]
  <2>1. count(e) = 0
    BY <1>1, <1>8
  <2> QED BY <1>2, <2>1
<1>9. ASSUME NEW e \in AllExamples, Added(got, x)[e] = 0 PROVE got[e] = 0
  <2>1. count(e) \in Nat /\ got[e] \in Nat /\ got[e] + count(e) = 0
    BY <1>1, <1>2, <1>9
  <2> QED BY <2>1
<1> QED BY <1>6, <1>7, <1>8, <1>9

\* The loop receives the first result of the worker.
LEMMA PlacedReceived ==
    ASSUME NEW b \in Seq(AllExamples), NEW r \in Seq(Result), r # <<>>, NEW got \in [AllExamples -> Nat], NEW due,
           Placed(b, r, got, due)
    PROVE  /\ \A k, l \in 1 .. Len(r[1].examples) : r[1].examples[k] = r[1].examples[l] => k = l
           /\ \A k \in 1 .. Len(r[1].examples) : r[1].examples[k] \in due /\ got[r[1].examples[k]] = 0
           /\ Placed(b, Tail(r), Added(got, r[1].examples), due)
<1> DEFINE s == Tail(r)
           x == r[1].examples
           new == Added(got, x)
           n == Len(r)
<1>1. /\ n \in Nat /\ n # 0 /\ 1 \in 1 .. n /\ Len(s) = n - 1
      /\ \A i \in 1 .. Len(s) : s[i] = r[i + 1] /\ i + 1 \in 1 .. n /\ i + 1 # 1
      /\ \A i \in 1 .. n : r[i] \in Result
  OBVIOUS
<1>2. /\ \A k, l \in 1 .. Len(b) : b[k] = b[l] => k = l
      /\ \A k \in 1 .. Len(b) : b[k] \in due /\ got[b[k]] = 0 /\ b[k] \in AllExamples
  BY DEF Placed
<1>3. \A i, j \in 1 .. n : \A k \in 1 .. Len(r[i].examples), l \in 1 .. Len(r[j].examples) :
        r[i].examples[k] = r[j].examples[l] => i = j /\ k = l
  BY DEF Placed
<1>4. \A i \in 1 .. n : \A k \in 1 .. Len(r[i].examples) :
        /\ r[i].examples[k] \in due /\ got[r[i].examples[k]] = 0
        /\ \A l \in 1 .. Len(b) : r[i].examples[k] # b[l]
  BY DEF Placed
<1>5. \A i \in 1 .. n : \A k \in 1 .. Len(r[i].examples) : r[i].examples[k] \in AllExamples
  <2> TAKE i \in 1 .. n
  <2>1. r[i].examples \in Seq(AllExamples)
    BY <1>1 DEF Result
  <2> QED BY <2>1
<1>6. x \in Seq(AllExamples)
  BY <1>1 DEF Result
<1>7. /\ \A k, l \in 1 .. Len(x) : x[k] = x[l] => k = l
      /\ \A k \in 1 .. Len(x) : x[k] \in due /\ got[x[k]] = 0 /\ \A l \in 1 .. Len(b) : x[k] # b[l]
      /\ \A i \in 1 .. n : \A k \in 1 .. Len(r[i].examples), l \in 1 .. Len(x) : r[i].examples[k] = x[l] => i = 1
  BY <1>1, <1>3, <1>4
<1> HIDE DEF s, x, n
<1>8. \A e \in AllExamples : (\A k \in 1 .. Len(x) : x[k] # e) => new[e] = got[e]
  BY <1>6, <1>7, AddedOnce
<1> HIDE DEF new
<1>9. \A k \in 1 .. Len(b) : new[b[k]] = 0
  BY <1>2, <1>7, <1>8
<1>10. \A i \in 1 .. n : i # 1 => \A k \in 1 .. Len(r[i].examples) : new[r[i].examples[k]] = 0
  <2> SUFFICES ASSUME NEW i \in 1 .. n, i # 1, NEW k \in 1 .. Len(r[i].examples)
               PROVE  new[r[i].examples[k]] = 0
    OBVIOUS
  <2>1. PICK e \in AllExamples : e = r[i].examples[k]
    BY <1>5
  <2>2. \A l \in 1 .. Len(x) : x[l] # e
    BY <1>7, <2>1
  <2>3. got[e] = 0
    BY <1>4, <2>1
  <2> QED BY <1>8, <2>1, <2>2, <2>3
<1>11. ASSUME NEW i \in 1 .. Len(s), NEW j \in 1 .. Len(s),
              NEW k \in 1 .. Len(s[i].examples), NEW l \in 1 .. Len(s[j].examples),
              s[i].examples[k] = s[j].examples[l]
       PROVE  i = j /\ k = l
  <2>1. s[i] = r[i + 1] /\ s[j] = r[j + 1] /\ i + 1 \in 1 .. n /\ j + 1 \in 1 .. n
    BY <1>1
  <2>2. i + 1 = j + 1 /\ k = l
    BY <1>3, <1>11, <2>1
  <2> QED BY <2>2
<1>12. \A i \in 1 .. Len(s) : \A k \in 1 .. Len(s[i].examples) :
         /\ s[i].examples[k] \in due /\ new[s[i].examples[k]] = 0
         /\ \A l \in 1 .. Len(b) : s[i].examples[k] # b[l]
  <2> TAKE i \in 1 .. Len(s)
  <2>1. s[i] = r[i + 1] /\ i + 1 \in 1 .. n /\ i + 1 # 1
    BY <1>1
  <2> QED BY <1>4, <1>10, <2>1
<1>13. Placed(b, s, new, due)
  BY <1>2, <1>9, <1>11, <1>12 DEF Placed
<1> QED BY <1>7, <1>13 DEF s, x, new

\* The loop receives what is not due to this worker.
LEMMA PlacedElsewhere ==
    ASSUME NEW b \in Seq(AllExamples), NEW r \in Seq(Result), NEW got, NEW new, NEW due \in SUBSET AllExamples,
           \A e \in due : new[e] = got[e], Placed(b, r, got, due)
    PROVE  Placed(b, r, new, due)
<1>1. \A k \in 1 .. Len(b) : b[k] \in due /\ new[b[k]] = 0
  BY DEF Placed
<1>2. \A i \in 1 .. Len(r) : \A k \in 1 .. Len(r[i].examples) :
        r[i].examples[k] \in due /\ new[r[i].examples[k]] = 0
  <2> SUFFICES ASSUME NEW i \in 1 .. Len(r), NEW k \in 1 .. Len(r[i].examples)
               PROVE  r[i].examples[k] \in due /\ new[r[i].examples[k]] = 0
    OBVIOUS
  <2>1. r[i].examples[k] \in due /\ got[r[i].examples[k]] = 0
    BY Zenon DEF Placed
  <2> QED BY <2>1
<1>3. /\ \A k, l \in 1 .. Len(b) : b[k] = b[l] => k = l
      /\ \A i, j \in 1 .. Len(r) : \A k \in 1 .. Len(r[i].examples), l \in 1 .. Len(r[j].examples) :
            r[i].examples[k] = r[j].examples[l] => i = j /\ k = l
      /\ \A i \in 1 .. Len(r) : \A k \in 1 .. Len(r[i].examples) : \A l \in 1 .. Len(b) : r[i].examples[k] # b[l]
  BY ZenonT(60) DEF Placed
<1> QED BY <1>1, <1>2, <1>3, ZenonT(60) DEF Placed

\* At most max of the examples that were due are nowhere.
Kept(b, r, got, due, max) ==
    \E lost \in Seq(AllExamples) :
        /\ Len(lost) <= max
        /\ \A e \in Missing(b, r, got, due) : \E k \in 1 .. Len(lost) : lost[k] = e

LEMMA KeptStill ==
    ASSUME NEW b, NEW r, NEW got, NEW due, NEW max \in Nat, Kept(b, r, got, due, max),
           NEW b2, NEW r2, NEW got2, NEW due2, NEW max2 \in Nat, max <= max2,
           Missing(b2, r2, got2, due2) \subseteq Missing(b, r, got, due)
    PROVE  Kept(b2, r2, got2, due2, max2)
<1>1. PICK lost \in Seq(AllExamples) :
        /\ Len(lost) <= max
        /\ \A e \in Missing(b, r, got, due) : \E k \in 1 .. Len(lost) : lost[k] = e
  BY DEF Kept
<1>2. Len(lost) \in Nat
  OBVIOUS
<1>3. Len(lost) <= max2
  BY <1>1, <1>2
<1> QED BY <1>1, <1>3 DEF Kept

\* Nothing is missing when at most 0 examples are.
LEMMA KeptAll ==
    ASSUME NEW b, NEW r, NEW got, NEW due, Kept(b, r, got, due, 0)
    PROVE  Missing(b, r, got, due) = {}
<1>1. PICK lost \in Seq(AllExamples) :
        /\ Len(lost) <= 0
        /\ \A e \in Missing(b, r, got, due) : \E k \in 1 .. Len(lost) : lost[k] = e
  BY DEF Kept
<1>2. 1 .. Len(lost) = {}
  BY <1>1
<1> QED BY <1>1, <1>2

LEMMA MissingRead ==
    ASSUME NEW b \in Seq(AllExamples), NEW r, NEW got, NEW due, NEW e \in AllExamples
    PROVE  Missing(Append(b, e), r, got, due \cup {e}) \subseteq Missing(b, r, got, due)
<1>1. /\ Len(b) \in Nat /\ Len(Append(b, e)) = Len(b) + 1
      /\ Append(b, e)[Len(b) + 1] = e /\ \A k \in 1 .. Len(b) : Append(b, e)[k] = b[k]
  BY AppendedSeq
<1>2. Len(b) + 1 \in 1 .. Len(Append(b, e)) /\ \A k \in 1 .. Len(b) : k \in 1 .. Len(Append(b, e))
  BY <1>1
<1> QED BY <1>1, <1>2 DEF Missing

LEMMA MissingSent ==
    ASSUME NEW b \in Seq(AllExamples), NEW r \in Seq(Result), NEW got, NEW due, NEW x \in Result
    PROVE  /\ x.examples = b \/ b = <<>> =>
                Missing(<<>>, Append(r, x), got, due) \subseteq Missing(b, r, got, due)
           /\ \A e \in Missing(<<>>, Append(r, x), got, due) :
                e \in Missing(b, r, got, due) \/ \E k \in 1 .. Len(b) : b[k] = e
<1> DEFINE s == Append(r, x)
<1>1. /\ Len(r) \in Nat /\ Len(s) = Len(r) + 1 /\ s[Len(r) + 1] = x
      /\ \A k \in 1 .. Len(r) : s[k] = r[k]
  BY AppendedSeq
<1> HIDE DEF s
<1>2. Len(r) + 1 \in 1 .. Len(s) /\ \A k \in 1 .. Len(r) : k \in 1 .. Len(s)
  BY <1>1
<1>3. \A e \in Missing(<<>>, s, got, due) :
        /\ e \in due /\ got[e] = 0
        /\ \A i \in 1 .. Len(r) : \A k \in 1 .. Len(r[i].examples) : r[i].examples[k] # e
        /\ \A k \in 1 .. Len(x.examples) : x.examples[k] # e
  BY <1>1, <1>2 DEF Missing
<1>4. \A e \in Missing(<<>>, s, got, due) :
        e \in Missing(b, r, got, due) \/ \E k \in 1 .. Len(b) : b[k] = e
  BY <1>3 DEF Missing
<1>5. ASSUME x.examples = b \/ b = <<>> PROVE Missing(<<>>, s, got, due) \subseteq Missing(b, r, got, due)
  <2>1. CASE x.examples = b
    BY <1>3, <1>4, <2>1
  <2>2. CASE b = <<>>
    <3>1. 1 .. Len(b) = {}
      BY <2>2
    <3> QED BY <1>4, <3>1
  <2> QED BY <1>5, <2>1, <2>2
<1> QED BY <1>4, <1>5 DEF s

LEMMA MissingReceived ==
    ASSUME NEW b \in Seq(AllExamples), NEW r \in Seq(Result), r # <<>>, NEW got \in [AllExamples -> Nat],
           NEW due \in SUBSET AllExamples, Placed(b, r, got, due)
    PROVE  Missing(b, Tail(r), Added(got, r[1].examples), due) \subseteq Missing(b, r, got, due)
<1> DEFINE x == r[1].examples
           s == Tail(r)
           new == Added(got, x)
<1>1. x \in Seq(AllExamples) /\ \A k \in 1 .. Len(x) : x[k] \in AllExamples
  <2>1. r[1] \in Result
    OBVIOUS
  <2>2. x \in Seq(AllExamples)
    BY <2>1 DEF Result
  <2> HIDE DEF x
  <2> QED BY <2>2
<1>2. \A k, l \in 1 .. Len(x) : x[k] = x[l] => k = l
  BY PlacedReceived
<1>3. \A i \in 1 .. Len(r) : i # 1 => i - 1 \in 1 .. Len(s) /\ s[i - 1] = r[i]
  OBVIOUS
<1> HIDE DEF x, s
<1>4. \A k \in 1 .. Len(x) : got[x[k]] \in Nat /\ new[x[k]] = got[x[k]] + 1
  <2>1. \A k \in 1 .. Len(x) : new[x[k]] = got[x[k]] + 1
    BY <1>1, <1>2, AddedOnce
  <2> HIDE DEF new
  <2> QED BY <1>1, <2>1
<1>5. \A e \in AllExamples : new[e] = 0 => got[e] = 0
  BY <1>1, <1>2, AddedOnce
<1> HIDE DEF new
<1>6. ASSUME NEW e \in Missing(b, s, new, due) PROVE e \in Missing(b, r, got, due)
  <2>1. /\ e \in due /\ new[e] = 0 /\ \A k \in 1 .. Len(b) : b[k] # e
        /\ \A i \in 1 .. Len(s) : \A k \in 1 .. Len(s[i].examples) : s[i].examples[k] # e
    BY <1>6 DEF Missing
  <2>2. got[e] = 0
    BY <1>5, <2>1
  <2>3. \A k \in 1 .. Len(x) : x[k] # e
    BY <1>4, <2>1
  <2>4. \A i \in 1 .. Len(r) : \A k \in 1 .. Len(r[i].examples) : r[i].examples[k] # e
    <3> TAKE i \in 1 .. Len(r)
    <3>1. CASE i = 1
      BY <2>3, <3>1 DEF x
    <3>2. CASE i # 1
      <4>1. PICK j \in 1 .. Len(s) : s[j] = r[i]
        BY <1>3, <3>2
      <4> QED BY <2>1, <4>1
    <3> QED BY <3>1, <3>2
  <2> QED BY <2>1, <2>2, <2>4 DEF Missing
<1> QED BY <1>6 DEF x, s, new

LEMMA MissingElsewhere ==
    ASSUME NEW b, NEW r, NEW got, NEW new, NEW due \in SUBSET AllExamples,
           \A e \in AllExamples : new[e] = 0 => got[e] = 0
    PROVE  Missing(b, r, new, due) \subseteq Missing(b, r, got, due)
BY DEF Missing

-----------------------------------------------------------------------------
(* The invariant.                                                              *)

Arguments ==
    /\ request \in Requests /\ mode \in {"round_robin", "concat"}
    /\ numWorkers \in Nat /\ batchSize \in Nat \ {0}
    /\ dropLast \in BOOLEAN /\ loadTargets \in BOOLEAN

Types ==
    /\ turn \in [Workers -> Seq(Datasets)]
    /\ pos \in [Workers -> [Datasets -> Nat]]
    /\ idx \in [Workers -> Nat]
    /\ batch \in [Workers -> Seq(AllExamples)]
    /\ results \in [Workers -> Seq(Result)]
    /\ working \in [Workers -> BOOLEAN]
    /\ delivered \in [AllExamples -> Nat]
    /\ main \in {"loop", "done", "raised"}

\* Every worker is somewhere in the same stream, and its counter says where.
OrderInv ==
    \A w \in Workers : InStream(Names, mode, turn[w], pos[w]) /\ idx[w] = AllRead(Names, pos[w])

\* What was read, and what was exhausted, could be read.
WasReadable(names, sp, un, t, p) ==
    \A d \in ToSet(names) :
        /\ \A k \in 1 .. p[d] : <<d, k>> \notin un
        /\ (p[d] > 0 \/ d \notin ToSet(t)) => ~(d \in TrainOnly /\ sp # "train")
        /\ d \notin ToSet(t) => <<d, Size[d] + 1>> \notin un
ReadInv == \A w \in Workers : WasReadable(Names, split, unreadable, turn[w], pos[w])

PlaceInv ==
    \A w \in Workers : Placed(batch[w], results[w], delivered, Due(Names, mode, numWorkers, w, pos[w]))

GotInv ==
    \A e \in AllExamples :
        /\ delivered[e] <= 1
        /\ delivered[e] # 0 => \E w \in Workers : e \in Due(Names, mode, numWorkers, w, pos[w])

NoError(m, r) == m # "raised" /\ \A i \in 1 .. Len(r) : r[i].kind # "error"
Limit(drop, works, size) == IF drop /\ ~works THEN size - 1 ELSE 0

KeptInv ==
    \A w \in Workers : NoError(main, results[w]) =>
        Kept(batch[w], results[w], delivered, Due(Names, mode, numWorkers, w, pos[w]),
             Limit(dropLast, working[w], batchSize))

EndInv ==
    \A w \in Workers : ~working[w] =>
        batch[w] = <<>> /\ (NoError(main, results[w]) => turn[w] = <<>>)

\* Something is wrong with the data, or with the targets.
Trouble ==
    \/ Faulty # {}
    \/ loadTargets /\ \E e, f \in Requested : Targets[e] = NoTargets \/ Targets[e] # Targets[f]

\* An error means that there is trouble, and what is sent has the targets.
Honest(r) ==
    \A i \in 1 .. Len(r) :
        /\ r[i].kind = "error" => Trouble
        /\ loadTargets => \A k \in 1 .. Len(r[i].examples) : Targets[r[i].examples[k]] # NoTargets

TroubleInv ==
    /\ main = "raised" => Trouble
    /\ \A w \in Workers : Honest(results[w])
    /\ loadTargets => \A e \in AllExamples : delivered[e] # 0 => Targets[e] # NoTargets

DoneInv == main = "done" => \A w \in Workers : ~working[w] /\ results[w] = <<>>

\* (ReadInv, EndInv and TroubleInv for the errors; OrderInv, PlaceInv, GotInv and KeptInv for
\* the examples.)
LoaderInv ==
    /\ Arguments /\ Types
    /\ OrderInv /\ ReadInv
    /\ PlaceInv /\ GotInv /\ KeptInv
    /\ EndInv /\ TroubleInv /\ DoneInv

LEMMA ArgumentsFixed ==
    ASSUME UNCHANGED arguments
    PROVE  /\ Arguments <=> Arguments'
           /\ Names' = Names /\ Workers' = Workers /\ (Trouble' <=> Trouble)
           /\ request' = request /\ mode' = mode /\ numWorkers' = numWorkers /\ batchSize' = batchSize
           /\ dropLast' = dropLast /\ loadTargets' = loadTargets
           /\ split' = split /\ unreadable' = unreadable
<1>1. /\ request' = request /\ mode' = mode /\ numWorkers' = numWorkers /\ batchSize' = batchSize
      /\ dropLast' = dropLast /\ loadTargets' = loadTargets
      /\ split' = split /\ unreadable' = unreadable
  BY DEF arguments
<1>2. Names' = Names
  BY <1>1, NamesFixed
<1>3. Workers' = Workers
  BY <1>1 DEF Workers
<1>4. Faulty' = Faulty
  BY <1>1, <1>2, Zenon DEF Faulty
<1>5. Requested' = Requested
  BY <1>2, Zenon DEF Requested
<1>6. Trouble' <=> Trouble
  BY <1>1, <1>4, <1>5 DEF Trouble
<1> QED BY <1>1, <1>2, <1>3, <1>6 DEF Arguments

\* The workers are numbered, and the names are distinct.
LEMMA WorkersAre ==
    ASSUME Arguments
    PROVE  /\ Workers = WorkersOf(numWorkers) /\ numWorkers \in Nat
           /\ Names \in Seq(Datasets) /\ IsInjective(Names)
BY NamesAre DEF Arguments, Workers, WorkersOf

LEMMA TakeDoes ==
    ASSUME Arguments, Types, OrderInv, NEW w \in Workers, Take(w)
    PROVE  LET t == turn[w]
               p == pos[w]
               e == Coming(t, p)
           IN  /\ t # <<>> /\ p[t[1]] < Size[t[1]] /\ e \in AllExamples
               /\ ~(t[1] \in TrainOnly /\ split # "train") /\ <<t[1], p[t[1]] + 1>> \notin unreadable
               /\ turn' = [turn EXCEPT ![w] = Turned(mode, t)]
               /\ pos' = [pos EXCEPT ![w] = Advanced(t, p)]
               /\ idx' = [idx EXCEPT ![w] = idx[w] + 1]
               /\ batch' = [batch EXCEPT ![w] = IF Falls(numWorkers, idx[w], w)
                                                THEN Append(batch[w], e) ELSE batch[w]]
               /\ main = "loop" /\ working[w] = TRUE
               /\ UNCHANGED <<arguments, results, working, delivered, main>>
<1> DEFINE t == turn[w]
           p == pos[w]
           d == t[1]
           e == Coming(t, p)
<1>1. Names \in Seq(Datasets) /\ IsInjective(Names) /\ InStream(Names, mode, t, p)
  BY WorkersAre DEF OrderInv
<1>2. t # <<>> /\ main = "loop" /\ working[w] = TRUE
  BY DEF Take, Reading, Types
<1>3. Head(t) = d /\ d \in Datasets /\ p \in [Datasets -> Nat] /\ Size[d] \in Nat
  <2>1. d \in Datasets /\ Head(t) = d /\ p \in [Datasets -> Nat]
    BY <1>1, <1>2, StreamOf
  <2> QED BY <2>1, ExamplesOf DEF Size
<1>4. Size[d] = Len(Examples(d))
  BY <1>3 DEF Size
<1>5. p[d] < Size[d] /\ ~(d \in TrainOnly /\ split # "train") /\ <<d, p[d] + 1>> \notin unreadable
  BY <1>3, <1>4 DEF Take, Raises
<1>6. e \in AllExamples
  <2>1. p[d] + 1 \in 1 .. Size[d]
    BY <1>3, <1>5
  <2> QED BY <1>3, <2>1, ExampleIsOne DEF Coming
<1>7. turn' = [turn EXCEPT ![w] = Turned(mode, t)]
  BY DEF Take, Rotate, Turned
<1>8. pos' = [pos EXCEPT ![w] = Advanced(t, p)]
  BY <1>3 DEF Take, Advanced
<1>9. idx' = [idx EXCEPT ![w] = idx[w] + 1]
  BY DEF Take, Count
<1>10. batch' = [batch EXCEPT ![w] = IF Falls(numWorkers, idx[w], w)
                                     THEN Append(batch[w], e) ELSE batch[w]]
  <2>1. batch = [batch EXCEPT ![w] = batch[w]]
    BY DEF Types
  <2> QED BY <1>3, <2>1 DEF Take, Mine, Falls, Coming
<1>11. UNCHANGED <<arguments, results, working, delivered, main>>
  BY DEF Take
<1> QED BY <1>2, <1>5, <1>6, <1>7, <1>8, <1>9, <1>10, <1>11

LEMMA ExhaustDoes ==
    ASSUME Arguments, Types, OrderInv, NEW w \in Workers, Exhaust(w)
    PROVE  LET t == turn[w]
               p == pos[w]
           IN  /\ t # <<>> /\ p[t[1]] = Size[t[1]]
               /\ ~(t[1] \in TrainOnly /\ split # "train") /\ <<t[1], p[t[1]] + 1>> \notin unreadable
               /\ turn' = [turn EXCEPT ![w] = Tail(t)]
               /\ main = "loop" /\ working[w] = TRUE
               /\ UNCHANGED <<arguments, pos, idx, batch, results, working, delivered, main>>
<1> DEFINE t == turn[w]
           p == pos[w]
           d == t[1]
<1>1. Names \in Seq(Datasets) /\ IsInjective(Names) /\ InStream(Names, mode, t, p)
  BY WorkersAre DEF OrderInv
<1>2. t # <<>> /\ main = "loop" /\ working[w] = TRUE
  BY DEF Exhaust, Exhausted, Reading, Types
<1>3. Head(t) = d /\ d \in Datasets
  BY <1>1, <1>2, StreamOf
<1>4. Size[d] = Len(Examples(d))
  BY <1>3 DEF Size
<1>5. p[d] = Size[d] /\ ~(d \in TrainOnly /\ split # "train") /\ <<d, p[d] + 1>> \notin unreadable
  BY <1>3, <1>4 DEF Exhaust, Exhausted, Raises
<1>6. /\ turn' = [turn EXCEPT ![w] = Tail(t)]
      /\ UNCHANGED <<arguments, pos, idx, batch, results, working, delivered, main>>
  BY DEF Exhaust, Exhausted
<1> QED BY <1>2, <1>5, <1>6

LEMMA DueRequested ==
    ASSUME Arguments, NEW w, NEW p, NEW e \in Due(Names, mode, numWorkers, w, p)
    PROVE  e \in Requested /\ e \in AllExamples
<1>1. e \in AllExamples /\ \E d \in ToSet(Names) : \E j \in 1 .. p[d] : j <= Size[d] /\ e = Examples(d)[j]
  BY DEF Due
<1>2. PICK d \in ToSet(Names) : \E j \in 1 .. p[d] : j <= Size[d] /\ e = Examples(d)[j]
  BY <1>1
<1>3. PICK j \in 1 .. p[d] : j <= Size[d] /\ e = Examples(d)[j]
  BY <1>2
<1>4. d \in Datasets
  <2>1. Names \in Seq(Datasets)
    BY WorkersAre
  <2> QED BY <2>1 DEF ToSet
<1>5. DOMAIN Examples(d) = 1 .. Size[d] /\ Size[d] \in Nat
  BY <1>4, ExamplesOf DEF Size
<1>6. j \in DOMAIN Examples(d)
  BY <1>3, <1>5
<1>7. e \in ToSet(Examples(d))
  BY <1>3, <1>6 DEF ToSet
<1> QED BY <1>1, <1>7 DEF Requested

\* What becomes of a batch of examples that were asked for.
LEMMA BatchIs ==
    ASSUME Arguments, NEW b \in Seq(AllExamples), \A k \in 1 .. Len(b) : b[k] \in Requested
    PROVE  /\ Batch(b) \in Result
           /\ Batch(b).examples = b \/ Batch(b).examples = <<>>
           /\ Batch(b).kind # "error" => Batch(b).examples = b
           /\ Batch(b).kind # "error" <=> Collatable(b)
           /\ Batch(b).kind = "error" => Trouble
           /\ loadTargets => \A k \in 1 .. Len(Batch(b).examples) : Targets[Batch(b).examples[k]] # NoTargets
<1>1. DOMAIN b = 1 .. Len(b)
  OBVIOUS
<1>2. CASE Collatable(b)
  <2>1. Batch(b) = [kind |-> "batch", examples |-> b]
    BY <1>2 DEF Batch
  <2>2. loadTargets => \A k \in 1 .. Len(b) : Targets[b[k]] # NoTargets
    BY <1>1, <1>2 DEF Collatable
  <2> QED BY <1>2, <2>1, <2>2 DEF Result
<1>3. CASE ~Collatable(b)
  <2>1. Batch(b) = [kind |-> "error", examples |-> <<>>]
    BY <1>3 DEF Batch
  <2>2. loadTargets /\ \E k \in 1 .. Len(b) : Targets[b[k]] = NoTargets \/ Targets[b[k]] # Targets[b[1]]
    BY <1>1, <1>3 DEF Collatable
  <2>3. PICK k \in 1 .. Len(b) : Targets[b[k]] = NoTargets \/ Targets[b[k]] # Targets[b[1]]
    BY <2>2
  <2>4. 1 \in 1 .. Len(b)
    OBVIOUS
  <2>5. Trouble
    BY <2>2, <2>3, <2>4 DEF Trouble
  <2>6. 1 .. Len(<<>>) = {} /\ <<>> \in Seq(AllExamples)
    OBVIOUS
  <2> QED BY <1>3, <2>1, <2>5, <2>6 DEF Result
<1> QED BY <1>2, <1>3

LEMMA SignalIs ==
    ASSUME NEW kind \in {"error", "end"}
    PROVE  Signal(kind) \in Result /\ Signal(kind).examples = <<>> /\ Signal(kind).kind = kind
BY DEF Signal, Result

LEMMA ErrorSent ==
    ASSUME NEW r \in Seq(Result), NEW x \in Result, NEW m
    PROVE  NoError(m, Append(r, x)) <=> NoError(m, r) /\ x.kind # "error"
<1>1. /\ Len(r) \in Nat /\ Len(Append(r, x)) = Len(r) + 1
      /\ Append(r, x)[Len(r) + 1] = x
      /\ \A k \in 1 .. Len(r) : Append(r, x)[k] = r[k]
      /\ \A k \in 1 .. (Len(r) + 1) : k = Len(r) + 1 \/ k \in 1 .. Len(r)
  BY AppendedSeq
<1>2. Len(r) + 1 \in 1 .. (Len(r) + 1) /\ \A k \in 1 .. Len(r) : k \in 1 .. (Len(r) + 1)
  BY <1>1
<1> QED BY <1>1, <1>2 DEF NoError

LEMMA HonestSent ==
    ASSUME NEW r \in Seq(Result), NEW x \in Result, Honest(r), x.kind = "error" => Trouble,
           loadTargets => \A k \in 1 .. Len(x.examples) : Targets[x.examples[k]] # NoTargets
    PROVE  Honest(Append(r, x))
<1>1. /\ Len(r) \in Nat /\ Len(Append(r, x)) = Len(r) + 1
      /\ Append(r, x)[Len(r) + 1] = x
      /\ \A k \in 1 .. Len(r) : Append(r, x)[k] = r[k]
      /\ \A k \in 1 .. (Len(r) + 1) : k = Len(r) + 1 \/ k \in 1 .. Len(r)
  BY AppendedSeq
<1> QED BY <1>1 DEF Honest

\* What a worker that sends hands over keeps every part of the invariant: r has become new.
Handed(w, new, works) ==
    /\ new \in Seq(Result) /\ works \in BOOLEAN
    /\ Placed(<<>>, new, delivered, Due(Names, mode, numWorkers, w, pos[w]))
    /\ NoError(main, new) =>
         Kept(<<>>, new, delivered, Due(Names, mode, numWorkers, w, pos[w]), Limit(dropLast, works, batchSize))
    /\ ~works /\ NoError(main, new) => turn[w] = <<>>
    /\ Honest(new)
    /\ main = "loop" /\ working[w] = TRUE
    /\ results' = [results EXCEPT ![w] = new]
    /\ batch' = [batch EXCEPT ![w] = <<>>]
    /\ working' = [working EXCEPT ![w] = works]
    /\ UNCHANGED <<arguments, stream, delivered, main>>

LEMMA LimitIs ==
    ASSUME Arguments, NEW works \in BOOLEAN
    PROVE  /\ Limit(dropLast, works, batchSize) \in Nat /\ Limit(dropLast, TRUE, batchSize) = 0
           /\ Limit(dropLast, works, batchSize) >= 0
BY DEF Limit, Arguments

LEMMA InHand ==
    ASSUME LoaderInv, NEW w \in Workers
    PROVE  /\ Arguments /\ batch[w] \in Seq(AllExamples) /\ results[w] \in Seq(Result)
           /\ delivered \in [AllExamples -> Nat]
           /\ Placed(batch[w], results[w], delivered, Due(Names, mode, numWorkers, w, pos[w]))
           /\ Honest(results[w])
           /\ \A k \in 1 .. Len(batch[w]) : batch[w][k] \in Requested
           /\ NoError(main, results[w]) =>
                Kept(batch[w], results[w], delivered, Due(Names, mode, numWorkers, w, pos[w]),
                     Limit(dropLast, working[w], batchSize))
<1>1. Arguments /\ Types /\ PlaceInv /\ TroubleInv /\ KeptInv
  BY DEF LoaderInv
<1>2. /\ batch[w] \in Seq(AllExamples) /\ results[w] \in Seq(Result)
      /\ delivered \in [AllExamples -> Nat]
  BY <1>1 DEF Types
<1>3. Placed(batch[w], results[w], delivered, Due(Names, mode, numWorkers, w, pos[w]))
  BY <1>1 DEF PlaceInv
<1>4. Honest(results[w])
  BY <1>1 DEF TroubleInv
<1>5. \A k \in 1 .. Len(batch[w]) : batch[w][k] \in Requested
  BY <1>1, <1>3, DueRequested DEF Placed
<1>6. NoError(main, results[w]) =>
        Kept(batch[w], results[w], delivered, Due(Names, mode, numWorkers, w, pos[w]),
             Limit(dropLast, working[w], batchSize))
  BY <1>1 DEF KeptInv
<1> QED BY <1>1, <1>2, <1>3, <1>4, <1>5, <1>6

LEMMA ReadFailsHands ==
    ASSUME LoaderInv, NEW w \in Workers, ReadFails(w)
    PROVE  \E new, works : Handed(w, new, works)
<1> DEFINE b == batch[w]
           r == results[w]
           t == turn[w]
           due == Due(Names, mode, numWorkers, w, pos[w])
           x == Signal("error")
           new == Append(r, x)
<1>1. /\ Arguments /\ b \in Seq(AllExamples) /\ r \in Seq(Result)
      /\ Placed(b, r, delivered, due) /\ Honest(r)
  BY InHand
<1>2. x \in Result /\ x.examples = <<>> /\ x.kind = "error"
  BY SignalIs
<1>3. /\ main = "loop" /\ working[w] = TRUE /\ t # <<>> /\ Raises(w, Head(t))
      /\ results' = [results EXCEPT ![w] = new]
      /\ batch' = [batch EXCEPT ![w] = <<>>]
      /\ working' = [working EXCEPT ![w] = FALSE]
      /\ UNCHANGED <<arguments, stream, delivered, main>>
  BY DEF ReadFails, ReadFailsAs, Reading, LoaderInv, Types
<1>4. Trouble
  <2>1. /\ Names \in Seq(Datasets) /\ IsInjective(Names) /\ InStream(Names, mode, t, pos[w])
    BY WorkersAre DEF LoaderInv, OrderInv
  <2>2. Head(t) \in ToSet(Names) /\ Head(t) \in Datasets
    BY <1>3, <2>1, StreamOf
  <2> DEFINE d == Head(t)
  <2> HIDE DEF d, t
  <2>3. pos[w] \in [Datasets -> Nat] /\ \A c \in Datasets : pos[w][c] <= Size[c] /\ Size[c] \in Nat
    BY <2>1, StreamOf
  <2>4. pos[w][d] + 1 \in 1 .. Size[d] + 1 /\ Size[d] = Len(Examples(d))
    BY <2>2, <2>3 DEF d, Size
  <2>5. d \in Faulty
    BY <1>3, <2>2, <2>4 DEF Faulty, Raises, d
  <2> QED BY <2>5 DEF Trouble
<1> HIDE DEF b, r, due, x
<1>5. new \in Seq(Result)
  BY <1>1, <1>2, AppendedSeq
<1>6. Placed(<<>>, new, delivered, due)
  BY <1>1, <1>2, PlacedSent
<1>7. ~NoError(main, new)
  BY <1>1, <1>2, ErrorSent
<1>8. Honest(new)
  <2>1. 1 .. Len(x.examples) = {}
    BY <1>2
  <2> QED BY <1>1, <1>2, <1>4, <2>1, HonestSent
<1>9. Handed(w, new, FALSE)
  BY <1>3, <1>5, <1>6, <1>7, <1>8 DEF Handed, due
<1> QED BY <1>9

LEMMA SendBatchHands ==
    ASSUME LoaderInv, NEW w \in Workers, SendBatch(w)
    PROVE  \E new, works : Handed(w, new, works)
<1> DEFINE b == batch[w]
           r == results[w]
           due == Due(Names, mode, numWorkers, w, pos[w])
           x == Batch(b)
           new == Append(r, x)
           works == Collatable(b)
<1>1. /\ Arguments /\ b \in Seq(AllExamples) /\ r \in Seq(Result)
      /\ Placed(b, r, delivered, due) /\ Honest(r)
      /\ \A k \in 1 .. Len(b) : b[k] \in Requested
      /\ NoError(main, r) => Kept(b, r, delivered, due, Limit(dropLast, working[w], batchSize))
  BY InHand
<1>2. /\ main = "loop" /\ working[w] = TRUE
      /\ results' = [results EXCEPT ![w] = new]
      /\ batch' = [batch EXCEPT ![w] = <<>>]
      /\ working' = [working EXCEPT ![w] = works]
      /\ UNCHANGED <<arguments, stream, delivered, main>>
  BY DEF SendBatch, LoaderInv, Types
<1>0. works \in BOOLEAN
  BY DEF Collatable
<1> HIDE DEF b, r, due
<1>3. /\ x \in Result
      /\ x.examples = b \/ x.examples = <<>>
      /\ x.kind # "error" => x.examples = b
      /\ x.kind # "error" <=> works
      /\ x.kind = "error" => Trouble
      /\ loadTargets => \A k \in 1 .. Len(x.examples) : Targets[x.examples[k]] # NoTargets
  BY <1>1, BatchIs
<1> HIDE DEF x, works
<1>4. new \in Seq(Result)
  BY <1>1, <1>3, AppendedSeq
<1>5. Placed(<<>>, new, delivered, due)
  BY <1>1, <1>3, PlacedSent
<1>6. Honest(new)
  BY <1>1, <1>3, HonestSent
<1>7. ASSUME NoError(main, new)
      PROVE  works /\ Kept(<<>>, new, delivered, due, Limit(dropLast, works, batchSize))
  <2>1. NoError(main, r) /\ x.kind # "error"
    BY <1>1, <1>3, <1>7, ErrorSent
  <2>2. Kept(b, r, delivered, due, 0)
    BY <1>1, <1>2, <2>1, LimitIs
  <2>3. Missing(<<>>, new, delivered, due) \subseteq Missing(b, r, delivered, due)
    BY <1>1, <1>3, <2>1, MissingSent
  <2>4. 0 \in Nat /\ Limit(dropLast, works, batchSize) \in Nat /\ 0 <= Limit(dropLast, works, batchSize)
    BY <1>0, <1>1, LimitIs
  <2>5. Kept(<<>>, new, delivered, due, Limit(dropLast, works, batchSize))
    BY <2>2, <2>3, <2>4, KeptStill
  <2> QED BY <1>3, <2>1, <2>5
<1>8. Handed(w, new, works)
  BY <1>0, <1>2, <1>4, <1>5, <1>6, <1>7 DEF Handed, due
<1> QED BY <1>8

LEMMA EndStreamHands ==
    ASSUME LoaderInv, NEW w \in Workers, EndStream(w)
    PROVE  \E new, works : Handed(w, new, works)
<1> DEFINE b == batch[w]
           r == results[w]
           due == Due(Names, mode, numWorkers, w, pos[w])
           x == Batch(b)
           end == Signal("end")
           quiet == b = <<>> \/ dropLast
           left == IF quiet THEN r ELSE Append(r, x)
           new == Append(left, end)
           limit == Limit(dropLast, FALSE, batchSize)
<1>1. /\ Arguments /\ b \in Seq(AllExamples) /\ r \in Seq(Result)
      /\ Placed(b, r, delivered, due) /\ Honest(r)
      /\ \A k \in 1 .. Len(b) : b[k] \in Requested
      /\ NoError(main, r) => Kept(b, r, delivered, due, Limit(dropLast, working[w], batchSize))
  BY InHand
<1>2. /\ main = "loop" /\ working[w] = TRUE /\ Len(b) < batchSize /\ turn[w] = <<>>
      /\ batch' = [batch EXCEPT ![w] = <<>>]
      /\ working' = [working EXCEPT ![w] = FALSE]
      /\ UNCHANGED <<arguments, stream, delivered, main>>
      /\ results' = [results EXCEPT ![w] = r \o (IF quiet THEN <<>> ELSE <<x>>) \o <<end>>]
  BY DEF EndStream, Reading, LoaderInv, Types
<1>3. end \in Result /\ end.examples = <<>> /\ end.kind = "end"
  BY SignalIs
<1>4. quiet \in BOOLEAN
  BY <1>1 DEF Arguments
<1> HIDE DEF b, r, due, end
<1>5. /\ x \in Result
      /\ x.examples = b \/ x.examples = <<>>
      /\ x.kind # "error" => x.examples = b
      /\ x.kind = "error" => Trouble
      /\ loadTargets => \A k \in 1 .. Len(x.examples) : Targets[x.examples[k]] # NoTargets
  BY <1>1, BatchIs
<1> HIDE DEF x
<1>6. r \o (IF quiet THEN <<>> ELSE <<x>>) \o <<end>> = new
  <2>1. r \o <<>> = r /\ r \o <<x>> = Append(r, x)
    BY <1>1, <1>5
  <2>2. r \o (IF quiet THEN <<>> ELSE <<x>>) = left
    BY <2>1
  <2>3. left \in Seq(Result)
    BY <1>1, <1>5
  <2> HIDE DEF left
  <2>4. left \o <<end>> = Append(left, end)
    BY <1>3, <2>3
  <2> QED BY <2>2, <2>4
<1>7. left \in Seq(Result) /\ Honest(left)
  <2>1. CASE quiet
    BY <1>1, <2>1
  <2>2. CASE ~quiet
    BY <1>1, <1>5, <2>2, AppendedSeq, HonestSent
  <2> QED BY <2>1, <2>2
<1>8. \/ Placed(b, left, delivered, due)
      \/ Placed(<<>>, left, delivered, due)
  <2>1. CASE quiet
    BY <1>1, <2>1
  <2>2. CASE ~quiet
    BY <1>1, <1>5, <2>2, PlacedSent
  <2> QED BY <2>1, <2>2
<1>9. ASSUME NoError(main, left), ~dropLast
      PROVE  Missing(<<>>, left, delivered, due) \subseteq Missing(b, r, delivered, due)
  <2>1. CASE quiet
    BY <1>9, <2>1
  <2>2. CASE ~quiet
    <3>1. x.kind # "error"
      BY <1>1, <1>5, <1>9, <2>2, ErrorSent
    <3> QED BY <1>1, <1>5, <2>2, <3>1, MissingSent
  <2> QED BY <2>1, <2>2
<1>10. NoError(main, left) => NoError(main, r)
  <2>1. CASE quiet
    BY <2>1
  <2>2. CASE ~quiet
    BY <1>1, <1>5, <2>2, ErrorSent
  <2> QED BY <2>1, <2>2
<1>11. dropLast => left = r
  OBVIOUS
<1> HIDE DEF left
<1>12. new \in Seq(Result)
  BY <1>3, <1>7, AppendedSeq
<1>13. Placed(<<>>, new, delivered, due)
  <2>1. <<>> \in Seq(AllExamples)
    OBVIOUS
  <2> QED BY <1>1, <1>3, <1>7, <1>8, <2>1, PlacedSent
<1>14. Honest(new)
  <2>1. 1 .. Len(end.examples) = {}
    BY <1>3
  <2> QED BY <1>3, <1>7, <2>1, HonestSent
<1>15. ASSUME NoError(main, new) PROVE Kept(<<>>, new, delivered, due, limit)
  <2>1. NoError(main, left) /\ NoError(main, r)
    BY <1>3, <1>7, <1>10, <1>15, ErrorSent
  <2>2. Kept(b, r, delivered, due, 0)
    BY <1>1, <1>2, <2>1, LimitIs
  <2>3. limit \in Nat /\ 0 <= limit
    BY <1>1, LimitIs
  <2>4. CASE ~dropLast
    <3>1. Missing(<<>>, new, delivered, due) \subseteq Missing(<<>>, left, delivered, due)
      <4>1. <<>> \in Seq(AllExamples)
        OBVIOUS
      <4> QED BY <1>3, <1>7, <4>1, MissingSent
    <3>2. Missing(<<>>, new, delivered, due) \subseteq Missing(b, r, delivered, due)
      BY <1>9, <2>1, <2>4, <3>1
    <3> QED BY <2>2, <2>3, <3>2, KeptStill
  <2>5. CASE dropLast
    <3>1. Missing(b, r, delivered, due) = {}
      BY <2>2, KeptAll
    <3>2. \A e \in Missing(<<>>, new, delivered, due) : \E k \in 1 .. Len(b) : b[k] = e
      BY <1>1, <1>3, <1>7, <1>11, <2>5, <3>1, MissingSent
    <3>3. Len(b) <= limit
      BY <1>1, <1>2, <2>5 DEF Limit, Arguments
    <3> QED BY <1>1, <3>2, <3>3 DEF Kept
  <2> QED BY <2>4, <2>5
<1>16. Handed(w, new, FALSE)
  <2>1. results' = [results EXCEPT ![w] = new]
    BY <1>2, <1>6
  <2> QED BY <1>2, <1>12, <1>13, <1>14, <1>15, <2>1 DEF Handed, due
<1> QED BY <1>16

LEMMA HandedKeeps ==
    ASSUME LoaderInv, NEW w \in Workers, NEW new, NEW works, Handed(w, new, works)
    PROVE  LoaderInv'
<1>1. /\ Arguments /\ Types /\ OrderInv /\ ReadInv /\ PlaceInv /\ GotInv /\ KeptInv
      /\ EndInv /\ TroubleInv /\ DoneInv
  BY DEF LoaderInv
<1>2. /\ new \in Seq(Result) /\ works \in BOOLEAN
      /\ Placed(<<>>, new, delivered, Due(Names, mode, numWorkers, w, pos[w]))
      /\ NoError(main, new) =>
           Kept(<<>>, new, delivered, Due(Names, mode, numWorkers, w, pos[w]), Limit(dropLast, works, batchSize))
      /\ ~works /\ NoError(main, new) => turn[w] = <<>>
      /\ Honest(new)
      /\ main = "loop"
      /\ results' = [results EXCEPT ![w] = new]
      /\ batch' = [batch EXCEPT ![w] = <<>>]
      /\ working' = [working EXCEPT ![w] = works]
      /\ UNCHANGED arguments /\ turn' = turn /\ pos' = pos /\ idx' = idx
      /\ delivered' = delivered /\ main' = main
  BY DEF Handed, stream
<1>3. /\ Arguments' /\ Names' = Names /\ Workers' = Workers /\ (Trouble' <=> Trouble)
      /\ mode' = mode /\ numWorkers' = numWorkers /\ batchSize' = batchSize
      /\ dropLast' = dropLast /\ loadTargets' = loadTargets
      /\ split' = split /\ unreadable' = unreadable
  BY <1>1, <1>2, ArgumentsFixed
<1>4. /\ results'[w] = new /\ batch'[w] = <<>> /\ working'[w] = works
      /\ \A v \in Workers : v # w => results'[v] = results[v] /\ batch'[v] = batch[v] /\ working'[v] = working[v]
  BY <1>1, <1>2 DEF Types
<1>5. Types'
  BY <1>1, <1>2, <1>3 DEF Types
<1>6. OrderInv'
  BY <1>1, <1>2, <1>3 DEF OrderInv
<1>7. ReadInv'
  BY <1>1, <1>2, <1>3 DEF ReadInv
<1>8. PlaceInv'
  <2>1. ASSUME NEW v \in Workers
        PROVE  Placed(batch'[v], results'[v], delivered, Due(Names, mode, numWorkers, v, pos[v]))
    <3>1. CASE v = w
      BY <1>2, <1>4, <3>1
    <3>2. CASE v # w
      BY <1>1, <1>4, <3>2 DEF PlaceInv
    <3> QED BY <3>1, <3>2
  <2> QED BY <1>2, <1>3, <2>1 DEF PlaceInv
<1>9. GotInv'
  BY <1>1, <1>2, <1>3 DEF GotInv
<1>10. KeptInv'
  <2>1. ASSUME NEW v \in Workers, NoError(main, results'[v])
        PROVE  Kept(batch'[v], results'[v], delivered, Due(Names, mode, numWorkers, v, pos[v]),
                    Limit(dropLast, working'[v], batchSize))
    <3>1. CASE v = w
      BY <1>2, <1>4, <2>1, <3>1
    <3>2. CASE v # w
      BY <1>1, <1>4, <2>1, <3>2 DEF KeptInv
    <3> QED BY <3>1, <3>2
  <2> QED BY <1>2, <1>3, <2>1 DEF KeptInv
<1>11. EndInv'
  <2>1. ASSUME NEW v \in Workers, ~working'[v]
        PROVE  batch'[v] = <<>> /\ (NoError(main, results'[v]) => turn[v] = <<>>)
    <3>1. CASE v = w
      BY <1>2, <1>4, <2>1, <3>1
    <3>2. CASE v # w
      BY <1>1, <1>4, <2>1, <3>2 DEF EndInv
    <3> QED BY <3>1, <3>2
  <2> QED BY <1>2, <1>3, <2>1 DEF EndInv
<1>12. TroubleInv'
  <2>1. ASSUME NEW v \in Workers PROVE Honest(results'[v])
    <3>1. CASE v = w
      BY <1>2, <1>4, <3>1
    <3>2. CASE v # w
      BY <1>1, <1>4, <3>2 DEF TroubleInv
    <3> QED BY <3>1, <3>2
  <2>2. \A v \in Workers' : Honest(results[v])'
    BY <1>3, <2>1 DEF Honest
  <2> QED BY <1>1, <1>2, <1>3, <2>2 DEF TroubleInv
<1>13. DoneInv'
  BY <1>2 DEF DoneInv
<1> QED BY <1>3, <1>5, <1>6, <1>7, <1>8, <1>9, <1>10, <1>11, <1>12, <1>13 DEF LoaderInv

-----------------------------------------------------------------------------
(* The other actions.                                                          *)

LEMMA TurnedHas ==
    ASSUME NEW m, NEW t \in Seq(Datasets), t # <<>>, NEW d \in ToSet(t)
    PROVE  /\ d \in ToSet(Turned(m, t))
           /\ d = t[1] \/ d \in ToSet(Tail(t))
<1>1. PICK i \in 1 .. Len(t) : t[i] = d
  BY DEF ToSet
<1>2. Len(t) \in Nat /\ DOMAIN Tail(t) = 1 .. (Len(t) - 1) /\ \A k \in 1 .. (Len(t) - 1) : Tail(t)[k] = t[k + 1]
  OBVIOUS
<1>3. d = t[1] \/ d \in ToSet(Tail(t))
  <2>1. CASE i = 1
    BY <1>1, <2>1
  <2>2. CASE i # 1
    <3>1. i - 1 \in 1 .. (Len(t) - 1) /\ (i - 1) + 1 = i
      BY <2>2
    <3>2. Tail(t)[i - 1] = d
      BY <1>1, <1>2, <3>1
    <3> QED BY <1>2, <3>1, <3>2 DEF ToSet
  <2> QED BY <2>1, <2>2
<1>4. d \in ToSet(Turned(m, t))
  <2>1. CASE m = "round_robin"
    <3> DEFINE u == Tail(t)
               h == Head(t)
    <3>1. u \in Seq(Datasets) /\ h \in Datasets /\ h = t[1]
      OBVIOUS
    <3>2. Turned(m, t) = Append(u, h)
      BY <2>1 DEF Turned
    <3>3. d = h \/ \E k \in 1 .. Len(u) : u[k] = d
      BY <1>3, <3>1 DEF ToSet
    <3> HIDE DEF u, h
    <3>4. /\ Len(u) \in Nat /\ DOMAIN Append(u, h) = 1 .. (Len(u) + 1)
          /\ Append(u, h)[Len(u) + 1] = h /\ \A k \in 1 .. Len(u) : Append(u, h)[k] = u[k]
      BY <3>1
    <3>5. \E k \in DOMAIN Append(u, h) : Append(u, h)[k] = d
      <4>1. Len(u) + 1 \in 1 .. (Len(u) + 1) /\ \A k \in 1 .. Len(u) : k \in 1 .. (Len(u) + 1)
        BY <3>4
      <4> QED BY <3>3, <3>4, <4>1
    <3> QED BY <3>2, <3>5 DEF ToSet
  <2>2. CASE m # "round_robin"
    BY <2>2 DEF Turned
  <2> QED BY <2>1, <2>2
<1> QED BY <1>3, <1>4

LEMMA ReadOn ==
    ASSUME NEW names \in Seq(Datasets), IsInjective(names), NEW m, NEW sp, NEW un, NEW t, NEW p,
           InStream(names, m, t, p), WasReadable(names, sp, un, t, p), t # <<>>,
           ~(t[1] \in TrainOnly /\ sp # "train"), <<t[1], p[t[1]] + 1>> \notin un
    PROVE  /\ WasReadable(names, sp, un, Turned(m, t), Advanced(t, p))
           /\ p[t[1]] = Size[t[1]] => WasReadable(names, sp, un, Tail(t), p)
<1> DEFINE h == t[1]
           q == Advanced(t, p)
<1>1. /\ t \in Seq(Datasets) /\ p \in [Datasets -> Nat] /\ h \in Datasets
      /\ \A d \in ToSet(names) : d \in Datasets
  BY StreamOf
<1>2. q[h] = p[h] + 1 /\ p[h] \in Nat /\ \A d \in Datasets : d # h => q[d] = p[d]
  BY <1>1 DEF Advanced
<1>3. \A d \in ToSet(t) : d \in ToSet(Turned(m, t)) /\ (d = h \/ d \in ToSet(Tail(t)))
  BY <1>1, TurnedHas
<1>0. ~(h \in TrainOnly /\ sp # "train") /\ <<h, p[h] + 1>> \notin un
  OBVIOUS
<1> HIDE DEF h, q
<1>4. \A d \in ToSet(names) :
        /\ \A k \in 1 .. p[d] : <<d, k>> \notin un
        /\ (p[d] > 0 \/ d \notin ToSet(t)) => ~(d \in TrainOnly /\ sp # "train")
        /\ d \notin ToSet(t) => <<d, Size[d] + 1>> \notin un
  BY DEF WasReadable
<1>5. ASSUME NEW d \in ToSet(names)
      PROVE  /\ \A k \in 1 .. q[d] : <<d, k>> \notin un
             /\ (q[d] > 0 \/ d \notin ToSet(Turned(m, t))) => ~(d \in TrainOnly /\ sp # "train")
             /\ d \notin ToSet(Turned(m, t)) => <<d, Size[d] + 1>> \notin un
  <2>1. CASE d = h
    <3>1. \A k \in 1 .. q[d] : k \in 1 .. p[d] \/ k = p[d] + 1
      BY <1>2, <2>1
    <3>2. \A k \in 1 .. q[d] : <<d, k>> \notin un
      BY <1>0, <1>4, <2>1, <3>1
    <3> QED BY <1>0, <1>3, <1>4, <2>1, <3>2
  <2>2. CASE d # h
    BY <1>1, <1>2, <1>3, <1>4, <2>2
  <2> QED BY <2>1, <2>2
<1>6. WasReadable(names, sp, un, Turned(m, t), q)
  BY <1>5 DEF WasReadable
<1>7. ASSUME p[h] = Size[h], NEW d \in ToSet(names)
      PROVE  /\ \A k \in 1 .. p[d] : <<d, k>> \notin un
             /\ (p[d] > 0 \/ d \notin ToSet(Tail(t))) => ~(d \in TrainOnly /\ sp # "train")
             /\ d \notin ToSet(Tail(t)) => <<d, Size[d] + 1>> \notin un
  BY <1>0, <1>3, <1>4, <1>7
<1>8. p[h] = Size[h] => WasReadable(names, sp, un, Tail(t), p)
  BY <1>7 DEF WasReadable
<1> QED BY <1>6, <1>8 DEF h, q

LEMMA TakeKeeps ==
    ASSUME LoaderInv, NEW w \in Workers, Take(w)
    PROVE  LoaderInv'
<1> DEFINE t == turn[w]
           p == pos[w]
           e == Coming(t, p)
           q == Advanced(t, p)
           mine == Falls(numWorkers, idx[w], w)
           b == batch[w]
           due(v, x) == Due(Names, mode, numWorkers, v, x)
<1>1. /\ Arguments /\ Types /\ OrderInv /\ ReadInv /\ PlaceInv /\ GotInv /\ KeptInv
      /\ EndInv /\ TroubleInv /\ DoneInv
  BY DEF LoaderInv
<1>2. /\ t # <<>> /\ p[t[1]] < Size[t[1]] /\ e \in AllExamples
      /\ ~(t[1] \in TrainOnly /\ split # "train") /\ <<t[1], p[t[1]] + 1>> \notin unreadable
      /\ turn' = [turn EXCEPT ![w] = Turned(mode, t)]
      /\ pos' = [pos EXCEPT ![w] = q]
      /\ idx' = [idx EXCEPT ![w] = idx[w] + 1]
      /\ batch' = [batch EXCEPT ![w] = IF mine THEN Append(b, e) ELSE b]
      /\ main = "loop" /\ working[w] = TRUE
      /\ UNCHANGED arguments /\ results' = results /\ working' = working
      /\ delivered' = delivered /\ main' = main
  BY <1>1, TakeDoes
<1>3. /\ Arguments' /\ Names' = Names /\ Workers' = Workers /\ (Trouble' <=> Trouble)
      /\ mode' = mode /\ numWorkers' = numWorkers /\ batchSize' = batchSize
      /\ dropLast' = dropLast /\ loadTargets' = loadTargets
      /\ split' = split /\ unreadable' = unreadable
  BY <1>1, <1>2, ArgumentsFixed
<1>4. /\ Names \in Seq(Datasets) /\ IsInjective(Names) /\ InStream(Names, mode, t, p)
      /\ numWorkers \in Nat /\ Workers = WorkersOf(numWorkers)
  BY <1>1, WorkersAre DEF OrderInv
<1>0. t # <<>> /\ p[t[1]] < Size[t[1]]
  BY <1>2
<1>5. /\ InStream(Names, mode, Turned(mode, t), q)
      /\ AllRead(Names, q) = idx[w] + 1 /\ idx[w] \in Nat /\ idx[w] = AllRead(Names, p)
  <2>1. /\ InStream(Names, mode, Turned(mode, t), q)
        /\ AllRead(Names, q) = AllRead(Names, p) + 1
        /\ AllRead(Names, p) \in Nat
    BY <1>0, <1>4, StreamReads
  <2>2. idx[w] = AllRead(Names, p)
    BY <1>1 DEF OrderInv
  <2> QED BY <2>1, <2>2, Zenon
<1>6. /\ \A v : e \notin due(v, p)
      /\ due(w, q) = IF mine THEN due(w, p) \cup {e} ELSE due(w, p)
  <2>1. \A v : e \notin due(v, p)
    BY <1>0, <1>4, DueNext
  <2>2. mine => due(w, q) = due(w, p) \cup {e}
    <3>1. mine => Falls(numWorkers, AllRead(Names, p), w)
      BY <1>5
    <3>2. mine => due(w, q) = More(due(w, p), e)
      BY <1>0, <1>4, <3>1, DueMore
    <3> QED BY <3>2, Zenon DEF More
  <2>3. ~mine => due(w, q) = due(w, p)
    <3>1. ~mine => ~Falls(numWorkers, AllRead(Names, p), w)
      BY <1>5
    <3> QED BY <1>0, <1>4, <3>1, DueMore
  <2> HIDE DEF mine
  <2> QED BY <2>1, <2>2, <2>3
<1>7. /\ Turned(mode, t) \in Seq(Datasets) /\ q \in [Datasets -> Nat] /\ p \in [Datasets -> Nat]
      /\ b \in Seq(AllExamples) /\ t \in Seq(Datasets)
  BY <1>1, <1>4, <1>5, StreamOf DEF Types
<1>8. WasReadable(Names, split, unreadable, Turned(mode, t), q)
  <2>1. WasReadable(Names, split, unreadable, t, p)
    BY <1>1 DEF ReadInv
  <2> QED BY <1>2, <1>4, <2>1, ReadOn
<1> HIDE DEF mine, q, e
<1>9. /\ turn'[w] = Turned(mode, t) /\ pos'[w] = q /\ idx'[w] = idx[w] + 1
      /\ batch'[w] = (IF mine THEN Append(b, e) ELSE b)
      /\ \A v \in Workers : v # w =>
           turn'[v] = turn[v] /\ pos'[v] = pos[v] /\ idx'[v] = idx[v] /\ batch'[v] = batch[v]
  BY <1>1, <1>2 DEF Types
<1>10. (IF mine THEN Append(b, e) ELSE b) \in Seq(AllExamples)
  BY <1>2, <1>7
<1>11. Types'
  <2>1. turn' \in [Workers -> Seq(Datasets)] /\ pos' \in [Workers -> [Datasets -> Nat]]
    BY <1>1, <1>2, <1>7 DEF Types
  <2>2. idx' \in [Workers -> Nat]
    <3>1. idx \in [Workers -> Nat] /\ idx[w] + 1 \in Nat
      BY <1>1, <1>5 DEF Types
    <3> QED BY <1>2, <3>1
  <2>3. batch' \in [Workers -> Seq(AllExamples)]
    BY <1>1, <1>2, <1>10 DEF Types
  <2> QED BY <1>1, <1>2, <1>3, <2>1, <2>2, <2>3 DEF Types
<1>12. mine => delivered[e] = 0
  <2>1. SUFFICES ASSUME mine, delivered[e] # 0 PROVE FALSE
    OBVIOUS
  <2>2. PICK v \in Workers : e \in due(v, pos[v])
    BY <1>1, <1>2, <2>1 DEF GotInv
  <2>3. e \in due(w, q)
    BY <1>6, <2>1
  <2>4. v = w
    BY <1>4, <2>2, <2>3, DueApart
  <2> QED BY <1>6, <2>2, <2>4
<1>13. OrderInv'
  <2>1. ASSUME NEW v \in Workers
        PROVE  InStream(Names, mode, turn'[v], pos'[v]) /\ idx'[v] = AllRead(Names, pos'[v])
    <3>1. CASE v = w
      BY <1>5, <1>9, <3>1
    <3>2. CASE v # w
      BY <1>1, <1>9, <3>2 DEF OrderInv
    <3> QED BY <3>1, <3>2
  <2> QED BY <1>3, <2>1 DEF OrderInv
<1>14. ReadInv'
  <2>1. ASSUME NEW v \in Workers PROVE WasReadable(Names, split, unreadable, turn'[v], pos'[v])
    <3>1. CASE v = w
      BY <1>8, <1>9, <3>1
    <3>2. CASE v # w
      BY <1>1, <1>9, <3>2 DEF ReadInv
    <3> QED BY <3>1, <3>2
  <2> QED BY <1>3, <2>1 DEF ReadInv
<1>15. PlaceInv'
  <2>1. Placed(b, results[w], delivered, due(w, p))
    BY <1>1 DEF PlaceInv
  <2>2. CASE mine
    <3>1. Placed(Append(b, e), results[w], delivered, due(w, p) \cup {e})
      BY <1>2, <1>6, <1>7, <1>12, <2>1, <2>2, PlacedRead
    <3>2. Placed(batch'[w], results[w], delivered, due(w, pos'[w]))
      BY <1>6, <1>9, <2>2, <3>1
    <3>3. \A v \in Workers : Placed(batch'[v], results[v], delivered, due(v, pos'[v]))
      BY <1>1, <1>9, <3>2 DEF PlaceInv
    <3> QED BY <1>2, <1>3, <3>3 DEF PlaceInv
  <2>3. CASE ~mine
    <3>1. Placed(batch'[w], results[w], delivered, due(w, pos'[w]))
      BY <1>6, <1>9, <2>1, <2>3
    <3>2. \A v \in Workers : Placed(batch'[v], results[v], delivered, due(v, pos'[v]))
      BY <1>1, <1>9, <3>1 DEF PlaceInv
    <3> QED BY <1>2, <1>3, <3>2 DEF PlaceInv
  <2> QED BY <2>2, <2>3
<1>16. GotInv'
  <2>1. \A v \in Workers : due(v, pos[v]) \subseteq due(v, pos'[v])
    BY <1>6, <1>9
  <2>2. \A x \in AllExamples : delivered[x] # 0 => \E v \in Workers : x \in due(v, pos'[v])
    BY <1>1, <2>1 DEF GotInv
  <2> QED BY <1>1, <1>2, <1>3, <2>2 DEF GotInv
<1>17. KeptInv'
  <2>1. ASSUME NoError(main, results[w])
        PROVE  Kept(batch'[w], results[w], delivered, due(w, pos'[w]), Limit(dropLast, working[w], batchSize))
    <3>1. Kept(b, results[w], delivered, due(w, p), Limit(dropLast, working[w], batchSize))
      BY <1>1, <2>1 DEF KeptInv
    <3>2. CASE mine
      <4>1. Missing(Append(b, e), results[w], delivered, due(w, p) \cup {e})
              \subseteq Missing(b, results[w], delivered, due(w, p))
        BY <1>2, <1>7, MissingRead
      <4>2. Limit(dropLast, working[w], batchSize) = 0 /\ 0 \in Nat /\ 0 <= 0
        BY <1>1, <1>2, LimitIs
      <4>3. Kept(Append(b, e), results[w], delivered, due(w, p) \cup {e}, 0)
        BY <3>1, <4>1, <4>2, KeptStill
      <4> QED BY <1>6, <1>9, <3>2, <4>2, <4>3
    <3>3. CASE ~mine
      BY <1>6, <1>9, <3>1, <3>3
    <3> QED BY <3>2, <3>3
  <2>2. \A v \in Workers : NoError(main, results[v]) =>
          Kept(batch'[v], results[v], delivered, due(v, pos'[v]), Limit(dropLast, working[v], batchSize))
    BY <1>1, <1>9, <2>1 DEF KeptInv
  <2> QED BY <1>2, <1>3, <2>2 DEF KeptInv
<1>18. EndInv'
  <2>1. \A v \in Workers : ~working[v] =>
          batch'[v] = <<>> /\ (NoError(main, results[v]) => turn'[v] = <<>>)
    BY <1>1, <1>2, <1>9 DEF EndInv
  <2> QED BY <1>2, <1>3, <2>1 DEF EndInv
<1>19. TroubleInv'
  <2>1. \A v \in Workers : Honest(results[v])
    BY <1>1 DEF TroubleInv
  <2>2. \A v \in Workers' : Honest(results[v])'
    BY <1>2, <1>3, <2>1 DEF Honest
  <2> QED BY <1>1, <1>2, <1>3, <2>2 DEF TroubleInv
<1>20. DoneInv'
  BY <1>2 DEF DoneInv
<1> QED BY <1>3, <1>11, <1>13, <1>14, <1>15, <1>16, <1>17, <1>18, <1>19, <1>20 DEF LoaderInv

LEMMA ExhaustKeeps ==
    ASSUME LoaderInv, NEW w \in Workers, Exhaust(w)
    PROVE  LoaderInv'
<1> DEFINE t == turn[w]
           p == pos[w]
<1>1. /\ Arguments /\ Types /\ OrderInv /\ ReadInv /\ PlaceInv /\ GotInv /\ KeptInv
      /\ EndInv /\ TroubleInv /\ DoneInv
  BY DEF LoaderInv
<1>2. /\ t # <<>> /\ p[t[1]] = Size[t[1]]
      /\ ~(t[1] \in TrainOnly /\ split # "train") /\ <<t[1], p[t[1]] + 1>> \notin unreadable
      /\ turn' = [turn EXCEPT ![w] = Tail(t)]
      /\ main = "loop" /\ working[w] = TRUE
      /\ UNCHANGED arguments /\ pos' = pos /\ idx' = idx /\ batch' = batch /\ results' = results
      /\ working' = working /\ delivered' = delivered /\ main' = main
  BY <1>1, ExhaustDoes
<1>3. /\ Arguments' /\ Names' = Names /\ Workers' = Workers /\ (Trouble' <=> Trouble)
      /\ mode' = mode /\ numWorkers' = numWorkers /\ batchSize' = batchSize
      /\ dropLast' = dropLast /\ loadTargets' = loadTargets
      /\ split' = split /\ unreadable' = unreadable
  BY <1>1, <1>2, ArgumentsFixed
<1>4. Names \in Seq(Datasets) /\ IsInjective(Names) /\ InStream(Names, mode, t, p)
  BY <1>1, WorkersAre DEF OrderInv
<1>5. InStream(Names, mode, Tail(t), p) /\ Tail(t) \in Seq(Datasets)
  BY <1>2, <1>4, StreamEnds, StreamOf
<1>6. WasReadable(Names, split, unreadable, Tail(t), p)
  <2>1. WasReadable(Names, split, unreadable, t, p)
    BY <1>1 DEF ReadInv
  <2> QED BY <1>2, <1>4, <2>1, ReadOn
<1>7. turn'[w] = Tail(t) /\ \A v \in Workers : v # w => turn'[v] = turn[v]
  BY <1>1, <1>2 DEF Types
<1>8. Types'
  BY <1>1, <1>2, <1>3, <1>5 DEF Types
<1>9. OrderInv'
  <2>1. \A v \in Workers : InStream(Names, mode, turn'[v], pos[v]) /\ idx[v] = AllRead(Names, pos[v])
    BY <1>1, <1>5, <1>7 DEF OrderInv
  <2> QED BY <1>2, <1>3, <2>1 DEF OrderInv
<1>10. ReadInv'
  <2>1. \A v \in Workers : WasReadable(Names, split, unreadable, turn'[v], pos[v])
    BY <1>1, <1>6, <1>7 DEF ReadInv
  <2> QED BY <1>2, <1>3, <2>1 DEF ReadInv
<1>11. PlaceInv'
  BY <1>1, <1>2, <1>3 DEF PlaceInv
<1>12. GotInv'
  BY <1>1, <1>2, <1>3 DEF GotInv
<1>13. KeptInv'
  BY <1>1, <1>2, <1>3 DEF KeptInv
<1>14. EndInv'
  <2>1. \A v \in Workers : ~working[v] => batch[v] = <<>> /\ (NoError(main, results[v]) => turn'[v] = <<>>)
    BY <1>1, <1>2, <1>7 DEF EndInv
  <2> QED BY <1>2, <1>3, <2>1 DEF EndInv
<1>15. TroubleInv'
  <2>1. \A v \in Workers : Honest(results[v])
    BY <1>1 DEF TroubleInv
  <2>2. \A v \in Workers' : Honest(results[v])'
    BY <1>2, <1>3, <2>1 DEF Honest
  <2> QED BY <1>1, <1>2, <1>3, <2>2 DEF TroubleInv
<1>16. DoneInv'
  BY <1>2 DEF DoneInv
<1> QED BY <1>3, <1>8, <1>9, <1>10, <1>11, <1>12, <1>13, <1>14, <1>15, <1>16 DEF LoaderInv

\* What the loop receives from w: the first result r[1], with the examples x.
LEMMA ReceiveDoes ==
    ASSUME Types, NEW w \in Workers, Receive(w)
    PROVE  LET r == results[w]
           IN  /\ r \in Seq(Result) /\ r # <<>> /\ r[1] \in Result /\ r[1].examples \in Seq(AllExamples)
               /\ delivered' = Added(delivered, r[1].examples)
               /\ main' = IF r[1].kind = "error" THEN "raised" ELSE "loop"
               /\ results' = [results EXCEPT ![w] = Tail(r)]
               /\ Tail(r) \in Seq(Result)
               /\ main = "loop"
               /\ UNCHANGED <<arguments, stream, batch, working>>
<1> DEFINE r == results[w]
<1>1. r \in Seq(Result) /\ r # <<>> /\ main = "loop"
  BY DEF Types, Receive
<1>2. Head(r) = r[1] /\ r[1] \in Result /\ Tail(r) \in Seq(Result)
  BY <1>1
<1>3. r[1].examples \in Seq(AllExamples)
  BY <1>2 DEF Result
<1>4. /\ delivered' = Added(delivered, Head(r).examples)
      /\ main' = IF Head(r).kind = "error" THEN "raised" ELSE "loop"
      /\ results' = [results EXCEPT ![w] = Tail(r)]
      /\ UNCHANGED <<arguments, stream, batch, working>>
  BY Zenon DEF Receive, Added
<1> QED BY <1>1, <1>2, <1>3, <1>4

LEMMA TailOf ==
    ASSUME NEW r \in Seq(Result), r # <<>>
    PROVE  /\ \A i \in 1 .. Len(Tail(r)) : i + 1 \in 1 .. Len(r) /\ Tail(r)[i] = r[i + 1]
           /\ \A i \in 1 .. Len(r) : i = 1 \/ (i - 1 \in 1 .. Len(Tail(r)) /\ Tail(r)[i - 1] = r[i])
OBVIOUS

LEMMA NoErrorTail ==
    ASSUME NEW r \in Seq(Result), r # <<>>, NEW m, m # "raised" => r[1].kind # "error", NoError(m, Tail(r))
    PROVE  NoError("loop", r)
<1>1. ASSUME NEW i \in 1 .. Len(r) PROVE r[i].kind # "error"
  <2>1. CASE i = 1
    BY <2>1 DEF NoError
  <2>2. CASE i # 1
    BY <2>2, TailOf DEF NoError
  <2> QED BY <2>1, <2>2
<1> QED BY <1>1 DEF NoError

LEMMA HonestTail ==
    ASSUME NEW r \in Seq(Result), r # <<>>, Honest(r)
    PROVE  /\ Honest(Tail(r)) /\ (r[1].kind = "error" => Trouble)
           /\ loadTargets => \A k \in 1 .. Len(r[1].examples) : Targets[r[1].examples[k]] # NoTargets
<1>1. 1 \in 1 .. Len(r)
  OBVIOUS
<1>2. Honest(Tail(r))
  BY TailOf DEF Honest
<1> QED BY <1>1, <1>2 DEF Honest

LEMMA ReceiveKeeps ==
    ASSUME LoaderInv, NEW w \in Workers, Receive(w)
    PROVE  LoaderInv'
<1> DEFINE r == results[w]
           x == r[1].examples
           new == Added(delivered, x)
           due(v) == Due(Names, mode, numWorkers, v, pos[v])
<1>1. /\ Arguments /\ Types /\ OrderInv /\ ReadInv /\ PlaceInv /\ GotInv /\ KeptInv
      /\ EndInv /\ TroubleInv /\ DoneInv
  BY DEF LoaderInv
<1>2. /\ r \in Seq(Result) /\ r # <<>> /\ r[1] \in Result /\ x \in Seq(AllExamples)
      /\ delivered' = new
      /\ main' = IF r[1].kind = "error" THEN "raised" ELSE "loop"
      /\ results' = [results EXCEPT ![w] = Tail(r)]
      /\ Tail(r) \in Seq(Result)
      /\ main = "loop"
      /\ UNCHANGED arguments /\ turn' = turn /\ pos' = pos /\ idx' = idx
      /\ batch' = batch /\ working' = working
  BY <1>1, ReceiveDoes DEF stream
<1>3. /\ Arguments' /\ Names' = Names /\ Workers' = Workers /\ (Trouble' <=> Trouble)
      /\ mode' = mode /\ numWorkers' = numWorkers /\ batchSize' = batchSize
      /\ dropLast' = dropLast /\ loadTargets' = loadTargets
      /\ split' = split /\ unreadable' = unreadable
  BY <1>1, <1>2, ArgumentsFixed
<1>4. /\ Names \in Seq(Datasets) /\ numWorkers \in Nat /\ Workers = WorkersOf(numWorkers)
  BY <1>1, WorkersAre
<1>5. /\ \A v \in Workers : /\ batch[v] \in Seq(AllExamples) /\ results[v] \in Seq(Result)
                            /\ Placed(batch[v], results[v], delivered, due(v))
                            /\ due(v) \in SUBSET AllExamples
      /\ delivered \in [AllExamples -> Nat]
  BY <1>1 DEF Types, PlaceInv, Due
<1>6. /\ \A k, l \in 1 .. Len(x) : x[k] = x[l] => k = l
      /\ \A k \in 1 .. Len(x) : x[k] \in due(w) /\ delivered[x[k]] = 0
      /\ Placed(batch[w], Tail(r), new, due(w))
  BY <1>2, <1>5, PlacedReceived
<1>7. Missing(batch[w], Tail(r), new, due(w)) \subseteq Missing(batch[w], r, delivered, due(w))
  BY <1>2, <1>5, MissingReceived
<1>8. /\ new \in [AllExamples -> Nat]
      /\ \A k \in 1 .. Len(x) : new[x[k]] = delivered[x[k]] + 1
      /\ \A e \in AllExamples : (\A k \in 1 .. Len(x) : x[k] # e) => new[e] = delivered[e]
      /\ \A e \in AllExamples : new[e] = 0 => delivered[e] = 0
  BY <1>2, <1>5, <1>6, AddedOnce
<1>9. \A k \in 1 .. Len(x) : x[k] \in AllExamples
  BY <1>2
<1> HIDE DEF new, x
<1>10. ASSUME NEW v \in Workers, v # w
       PROVE  Placed(batch[v], results[v], new, due(v))
  <2>1. ASSUME NEW e \in due(v) PROVE new[e] = delivered[e]
    <3>1. ASSUME NEW k \in 1 .. Len(x), x[k] = e PROVE FALSE
      <4>1. e \in due(w) /\ e \in due(v)
        BY <1>6, <2>1, <3>1
      <4>2. v = w
        BY <1>4, <4>1, DueApart
      <4> QED BY <1>10, <4>2
    <3> QED BY <1>5, <1>8, <2>1, <3>1
  <2> QED BY <1>5, <2>1, PlacedElsewhere
<1>11. \A v \in Workers : Missing(batch[v], results[v], new, due(v)) \subseteq Missing(batch[v], results[v], delivered, due(v))
  BY <1>5, <1>8, MissingElsewhere
<1>12. results'[w] = Tail(r) /\ \A v \in Workers : v # w => results'[v] = results[v]
  BY <1>1, <1>2 DEF Types
<1>13. Types'
  BY <1>1, <1>2, <1>3, <1>8 DEF Types
<1>14. OrderInv' /\ ReadInv'
  BY <1>1, <1>2, <1>3 DEF OrderInv, ReadInv
<1>15. PlaceInv'
  <2>1. \A v \in Workers : Placed(batch[v], results'[v], new, due(v))
    BY <1>6, <1>10, <1>12
  <2> QED BY <1>2, <1>3, <2>1 DEF PlaceInv
<1>16. GotInv'
  <2>1. ASSUME NEW e \in AllExamples
        PROVE  new[e] <= 1 /\ (new[e] # 0 => \E v \in Workers : e \in due(v))
    <3>1. CASE \E k \in 1 .. Len(x) : x[k] = e
      <4>1. PICK k \in 1 .. Len(x) : x[k] = e
        BY <3>1
      <4>2. new[e] = 1 /\ e \in due(w)
        BY <1>6, <1>8, <4>1
      <4> QED BY <4>2
    <3>2. CASE \A k \in 1 .. Len(x) : x[k] # e
      BY <1>1, <1>8, <3>2 DEF GotInv
    <3> QED BY <3>1, <3>2
  <2> QED BY <1>2, <1>3, <2>1 DEF GotInv
<1>17. main' # "raised" => r[1].kind # "error"
  BY <1>2
<1>18. KeptInv'
  <2>1. \A v \in Workers : Limit(dropLast, working[v], batchSize) \in Nat
    BY <1>1, LimitIs DEF Types
  <2>2. ASSUME NEW v \in Workers, NoError(main', results'[v])
        PROVE  Kept(batch[v], results'[v], new, due(v), Limit(dropLast, working[v], batchSize))
    <3>1. CASE v = w
      <4>1. NoError(main, r)
        BY <1>2, <1>12, <1>17, <2>2, <3>1, NoErrorTail
      <4>2. Kept(batch[w], r, delivered, due(w), Limit(dropLast, working[w], batchSize))
        BY <1>1, <4>1 DEF KeptInv
      <4>3. Kept(batch[w], Tail(r), new, due(w), Limit(dropLast, working[w], batchSize))
        BY <1>7, <2>1, <4>2, KeptStill
      <4> QED BY <1>12, <3>1, <4>3
    <3>2. CASE v # w
      <4>1. NoError(main, results[v])
        BY <1>2, <1>12, <2>2, <3>2 DEF NoError
      <4>2. Kept(batch[v], results[v], delivered, due(v), Limit(dropLast, working[v], batchSize))
        BY <1>1, <4>1 DEF KeptInv
      <4>3. Kept(batch[v], results[v], new, due(v), Limit(dropLast, working[v], batchSize))
        BY <1>11, <2>1, <4>2, KeptStill
      <4> QED BY <1>12, <3>2, <4>3
    <3> QED BY <3>1, <3>2
  <2> QED BY <1>2, <1>3, <2>2 DEF KeptInv
<1>19. EndInv'
  <2>1. ASSUME NEW v \in Workers, ~working[v]
        PROVE  batch[v] = <<>> /\ (NoError(main', results'[v]) => turn[v] = <<>>)
    <3>1. ASSUME NoError(main', results'[v]) PROVE NoError(main, results[v])
      <4>1. CASE v = w
        BY <1>2, <1>12, <1>17, <3>1, <4>1, NoErrorTail
      <4>2. CASE v # w
        BY <1>2, <1>12, <3>1, <4>2 DEF NoError
      <4> QED BY <4>1, <4>2
    <3> QED BY <1>1, <2>1, <3>1 DEF EndInv
  <2> QED BY <1>2, <1>3, <2>1 DEF EndInv
<1>20. TroubleInv'
  <2>1. Honest(r)
    BY <1>1 DEF TroubleInv
  <2>2. /\ Honest(Tail(r)) /\ (r[1].kind = "error" => Trouble)
        /\ loadTargets => \A k \in 1 .. Len(x) : Targets[x[k]] # NoTargets
    BY <1>2, <2>1, HonestTail DEF x
  <2>3. main' = "raised" => Trouble
    BY <1>2, <2>2
  <2>4. \A v \in Workers : Honest(results'[v])
    BY <1>1, <1>12, <2>2 DEF TroubleInv
  <2>5. \A v \in Workers' : Honest(results[v])'
    BY <1>3, <2>4 DEF Honest
  <2>6. loadTargets => \A e \in AllExamples : new[e] # 0 => Targets[e] # NoTargets
    BY <1>1, <1>8, <2>2 DEF TroubleInv
  <2> QED BY <1>2, <1>3, <2>3, <2>5, <2>6 DEF TroubleInv
<1>21. DoneInv'
  BY <1>2 DEF DoneInv
<1> QED BY <1>3, <1>13, <1>14, <1>15, <1>16, <1>18, <1>19, <1>20, <1>21 DEF LoaderInv

LEMMA EndEpochKeeps == LoaderInv /\ EndEpoch => LoaderInv'
<1> SUFFICES ASSUME LoaderInv, EndEpoch PROVE LoaderInv'
  OBVIOUS
<1>1. /\ Arguments /\ Types /\ OrderInv /\ ReadInv /\ PlaceInv /\ GotInv /\ KeptInv
      /\ EndInv /\ TroubleInv /\ DoneInv
  BY DEF LoaderInv
<1>2. /\ main = "loop" /\ main' = "done" /\ \A w \in Workers : ~working[w] /\ results[w] = <<>>
      /\ UNCHANGED arguments /\ turn' = turn /\ pos' = pos /\ idx' = idx /\ batch' = batch
      /\ results' = results /\ working' = working /\ delivered' = delivered
  BY DEF EndEpoch, stream
<1>3. /\ Arguments' /\ Names' = Names /\ Workers' = Workers /\ (Trouble' <=> Trouble)
      /\ mode' = mode /\ numWorkers' = numWorkers /\ batchSize' = batchSize
      /\ dropLast' = dropLast /\ loadTargets' = loadTargets
      /\ split' = split /\ unreadable' = unreadable
  BY <1>1, <1>2, ArgumentsFixed
<1>4. \A r : NoError(main', r) <=> NoError(main, r)
  BY <1>2 DEF NoError
<1>5. Types'
  BY <1>1, <1>2, <1>3 DEF Types
<1>6. OrderInv' /\ ReadInv' /\ PlaceInv' /\ GotInv'
  BY <1>1, <1>2, <1>3 DEF OrderInv, ReadInv, PlaceInv, GotInv
<1>7. KeptInv'
  <2>1. \A w \in Workers : NoError(main', results[w]) =>
          Kept(batch[w], results[w], delivered, Due(Names, mode, numWorkers, w, pos[w]),
               Limit(dropLast, working[w], batchSize))
    BY <1>1, <1>4 DEF KeptInv
  <2> QED BY <1>2, <1>3, <2>1 DEF KeptInv
<1>8. EndInv'
  <2>1. \A w \in Workers : ~working[w] => batch[w] = <<>> /\ (NoError(main', results[w]) => turn[w] = <<>>)
    BY <1>1, <1>4 DEF EndInv
  <2> QED BY <1>2, <1>3, <2>1 DEF EndInv
<1>9. TroubleInv'
  <2>1. main' # "raised"
    BY <1>2
  <2>2. \A w \in Workers' : Honest(results[w])'
    BY <1>1, <1>2, <1>3 DEF TroubleInv, Honest
  <2> QED BY <1>1, <1>2, <1>3, <2>1, <2>2 DEF TroubleInv
<1>10. DoneInv'
  BY <1>2, <1>3 DEF DoneInv
<1> QED BY <1>3, <1>5, <1>6, <1>7, <1>8, <1>9, <1>10 DEF LoaderInv

LEMMA StutterKeeps == LoaderInv /\ UNCHANGED vars => LoaderInv'
<1> SUFFICES ASSUME LoaderInv, UNCHANGED vars PROVE LoaderInv'
  OBVIOUS
<1>1. /\ Arguments /\ Types /\ OrderInv /\ ReadInv /\ PlaceInv /\ GotInv /\ KeptInv
      /\ EndInv /\ TroubleInv /\ DoneInv
  BY DEF LoaderInv
<1>2. /\ UNCHANGED arguments /\ turn' = turn /\ pos' = pos /\ idx' = idx /\ batch' = batch
      /\ results' = results /\ working' = working /\ delivered' = delivered /\ main' = main
  BY DEF vars, stream
<1>3. /\ Arguments' /\ Names' = Names /\ Workers' = Workers /\ (Trouble' <=> Trouble)
      /\ mode' = mode /\ numWorkers' = numWorkers /\ batchSize' = batchSize
      /\ dropLast' = dropLast /\ loadTargets' = loadTargets
      /\ split' = split /\ unreadable' = unreadable
  BY <1>1, <1>2, ArgumentsFixed
<1>4. Types'
  BY <1>1, <1>2, <1>3 DEF Types
<1>5. OrderInv' /\ ReadInv' /\ PlaceInv' /\ GotInv' /\ KeptInv'
  BY <1>1, <1>2, <1>3 DEF OrderInv, ReadInv, PlaceInv, GotInv, KeptInv
<1>6. EndInv' /\ DoneInv'
  BY <1>1, <1>2, <1>3 DEF EndInv, DoneInv
<1>7. TroubleInv'
  <2>1. \A w \in Workers' : Honest(results[w])'
    BY <1>1, <1>2, <1>3 DEF TroubleInv, Honest
  <2> QED BY <1>1, <1>2, <1>3, <2>1 DEF TroubleInv
<1> QED BY <1>3, <1>4, <1>5, <1>6, <1>7 DEF LoaderInv

LEMMA InitKeeps == Init => LoaderInv
<1> SUFFICES ASSUME Init PROVE LoaderInv
  OBVIOUS
<1> DEFINE none == [d \in Datasets |-> 0]
<1>1. Arguments
  BY LoaderAssumption DEF Init, Arguments
<1>2. Names \in Seq(Datasets) /\ IsInjective(Names) /\ Workers = WorkersOf(numWorkers)
  BY <1>1, WorkersAre
<1>3. /\ main = "loop" /\ delivered = [e \in AllExamples |-> 0]
      /\ \A w \in Workers : /\ turn[w] = Names /\ pos[w] = none /\ idx[w] = 0
                            /\ batch[w] = <<>> /\ results[w] = <<>> /\ working[w] = TRUE
  BY DEF Init
<1>4. 1 .. Len(<<>>) = {} /\ <<>> \in Seq(AllExamples) /\ <<>> \in Seq(Result) /\ Len(<<>>) = 0
  OBVIOUS
<1>5. none \in [Datasets -> Nat]
  OBVIOUS
<1>6. Types
  BY <1>2, <1>4 DEF Init, Types
<1>7. OrderInv
  <2>1. InStream(Names, mode, Names, none) /\ AllRead(Names, none) = 0
    BY <1>2, StreamStarts
  <2> HIDE DEF none
  <2> QED BY <1>3, <2>1 DEF OrderInv
<1>8. ReadInv
  <2>1. \A d \in ToSet(Names) : none[d] = 0
    BY <1>2 DEF ToSet
  <2> HIDE DEF none
  <2>2. \A d \in ToSet(Names) : (\A k \in 1 .. none[d] : FALSE) /\ ~(none[d] > 0)
    BY <2>1
  <2>3. WasReadable(Names, split, unreadable, Names, none)
    BY <2>2 DEF WasReadable
  <2> QED BY <1>3, <2>3 DEF ReadInv
<1>9. \A w : Due(Names, mode, numWorkers, w, none) = {}
  BY <1>2, DueStart
<1> HIDE DEF none
<1>10. PlaceInv
  BY <1>3, <1>4 DEF PlaceInv, Placed
<1>11. GotInv
  BY <1>3 DEF GotInv
<1>12. KeptInv
  <2>1. \A w \in Workers : Missing(batch[w], results[w], delivered, Due(Names, mode, numWorkers, w, pos[w])) = {}
    BY <1>3, <1>9 DEF Missing
  <2>2. \A w \in Workers : Limit(dropLast, working[w], batchSize) = 0
    BY <1>3 DEF Limit
  <2>3. ASSUME NEW b, NEW r, NEW got, NEW due, Missing(b, r, got, due) = {} PROVE Kept(b, r, got, due, 0)
    <3>1. Len(<<>>) <= 0 /\ <<>> \in Seq(AllExamples)
      BY <1>4
    <3>2. \A e \in Missing(b, r, got, due) : \E k \in 1 .. Len(<<>>) : <<>>[k] = e
      BY <2>3
    <3> QED BY <3>1, <3>2, Zenon DEF Kept
  <2> QED BY <2>1, <2>2, <2>3 DEF KeptInv
<1>13. EndInv /\ DoneInv
  BY <1>3 DEF EndInv, DoneInv
<1>14. TroubleInv
  BY <1>3, <1>4 DEF TroubleInv, Honest
<1> QED BY <1>1, <1>6, <1>7, <1>8, <1>10, <1>11, <1>12, <1>13, <1>14 DEF LoaderInv

\* The invariant holds in every state of every epoch.
THEOREM LoaderIsConsistent == Spec => []LoaderInv
<1>1. LoaderInv /\ [Next]_vars => LoaderInv'
  <2> SUFFICES ASSUME LoaderInv, [Next]_vars PROVE LoaderInv'
    OBVIOUS
  <2>1. ASSUME NEW w \in Workers, Take(w) PROVE LoaderInv'
    BY <2>1, TakeKeeps
  <2>2. ASSUME NEW w \in Workers, Exhaust(w) PROVE LoaderInv'
    BY <2>2, ExhaustKeeps
  <2>3. ASSUME NEW w \in Workers, ReadFails(w) PROVE LoaderInv'
    BY <2>3, ReadFailsHands, HandedKeeps
  <2>4. ASSUME NEW w \in Workers, SendBatch(w) PROVE LoaderInv'
    BY <2>4, SendBatchHands, HandedKeeps
  <2>5. ASSUME NEW w \in Workers, EndStream(w) PROVE LoaderInv'
    BY <2>5, EndStreamHands, HandedKeeps
  <2>6. ASSUME NEW w \in Workers, Receive(w) PROVE LoaderInv'
    BY <2>6, ReceiveKeeps
  <2>7. CASE EndEpoch
    BY <2>7, EndEpochKeeps
  <2>8. CASE UNCHANGED vars
    BY <2>8, StutterKeeps
  <2> QED BY <2>1, <2>2, <2>3, <2>4, <2>5, <2>6, <2>7, <2>8 DEF Next, Finished
<1> QED BY <1>1, InitKeeps, PTL DEF Spec

-----------------------------------------------------------------------------
(* The theorems.                                                               *)

\* Workers that read on their own, each as fast as it can, never train on an example
\* twice in one epoch, also when a dataset is named twice: every position of the
\* stream belongs to one worker, which reads it once and sends it once.
THEOREM DeliversOnce == Spec => []DeliveredOnce
<1>1. LoaderInv => DeliveredOnce
  BY DEF LoaderInv, GotInv, DeliveredOnce
<1> QED BY <1>1, LoaderIsConsistent, PTL

\* Whatever dataset's turn it is, no other has yielded less.
LEMMA TurnsAreBalanced ==
    ASSUME NEW names \in Seq(Datasets), IsInjective(names), NEW t, NEW p,
           InStream(names, "round_robin", t, p), NEW d \in ToSet(t), NEW other \in ToSet(names)
    PROVE  /\ other \in ToSet(t) => p[other] <= p[d] + 1
           /\ other \notin ToSet(t) => p[other] <= p[d]
<1> DEFINE rank == RankIn(names)
<1>1. Setting(rank, Size) /\ DOMAIN rank = ToSet(names)
  BY RankSetting
<1>2. InTurn(rank, Size, TRUE, t, p)
  BY DEF InStream
<1> HIDE DEF rank
<1>3. /\ t \in Seq(DOMAIN rank) /\ p \in [Datasets -> Nat]
      /\ \A i, k \in 1 .. Len(t) : i < k => Ahead(rank, TRUE, p, t[i], t[k])
      /\ \A i \in 1 .. Len(t) : Near(rank, TRUE, p, t[1], t[i])
      /\ \A c \in DOMAIN rank : \/ \E i \in 1 .. Len(t) : t[i] = c
                                \/ t # <<>> => Ahead(rank, TRUE, p, c, t[1])
  BY <1>2 DEF InTurn
<1>4. PICK i \in 1 .. Len(t) : t[i] = d
  BY <1>3 DEF ToSet
<1>5. 1 \in 1 .. Len(t) /\ t # <<>> /\ t[1] \in DOMAIN rank /\ d \in DOMAIN rank /\ other \in DOMAIN rank
  BY <1>1, <1>3, <1>4
<1>6. \A c \in DOMAIN rank : c \in Datasets /\ rank[c] \in Nat
  BY <1>1 DEF Setting
<1>7. p[t[1]] \in Nat /\ p[d] \in Nat /\ p[other] \in Nat
  BY <1>3, <1>5, <1>6
<1>8. p[t[1]] <= p[d]
  <2>1. Near(rank, TRUE, p, t[1], d)
    BY <1>3, <1>4
  <2> QED BY <1>7, <2>1 DEF Near
<1>9. ASSUME other \in ToSet(t) PROVE p[other] <= p[d] + 1
  <2>1. PICK k \in 1 .. Len(t) : t[k] = other
    BY <1>3, <1>9 DEF ToSet
  <2>2. Near(rank, TRUE, p, t[1], other)
    BY <1>3, <2>1
  <2>3. p[other] <= p[t[1]] + 1
    BY <1>7, <2>2 DEF Near
  <2> QED BY <1>7, <1>8, <2>3
<1>10. ASSUME other \notin ToSet(t) PROVE p[other] <= p[d]
  <2>1. ~ \E k \in 1 .. Len(t) : t[k] = other
    BY <1>3, <1>10 DEF ToSet
  <2>2. Ahead(rank, TRUE, p, other, t[1])
    BY <1>3, <1>5, <2>1
  <2>3. p[other] <= p[t[1]]
    BY <1>7, <2>2 DEF Ahead
  <2> QED BY <1>7, <1>8, <2>3
<1> QED BY <1>9, <1>10

\* round_robin takes the datasets in turn: those not exhausted are never more than one
\* example apart, and no exhausted one is ahead.
THEOREM RoundRobinIsFair == Spec => []RoundRobinBalance
<1>1. LoaderInv => RoundRobinBalance
  <2> SUFFICES ASSUME LoaderInv, mode = "round_robin",
                      NEW w \in Workers, NEW d \in ToSet(turn[w]), NEW other \in ToSet(Names)
               PROVE  /\ other \in ToSet(turn[w]) => pos[w][other] <= pos[w][d] + 1
                      /\ other \notin ToSet(turn[w]) => pos[w][other] <= pos[w][d]
    BY DEF RoundRobinBalance
  <2>1. Names \in Seq(Datasets) /\ IsInjective(Names)
    BY WorkersAre DEF LoaderInv
  <2>2. InStream(Names, "round_robin", turn[w], pos[w])
    BY DEF LoaderInv, OrderInv
  <2> QED BY <2>1, <2>2, TurnsAreBalanced
<1> QED BY <1>1, LoaderIsConsistent, PTL

\* A worker that came to the end of its stream has read every line of it.
LEMMA ReadIsReadable ==
    ASSUME LoaderInv, NEW w \in Workers, turn[w] = <<>>
    PROVE  Faulty = {}
<1>1. /\ Names \in Seq(Datasets) /\ IsInjective(Names) /\ InStream(Names, mode, turn[w], pos[w])
      /\ WasReadable(Names, split, unreadable, turn[w], pos[w])
  BY WorkersAre DEF LoaderInv, OrderInv, ReadInv
<1>2. ToSet(turn[w]) = {}
  BY DEF ToSet
<1>3. \A d \in ToSet(Names) : d \in Datasets /\ pos[w][d] = Size[d] /\ Size[d] \in Nat
  BY <1>1, <1>2, StreamOf
<1>4. ASSUME NEW d \in ToSet(Names), d \in Faulty PROVE FALSE
  <2>1. ~(d \in TrainOnly /\ split # "train") /\ <<d, Size[d] + 1>> \notin unreadable
    BY <1>1, <1>2 DEF WasReadable
  <2>2. \A k \in 1 .. Size[d] : <<d, k>> \notin unreadable
    BY <1>1, <1>3 DEF WasReadable
  <2>3. Len(Examples(d)) = Size[d]
    BY <1>3 DEF Size
  <2>4. PICK k \in 1 .. (Size[d] + 1) : <<d, k>> \in unreadable
    BY <1>4, <2>1, <2>3 DEF Faulty
  <2>5. k \in 1 .. Size[d] \/ k = Size[d] + 1
    BY <1>3
  <2> QED BY <2>1, <2>2, <2>4, <2>5
<1> QED BY <1>4 DEF Faulty

\* An error of a worker reaches the training loop, and the loop fails for no other reason;
\* no example comes without the targets that were asked for.
THEOREM ErrorsAreTold == Spec => []FaultsSurface
<1>1. LoaderInv => FaultsSurface
  <2> SUFFICES ASSUME LoaderInv PROVE FaultsSurface
    OBVIOUS
  <2>1. main = "done" => Faulty = {}
    <3> SUFFICES ASSUME main = "done" PROVE Faulty = {}
      OBVIOUS
    <3>1. PICK w \in Workers : TRUE
      <4>1. Workers = WorkersOf(numWorkers) /\ numWorkers \in Nat
        BY WorkersAre DEF LoaderInv
      <4>2. 0 \in Workers
        BY <4>1 DEF WorkersOf
      <4> QED BY <4>2
    <3>2. ~working[w] /\ results[w] = <<>>
      BY DEF LoaderInv, DoneInv
    <3>3. NoError(main, results[w])
      BY <3>2 DEF NoError
    <3>4. turn[w] = <<>>
      BY <3>2, <3>3 DEF LoaderInv, EndInv
    <3> QED BY <3>4, ReadIsReadable
  <2>2. main = "raised" => Trouble
    BY DEF LoaderInv, TroubleInv
  <2>3. loadTargets => \A e \in AllExamples : delivered[e] > 0 => Targets[e] # NoTargets
    BY DEF LoaderInv, TroubleInv, Types
  <2> QED BY <2>1, <2>2, <2>3, Zenon DEF FaultsSurface, Trouble
<1> QED BY <1>1, LoaderIsConsistent, PTL

\* As many as the positions of a sequence that lists them, at most.
LEMMA ListedCount ==
    ASSUME NEW T, NEW s \in Seq(T), NEW S, \A e \in S : \E k \in 1 .. Len(s) : s[k] = e
    PROVE  IsFiniteSet(S) /\ Cardinality(S) \in Nat /\ Cardinality(S) <= Len(s)
<1> DEFINE R == {s[k] : k \in 1 .. Len(s)}
           f == [k \in 1 .. Len(s) |-> s[k]]
           n == Len(s)
<1>1. n \in Nat
  OBVIOUS
<1> HIDE DEF n
<1>2. IsFiniteSet(1 .. n) /\ Cardinality(1 .. n) = n
  BY <1>1, FS_Interval
<1>3. f \in Surjection(1 .. n, R)
  BY DEF Surjection, n
<1> HIDE DEF f
<1>4. IsFiniteSet(R) /\ Cardinality(R) <= n
  BY <1>2, <1>3, FS_Surjection
<1>5. S \in SUBSET R
  BY DEF n
<1> HIDE DEF R
<1>6. IsFiniteSet(S) /\ Cardinality(S) <= Cardinality(R)
  BY <1>4, <1>5, FS_Subset
<1>7. Cardinality(S) \in Nat /\ Cardinality(R) \in Nat
  BY <1>4, <1>6, FS_CardinalityType
<1> QED BY <1>1, <1>4, <1>6, <1>7 DEF n

Below(M, k) == UNION {M[i] : i \in 0 .. k - 1}

\* n sets of at most max elements have at most n * max together.
LEMMA UnionCount ==
    ASSUME NEW n \in Nat, NEW max \in Nat, NEW M,
           \A i \in 0 .. n - 1 : IsFiniteSet(M[i]) /\ Cardinality(M[i]) <= max
    PROVE  IsFiniteSet(Below(M, n)) /\ Cardinality(Below(M, n)) <= n * max
<1> DEFINE Bad == {k \in Nat : k <= n /\ ~(IsFiniteSet(Below(M, k)) /\ Cardinality(Below(M, k)) <= k * max)}
<1>1. SUFFICES ASSUME Bad # {} PROVE FALSE
  OBVIOUS
<1>2. PICK k \in Bad : \A m \in Bad : k <= m
  BY <1>1, Least
<1>3. k # 0
  <2>1. Below(M, 0) = {}
    BY DEF Below
  <2>2. IsFiniteSet({}) /\ Cardinality({}) = 0
    BY FS_EmptySet
  <2>3. 0 * max = 0
    OBVIOUS
  <2> QED BY <2>1, <2>2, <2>3
<1>4. PICK j \in Nat : k = j + 1
  <2>1. k - 1 \in Nat /\ k = (k - 1) + 1
    BY <1>3
  <2> QED BY <2>1
<1>5. j \notin Bad /\ j <= n /\ j \in 0 .. n - 1
  <2>1. ~(k <= j) /\ k <= n
    BY <1>4
  <2> QED BY <1>2, <1>4, <2>1
<1>6. IsFiniteSet(Below(M, j)) /\ Cardinality(Below(M, j)) <= j * max
  BY <1>5
<1>7. IsFiniteSet(M[j]) /\ Cardinality(M[j]) <= max
  BY <1>5
<1>8. Below(M, k) = Below(M, j) \cup M[j]
  <2>1. \A i \in 0 .. k - 1 : i \in 0 .. j - 1 \/ i = j
    BY <1>4
  <2>2. j \in 0 .. k - 1 /\ \A i \in 0 .. j - 1 : i \in 0 .. k - 1
    BY <1>4
  <2> QED BY <2>1, <2>2 DEF Below
<1>9. /\ IsFiniteSet(Below(M, j) \cup M[j]) /\ IsFiniteSet(Below(M, j) \cap M[j])
      /\ Cardinality(Below(M, j) \cup M[j]) =
           Cardinality(Below(M, j)) + Cardinality(M[j]) - Cardinality(Below(M, j) \cap M[j])
  <2>1. Below(M, j) \cap M[j] \in SUBSET M[j]
    OBVIOUS
  <2> QED BY <1>6, <1>7, <2>1, FS_Union, FS_Subset
<1>10. PICK a \in Nat, b \in Nat, c \in Nat, u \in Nat :
         /\ a = Cardinality(Below(M, j)) /\ b = Cardinality(M[j])
         /\ c = Cardinality(Below(M, j) \cap M[j]) /\ u = Cardinality(Below(M, j) \cup M[j])
  BY <1>6, <1>7, <1>9, FS_CardinalityType
<1>11. a <= j * max /\ b <= max /\ u = a + b - c
  BY <1>6, <1>7, <1>9, <1>10
<1>12. u <= j * max + max
  <2>1. PICK x \in Nat : x = j * max
    OBVIOUS
  <2> QED BY <1>11, <2>1
<1>13. k * max = j * max + max
  BY <1>4
<1>14. Cardinality(Below(M, k)) <= k * max /\ IsFiniteSet(Below(M, k))
  BY <1>8, <1>9, <1>10, <1>12, <1>13
<1> QED BY <1>2, <1>14

\* Every example that was asked for is due to a worker that has read everything.
LEMMA RequestedIsDue ==
    ASSUME LoaderInv, \A w \in Workers : turn[w] = <<>>, NEW e \in Requested
    PROVE  \E w \in Workers : e \in Due(Names, mode, numWorkers, w, pos[w])
<1>1. /\ Names \in Seq(Datasets) /\ IsInjective(Names) /\ Workers = WorkersOf(numWorkers) /\ numWorkers \in Nat
  BY WorkersAre DEF LoaderInv
<1>2. PICK d \in ToSet(Names) : e \in ToSet(Examples(d))
  BY DEF Requested
<1>3. d \in Datasets
  BY <1>1, <1>2 DEF ToSet
<1>4. /\ Size[d] \in Nat /\ Size[d] = Len(Examples(d)) /\ DOMAIN Examples(d) = 1 .. Size[d]
  BY <1>3, ExamplesOf DEF Size
<1>5. PICK j \in 1 .. Size[d] : Examples(d)[j] = e
  BY <1>2, <1>4 DEF ToSet
<1>6. PICK w \in WorkersOf(numWorkers) :
        \A p : j \in 1 .. p[d] => Examples(d)[j] \in Due(Names, mode, numWorkers, w, p)
  BY <1>1, DueToOne
<1>7. pos[w][d] = Size[d]
  <2>1. InStream(Names, mode, turn[w], pos[w]) /\ turn[w] = <<>>
    BY <1>1, <1>6 DEF LoaderInv, OrderInv
  <2>2. ToSet(turn[w]) = {}
    BY <2>1 DEF ToSet
  <2> QED BY <1>1, <2>1, <2>2, StreamOf
<1> QED BY <1>1, <1>5, <1>6, <1>7

\* When the epoch is done, every worker has come to the end of the stream, and all it has
\* not sent is nowhere.
LEMMA DoneMeans ==
    ASSUME LoaderInv, main = "done", NEW w \in Workers
    PROVE  /\ turn[w] = <<>> /\ batch[w] = <<>> /\ results[w] = <<>> /\ working[w] = FALSE
           /\ Kept(<<>>, <<>>, delivered, Due(Names, mode, numWorkers, w, pos[w]),
                   Limit(dropLast, FALSE, batchSize))
<1>1. working[w] = FALSE /\ results[w] = <<>>
  BY DEF LoaderInv, DoneInv, Types
<1>2. NoError(main, results[w])
  BY <1>1 DEF NoError
<1>3. turn[w] = <<>> /\ batch[w] = <<>>
  BY <1>1, <1>2 DEF LoaderInv, EndInv
<1>4. Kept(batch[w], results[w], delivered, Due(Names, mode, numWorkers, w, pos[w]),
           Limit(dropLast, working[w], batchSize))
  BY <1>2 DEF LoaderInv, KeptInv
<1> QED BY <1>1, <1>3, <1>4

LEMMA WorkerCount ==
    ASSUME NEW n \in Nat
    PROVE  \E c \in Nat : /\ WorkersOf(n) = 0 .. c - 1 /\ Cardinality(WorkersOf(n)) = c
<1>1. CASE n = 0
  <2>1. WorkersOf(n) = {0} /\ WorkersOf(n) = 0 .. 1 - 1
    BY <1>1 DEF WorkersOf
  <2>2. Cardinality({0}) = 1
    BY FS_Singleton
  <2> QED BY <2>1, <2>2
<1>2. CASE n # 0
  <2>1. WorkersOf(n) = 0 .. n - 1
    BY <1>2 DEF WorkersOf
  <2>2. Cardinality(0 .. n - 1) = n
    <3>1. 0 \in Int /\ n - 1 \in Int /\ ~(0 > n - 1) /\ (n - 1) - 0 + 1 = n
      BY <1>2
    <3> QED BY <3>1, FS_Interval
  <2> QED BY <2>1, <2>2
<1> QED BY <1>1, <1>2

LEMMA DoneIsComplete == LoaderInv => EpochComplete
<1> SUFFICES ASSUME LoaderInv, main = "done" PROVE EpochComplete
  BY DEF EpochComplete
<1> DEFINE missing == {e \in Requested : delivered[e] = 0}
           due(w) == Due(Names, mode, numWorkers, w, pos[w])
           nowhere(w) == Missing(<<>>, <<>>, delivered, due(w))
           max == Limit(dropLast, FALSE, batchSize)
<1>1. Workers = WorkersOf(numWorkers) /\ numWorkers \in Nat /\ Arguments
  BY WorkersAre DEF LoaderInv
<1>2. \A w \in Workers : turn[w] = <<>> /\ Kept(<<>>, <<>>, delivered, due(w), max)
  BY DoneMeans
<1>3. \A e \in AllExamples \ Requested : delivered[e] = 0
  <2> SUFFICES ASSUME NEW e \in AllExamples, delivered[e] # 0 PROVE e \in Requested
    OBVIOUS
  <2>1. PICK w \in Workers : e \in due(w)
    BY DEF LoaderInv, GotInv
  <2> QED BY <1>1, <2>1, DueRequested
<1>4. \A e \in missing : \E w \in Workers : e \in nowhere(w)
  <2> SUFFICES ASSUME NEW e \in missing PROVE \E w \in Workers : e \in nowhere(w)
    OBVIOUS
  <2>1. PICK w \in Workers : e \in due(w)
    BY <1>2, RequestedIsDue
  <2>2. 1 .. Len(<<>>) = {}
    OBVIOUS
  <2>3. e \in nowhere(w)
    BY <2>1, <2>2 DEF Missing
  <2> QED BY <2>3
<1>5. CASE ~dropLast
  <2>1. max = 0
    BY <1>5 DEF Limit
  <2>2. \A w \in Workers : nowhere(w) = {}
    BY <1>2, <2>1, KeptAll
  <2>3. missing = {}
    BY <1>4, <2>2
  <2> QED BY <1>3, <1>5, <2>3 DEF EpochComplete
<1>6. CASE dropLast
  <2>1. max = batchSize - 1 /\ max \in Nat
    BY <1>1, <1>6 DEF Limit, Arguments
  <2>2. PICK c \in Nat : Workers = 0 .. c - 1 /\ Cardinality(Workers) = c
    BY <1>1, WorkerCount
  <2> DEFINE M == [w \in Workers |-> nowhere(w)]
  <2>3. \A w \in Workers : IsFiniteSet(nowhere(w)) /\ Cardinality(nowhere(w)) <= max
    <3> SUFFICES ASSUME NEW w \in Workers PROVE IsFiniteSet(nowhere(w)) /\ Cardinality(nowhere(w)) <= max
      OBVIOUS
    <3>1. PICK lost \in Seq(AllExamples) :
            Len(lost) <= max /\ \A e \in nowhere(w) : \E k \in 1 .. Len(lost) : lost[k] = e
      BY <1>2, Zenon DEF Kept
    <3> HIDE DEF nowhere, max
    <3>2. IsFiniteSet(nowhere(w)) /\ Cardinality(nowhere(w)) \in Nat /\ Cardinality(nowhere(w)) <= Len(lost)
      BY <3>1, ListedCount
    <3>3. Len(lost) \in Nat
      OBVIOUS
    <3>4. PICK k \in Nat : k = Cardinality(nowhere(w))
      BY <3>2
    <3> QED BY <2>1, <3>1, <3>2, <3>3, <3>4
  <2>4. \A w \in Workers : M[w] = nowhere(w)
    OBVIOUS
  <2> HIDE DEF M, nowhere, max
  <2>5. \A i \in 0 .. c - 1 : IsFiniteSet(M[i]) /\ Cardinality(M[i]) <= max
    BY <2>2, <2>3, <2>4
  <2>6. IsFiniteSet(Below(M, c)) /\ Cardinality(Below(M, c)) <= c * max
    BY <2>1, <2>5, UnionCount
  <2>7. missing \in SUBSET Below(M, c)
    BY <1>4, <2>2, <2>4 DEF Below
  <2> HIDE DEF missing
  <2>8. IsFiniteSet(missing) /\ Cardinality(missing) <= Cardinality(Below(M, c))
    BY <2>6, <2>7, FS_Subset
  <2>9. PICK a \in Nat, b \in Nat : a = Cardinality(missing) /\ b = Cardinality(Below(M, c))
    BY <2>6, <2>8, FS_CardinalityType
  <2>10. PICK x \in Nat : x = c * max
    BY <2>1
  <2>11. Cardinality(missing) <= Cardinality(Workers) * (batchSize - 1)
    BY <2>1, <2>2, <2>6, <2>8, <2>9, <2>10
  <2> QED BY <1>3, <1>6, <2>11 DEF EpochComplete, missing
<1> QED BY <1>5, <1>6

\* An epoch that ends normally has delivered every example of every dataset that was
\* asked for and no other; with drop_last each worker keeps back less than a batch.
THEOREM EpochsAreComplete == Spec => []EpochComplete
BY DoneIsComplete, LoaderIsConsistent, PTL
=============================================================================
