-------------------------- MODULE VxlLegacyProofs --------------------------
(***************************************************************************)
(* Proofs about VxlLegacy, for every number of threads, severities,        *)
(* requests and slots, and whichever crashes and failures occur.           *)
(***************************************************************************)
EXTENDS VxlLegacy, SequenceTheorems, FiniteSetTheorems, WellFoundedInduction, TLAPS

LEMMA LeastNumber ==
  ASSUME NEW T, T \subseteq Nat, T # {}
  PROVE  \E x \in T : \A y \in T : x <= y
<1> DEFINE R == OpToRel(<, Nat)
<1>1. R = {ss \in Nat \X Nat : ss[1] < ss[2]}
  BY DEF OpToRel
<1>2. IsWellFoundedOn(R, Nat)
  BY NatLessThanWellFounded, Zenon
<1>3. PICK x \in T : \A y \in T : ~(<<y, x>> \in R)
  BY <1>2, WFMin
<1>4. \A y \in T : <<y, x>> \in Nat \X Nat
  OBVIOUS
<1>5. \A y \in T : ~(y < x)
  BY <1>1, <1>3, <1>4
<1> QED BY <1>5

-----------------------------------------------------------------------------
(* The total of the counts of a header, a sum over the severities in any   *)
(* order: what is shown of it goes from smaller sets to larger ones.       *)

AnyOf(s) == CHOOSE x \in s : TRUE
SumStep(f, g, s) == IF s = {} THEN 0 ELSE f[AnyOf(s)] + g[s \ {AnyOf(s)}]
IsSum(g, f) == g = [s \in SUBSET Severities |-> SumStep(f, g, s)]
Counts == [Severities -> Nat]

LEMMA Smaller ==
  ASSUME NEW s \in SUBSET Severities
  PROVE  /\ IsFiniteSet(s) /\ Cardinality(s) \in Nat
         /\ s # {} => /\ AnyOf(s) \in s /\ s \ {AnyOf(s)} \in SUBSET Severities
                      /\ Cardinality(s \ {AnyOf(s)}) = Cardinality(s) - 1
                      /\ Cardinality(s \ {AnyOf(s)}) < Cardinality(s)
<1>1. IsFiniteSet(s) /\ Cardinality(s) \in Nat
  BY VxlLegacyAssumption, FS_Subset, FS_CardinalityType
<1>2. ASSUME s # {}
      PROVE  /\ AnyOf(s) \in s /\ Cardinality(s \ {AnyOf(s)}) = Cardinality(s) - 1
  <2>1. AnyOf(s) \in s
    BY <1>2 DEF AnyOf
  <2> QED BY <1>1, <2>1, FS_RemoveElement
<1> QED BY <1>1, <1>2

(* What holds of every set of severities if it passes from smaller to      *)
(* larger ones: Bad are the sets of which it does not hold.                *)
LEMMA SmallestSet ==
  ASSUME NEW Bad, Bad \subseteq SUBSET Severities, Bad # {}
  PROVE  \E s \in Bad : s # {} => s \ {AnyOf(s)} \notin Bad
<1> DEFINE N == {Cardinality(s) : s \in Bad}
<1>1. N \subseteq Nat /\ N # {}
  BY Smaller
<1>2. PICK n \in N : \A m \in N : n <= m
  BY <1>1, LeastNumber
<1>3. PICK s \in Bad : n = Cardinality(s)
  OBVIOUS
<1>4. ASSUME s # {}, s \ {AnyOf(s)} \in Bad PROVE FALSE
  <2>1. Cardinality(s \ {AnyOf(s)}) \in N
    BY <1>4
  <2> QED BY <1>1, <1>2, <1>3, <1>4, <2>1, Smaller
<1> QED BY <1>4

LEMMA SumExists ==
  ASSUME NEW f
  PROVE  \E g : IsSum(g, f)
<1> DEFINE Small(n) == {s \in SUBSET Severities : Cardinality(s) <= n}
           Fits(g, n) == g = [s \in Small(n) |-> SumStep(f, g, s)]
           Missing == {n \in Nat : ~ \E g : Fits(g, n)}
<1>1. Missing = {}
  <2> SUFFICES ASSUME Missing # {} PROVE FALSE
    OBVIOUS
  <2>1. PICK n \in Missing : \A k \in Missing : n <= k
    BY LeastNumber
  <2>2. CASE n = 0
    <3> DEFINE g == [s \in Small(0) |-> 0]
    <3>1. ASSUME NEW s \in Small(0) PROVE s = {}
      <4>1. IsFiniteSet(s) /\ Cardinality(s) \in Nat /\ Cardinality(s) <= 0
        BY Smaller
      <4>2. Cardinality(s) = 0
        BY <4>1
      <4> QED BY <4>1, <4>2, FS_EmptySet
    <3>2. Fits(g, 0)
      BY <3>1 DEF SumStep
    <3> QED BY <2>1, <2>2, <3>2
  <2>3. CASE n # 0
    <3>1. n \in Nat /\ n - 1 \in Nat /\ n - 1 \notin Missing
      <4> HIDE DEF Missing
      <4>1. n \in Nat
        BY <2>1 DEF Missing
      <4> QED BY <2>1, <2>3, <4>1
    <3>2. PICK g : Fits(g, n - 1)
      BY <3>1
    <3> DEFINE h == [s \in Small(n) |-> SumStep(f, g, s)]
    <3>3. ASSUME NEW s \in Small(n) PROVE h[s] = SumStep(f, h, s)
      <4>1. CASE s = {}
        BY <4>1 DEF SumStep
      <4>2. CASE s # {}
        <5> DEFINE r == s \ {AnyOf(s)}
        <5>1. r \in Small(n - 1) /\ r \in Small(n)
          BY Smaller, <3>1, <4>2
        <5>2. g[r] = SumStep(f, g, r) /\ h[r] = SumStep(f, g, r)
          BY <3>2, <5>1
        <5> QED BY <5>2 DEF SumStep
      <4> QED BY <4>1, <4>2
    <3>4. Fits(h, n)
      BY <3>3
    <3> QED BY <2>1, <3>4
  <2> QED BY <2>2, <2>3
<1> DEFINE all == Cardinality(Severities)
<1>2. all \in Nat /\ Small(all) = SUBSET Severities
  BY VxlLegacyAssumption, FS_Subset, FS_CardinalityType
<1>3. PICK g : Fits(g, all)
  BY <1>1, <1>2
<1> QED BY <1>2, <1>3 DEF IsSum

LEMMA TotalIsSum ==
  ASSUME NEW header, header.count \in Counts
  PROVE  \E g : IsSum(g, header.count) /\ Total(header) = g[Severities]
<1> DEFINE f == header.count
           g == CHOOSE g : g = [s \in SUBSET Severities |-> SumStep(f, g, s)]
<1>1. g = [s \in SUBSET Severities |-> SumStep(f, g, s)]
  BY SumExists DEF IsSum
<1>2. DOMAIN f = Severities
  BY DEF Counts
<1>3. Total(header) = g[Severities]
  BY <1>2 DEF Total, FoldFunction, FoldFunctionOnSet, MapThenFoldSet, SumStep, AnyOf
<1> QED BY <1>1, <1>3 DEF IsSum

(* The sums of f are numbers; they are not more than those of a function   *)
(* that is nowhere less, and equal to them only if the functions are.      *)
LEMMA SumsCompare ==
  ASSUME NEW f \in Counts, NEW g, IsSum(g, f), NEW e \in Counts, NEW h, IsSum(h, e),
         \A s \in Severities : f[s] <= e[s], NEW S \in SUBSET Severities
  PROVE  /\ g[S] \in Nat /\ h[S] \in Nat /\ g[S] <= h[S]
         /\ g[S] = h[S] => \A s \in S : f[s] = e[s]
<1> DEFINE Right(s) == /\ g[s] \in Nat /\ h[s] \in Nat /\ g[s] <= h[s]
                       /\ g[s] = h[s] => \A t \in s : f[t] = e[t]
           Bad == {s \in SUBSET Severities : ~Right(s)}
<1> SUFFICES ASSUME Bad # {} PROVE FALSE
  OBVIOUS
<1>1. PICK s \in Bad : s # {} => s \ {AnyOf(s)} \notin Bad
  BY SmallestSet
<1>2. g[s] = SumStep(f, g, s) /\ h[s] = SumStep(e, h, s) /\ s \in SUBSET Severities
  BY DEF IsSum
<1>3. CASE s = {}
  BY <1>2, <1>3 DEF SumStep
<1>4. CASE s # {}
  <2> DEFINE x == AnyOf(s)
             r == s \ {x}
  <2>1. x \in s /\ r \in SUBSET Severities
    BY <1>2, <1>4, Smaller
  <2>2. Right(r)
    BY <1>1, <1>4, <2>1
  <2>3. g[s] = f[x] + g[r] /\ h[s] = e[x] + h[r]
    BY <1>2, <1>4 DEF SumStep
  <2>4. f[x] \in Nat /\ e[x] \in Nat /\ f[x] <= e[x]
    BY <2>1 DEF Counts
  <2> HIDE DEF x
  <2>5. s = r \cup {x}
    BY <2>1
  <2> HIDE DEF r
  <2>6. g[s] \in Nat /\ h[s] \in Nat /\ g[s] <= h[s]
    BY <2>2, <2>3, <2>4
  <2>7. ASSUME g[s] = h[s] PROVE \A t \in s : f[t] = e[t]
    <3>1. f[x] = e[x] /\ g[r] = h[r]
      BY <2>2, <2>3, <2>4, <2>7
    <3> QED BY <2>2, <2>5, <3>1
  <2>8. Right(s)
    BY <2>6, <2>7
  <2> QED BY <2>8
<1> QED BY <1>3, <1>4

(* One more of one severity is one more in the sums with that severity.    *)
LEMMA SumsCount ==
  ASSUME NEW f \in Counts, NEW g, IsSum(g, f), NEW x \in Severities,
         NEW h, IsSum(h, [f EXCEPT ![x] = @ + 1]), NEW S \in SUBSET Severities
  PROVE  h[S] = g[S] + (IF x \in S THEN 1 ELSE 0)
<1> DEFINE e == [f EXCEPT ![x] = @ + 1]
           Right(s) == g[s] \in Nat /\ h[s] = g[s] + (IF x \in s THEN 1 ELSE 0)
           Bad == {s \in SUBSET Severities : ~Right(s)}
<1> SUFFICES ASSUME Bad # {} PROVE FALSE
  OBVIOUS
<1>1. PICK s \in Bad : s # {} => s \ {AnyOf(s)} \notin Bad
  BY SmallestSet
<1>2. g[s] = SumStep(f, g, s) /\ h[s] = SumStep(e, h, s) /\ s \in SUBSET Severities
  BY DEF IsSum
<1>3. CASE s = {}
  BY <1>2, <1>3 DEF SumStep
<1>4. CASE s # {}
  <2> DEFINE y == AnyOf(s)
             r == s \ {y}
  <2>1. y \in s /\ r \in SUBSET Severities /\ y \in Severities
    BY <1>2, <1>4, Smaller
  <2>2. Right(r)
    BY <1>1, <1>4, <2>1
  <2>3. g[s] = f[y] + g[r] /\ h[s] = e[y] + h[r]
    BY <1>2, <1>4 DEF SumStep
  <2> HIDE DEF y
  <2>4. f[y] \in Nat /\ e[y] = f[y] + (IF x = y THEN 1 ELSE 0)
    BY <2>1 DEF Counts
  <2>5. x \in s <=> x \in r \/ x = y
    BY <2>1
  <2>6. ~(x \in r /\ x = y)
    OBVIOUS
  <2> HIDE DEF r, e
  <2>7. Right(s)
    BY <2>2, <2>3, <2>4, <2>5, <2>6
  <2> QED BY <2>7
<1> QED BY <1>3, <1>4

LEMMA TotalType ==
  ASSUME NEW header, header.count \in Counts
  PROVE  Total(header) \in Nat
<1>1. PICK g : IsSum(g, header.count) /\ Total(header) = g[Severities]
  BY TotalIsSum
<1>2. \A s \in Severities : header.count[s] <= header.count[s]
  BY DEF Counts
<1> QED BY <1>1, <1>2, SumsCompare

LEMMA TotalCompare ==
  ASSUME NEW header, header.count \in Counts, NEW other, other.count \in Counts,
         \A s \in Severities : header.count[s] <= other.count[s]
  PROVE  /\ Total(header) <= Total(other)
         /\ Total(header) = Total(other) => header.count = other.count
<1>1. PICK g : IsSum(g, header.count) /\ Total(header) = g[Severities]
  BY TotalIsSum
<1>2. PICK h : IsSum(h, other.count) /\ Total(other) = h[Severities]
  BY TotalIsSum
<1>3. /\ g[Severities] <= h[Severities]
      /\ g[Severities] = h[Severities] => \A s \in Severities : header.count[s] = other.count[s]
  BY <1>1, <1>2, SumsCompare
<1> QED BY <1>1, <1>2, <1>3 DEF Counts

LEMMA TotalCounted ==
  ASSUME NEW header, header.count \in Counts, NEW other, NEW x \in Severities,
         other.count = [header.count EXCEPT ![x] = @ + 1]
  PROVE  /\ other.count \in Counts
         /\ Total(other) = Total(header) + 1
<1>1. other.count \in Counts
  BY DEF Counts
<1>2. PICK g : IsSum(g, header.count) /\ Total(header) = g[Severities]
  BY TotalIsSum
<1>3. PICK h : IsSum(h, other.count) /\ Total(other) = h[Severities]
  BY <1>1, TotalIsSum
<1>4. IsSum(h, [header.count EXCEPT ![x] = @ + 1])
  BY <1>3
<1> DEFINE f == header.count
<1>5. f \in Counts /\ IsSum(g, f) /\ IsSum(h, [f EXCEPT ![x] = @ + 1])
  BY <1>2, <1>4
<1> HIDE DEF f
<1>6. h[Severities] = g[Severities] + 1
  BY <1>5, SumsCount
<1> QED BY <1>1, <1>2, <1>3, <1>6

LEMMA TotalEmpty ==
  ASSUME NEW header, header.count = [s \in Severities |-> 0]
  PROVE  header.count \in Counts /\ Total(header) = 0
<1> DEFINE f == header.count
<1>1. f \in Counts
  BY DEF Counts
<1>2. PICK g : IsSum(g, f) /\ Total(header) = g[Severities]
  BY <1>1, TotalIsSum
<1> DEFINE Bad == {s \in SUBSET Severities : g[s] # 0}
<1> SUFFICES ASSUME Bad # {} PROVE FALSE
  BY <1>1, <1>2
<1>4. PICK s \in Bad : s # {} => s \ {AnyOf(s)} \notin Bad
  BY SmallestSet
<1>5. g[s] = SumStep(f, g, s) /\ s \in SUBSET Severities
  BY <1>2 DEF IsSum
<1>6. CASE s = {}
  BY <1>5, <1>6 DEF SumStep
<1>7. CASE s # {}
  <2>1. AnyOf(s) \in s /\ s \ {AnyOf(s)} \in SUBSET Severities
    BY <1>5, <1>7, Smaller
  <2>2. g[s \ {AnyOf(s)}] = 0 /\ f[AnyOf(s)] = 0
    BY <1>4, <1>7, <2>1
  <2> QED BY <1>5, <1>7, <2>2 DEF SumStep
<1> QED BY <1>6, <1>7

-----------------------------------------------------------------------------
(* One sequence behind the other.                                          *)

FlatStep(s, f, i) == IF i = 1 THEN s[i] ELSE f[i - 1] \o s[i]
IsFlat(f, s, n) == f = [i \in 1 .. n |-> FlatStep(s, f, i)]

LEMMA FlatExists ==
  ASSUME NEW s, NEW n \in Nat
  PROVE  \E f : IsFlat(f, s, n)
<1> DEFINE Missing == {m \in Nat : ~ \E f : IsFlat(f, s, m)}
<1> SUFFICES ASSUME Missing # {} PROVE FALSE
  OBVIOUS
<1>1. PICK m \in Missing : \A k \in Missing : m <= k
  BY LeastNumber
<1>2. CASE m = 0
  <2> DEFINE f == [i \in 1 .. 0 |-> {}]
  <2>1. IsFlat(f, s, 0)
    BY DEF IsFlat
  <2> QED BY <1>1, <1>2, <2>1
<1>3. CASE m # 0
  <2>1. m \in Nat /\ m - 1 \in Nat /\ m - 1 \notin Missing
    <3> HIDE DEF Missing
    <3>1. m \in Nat
      BY <1>1 DEF Missing
    <3> QED BY <1>1, <1>3, <3>1
  <2>2. PICK f : IsFlat(f, s, m - 1)
    BY <2>1
  <2> DEFINE h == [i \in 1 .. m |-> FlatStep(s, f, i)]
  <2>3. \A i \in 1 .. (m - 1) : h[i] = f[i]
    BY <2>1, <2>2 DEF IsFlat
  <2>4. ASSUME NEW i \in 1 .. m PROVE h[i] = FlatStep(s, h, i)
    <3>1. CASE i = 1
      BY <3>1 DEF FlatStep
    <3>2. CASE i # 1
      <4>1. i - 1 \in 1 .. (m - 1)
        BY <2>1, <3>2
      <4> QED BY <2>3, <4>1 DEF FlatStep
    <3> QED BY <3>1, <3>2
  <2>5. IsFlat(h, s, m)
    BY <2>4 DEF IsFlat
  <2> QED BY <1>1, <2>5
<1> QED BY <1>2, <1>3

LEMMA FlatAt ==
  ASSUME NEW f, NEW s, NEW n, IsFlat(f, s, n), NEW j \in 1 .. n
  PROVE  f[j] = FlatStep(s, f, j)
<1> DEFINE g == [i \in 1 .. n |-> FlatStep(s, f, i)]
<1>1. f = g /\ g[j] = FlatStep(s, f, j)
  BY DEF IsFlat
<1> HIDE DEF g
<1> QED BY <1>1

Same(s, t, n) == \A i \in 1 .. n : s[i] = t[i]

LEMMA FlatUnique ==
  ASSUME NEW s, NEW t, NEW m \in Nat, NEW n \in Nat, m <= n, Same(s, t, m),
         NEW f, IsFlat(f, s, m), NEW g, IsFlat(g, t, n), NEW i \in 1 .. m
  PROVE  f[i] = g[i]
<1> DEFINE Bad == {j \in 1 .. m : f[j] # g[j]}
<1> SUFFICES ASSUME Bad # {} PROVE FALSE
  OBVIOUS
<1>1. PICK j \in Bad : \A k \in Bad : j <= k
  <2>1. Bad \subseteq Nat
    OBVIOUS
  <2> QED BY <2>1, LeastNumber
<1>2. f[j] = FlatStep(s, f, j) /\ g[j] = FlatStep(t, g, j) /\ s[j] = t[j]
  <2>1. j \in 1 .. m
    OBVIOUS
  <2> HIDE DEF Bad
  <2>2. j \in 1 .. n
    BY <2>1
  <2> QED BY <2>1, <2>2, FlatAt DEF Same
<1>3. CASE j = 1
  BY <1>2, <1>3 DEF FlatStep
<1>4. CASE j # 1
  <2>1. j - 1 \in 1 .. m /\ j - 1 \notin Bad
    <3>1. j \in 1 .. m
      OBVIOUS
    <3> HIDE DEF Bad
    <3> QED BY <1>1, <1>4, <3>1
  <2>2. f[j - 1] = g[j - 1]
    BY <2>1
  <2> QED BY <1>2, <1>4, <2>2 DEF FlatStep
<1> QED BY <1>3, <1>4

LEMMA FlatType ==
  ASSUME NEW S, NEW s \in Seq(Seq(S)), NEW f, IsFlat(f, s, Len(s)), NEW i \in 1 .. Len(s)
  PROVE  f[i] \in Seq(S)
<1> DEFINE Bad == {j \in 1 .. Len(s) : f[j] \notin Seq(S)}
<1> SUFFICES ASSUME Bad # {} PROVE FALSE
  OBVIOUS
<1>1. PICK j \in Bad : \A k \in Bad : j <= k
  <2>1. Bad \subseteq Nat
    OBVIOUS
  <2> QED BY <2>1, LeastNumber
<1>2. f[j] = FlatStep(s, f, j) /\ s[j] \in Seq(S) /\ j \in 1 .. Len(s)
  <2>1. j \in 1 .. Len(s)
    OBVIOUS
  <2> HIDE DEF Bad
  <2> QED BY <2>1, FlatAt
<1>3. CASE j = 1
  BY <1>2, <1>3 DEF FlatStep
<1>4. CASE j # 1
  <2>1. j - 1 \in 1 .. Len(s) /\ j - 1 \notin Bad
    <3> HIDE DEF Bad
    <3> QED BY <1>1, <1>2, <1>4
  <2>2. f[j - 1] \in Seq(S)
    BY <2>1
  <2>3. f[j - 1] \o s[j] \in Seq(S)
    BY <1>2, <2>2, ConcatProperties
  <2> QED BY <1>2, <1>4, <2>3 DEF FlatStep
<1> QED BY <1>3, <1>4

LEMMA FlattenIs ==
  ASSUME NEW s, Len(s) \in Nat, Len(s) # 0
  PROVE  \E f : IsFlat(f, s, Len(s)) /\ FlattenSeq(s) = f[Len(s)]
<1> DEFINE f == CHOOSE f : f = [i \in 1 .. Len(s) |-> IF i = 1 THEN s[i] ELSE f[i - 1] \o s[i]]
<1>1. f = [i \in 1 .. Len(s) |-> IF i = 1 THEN s[i] ELSE f[i - 1] \o s[i]]
  BY FlatExists DEF IsFlat, FlatStep
<1>2. FlattenSeq(s) = f[Len(s)]
  BY DEF FlattenSeq
<1> HIDE DEF f
<1>3. IsFlat(f, s, Len(s))
  BY <1>1 DEF IsFlat, FlatStep
<1> QED BY <1>2, <1>3

LEMMA FlattenType ==
  ASSUME NEW S, NEW s \in Seq(Seq(S))
  PROVE  FlattenSeq(s) \in Seq(S)
<1>1. CASE Len(s) = 0
  <2>1. s = <<>>
    BY <1>1
  <2> QED BY <1>1, <2>1 DEF FlattenSeq
<1>2. CASE Len(s) # 0
  <2>1. Len(s) \in Nat
    OBVIOUS
  <2>2. PICK f : IsFlat(f, s, Len(s)) /\ FlattenSeq(s) = f[Len(s)]
    BY <1>2, <2>1, FlattenIs
  <2>3. Len(s) \in 1 .. Len(s)
    BY <1>2, <2>1
  <2> QED BY <2>2, <2>3, FlatType
<1> QED BY <1>1, <1>2

LEMMA FlattenAppend ==
  ASSUME NEW S, NEW s \in Seq(Seq(S)), NEW c \in Seq(S)
  PROVE  FlattenSeq(Append(s, c)) = FlattenSeq(s) \o c
<1> DEFINE t == Append(s, c)
           n == Len(s)
<1>1. n \in Nat /\ Len(t) = n + 1 /\ t[n + 1] = c /\ \A i \in 1 .. n : s[i] = t[i]
  OBVIOUS
<1> HIDE DEF t
<1>2. PICK g : IsFlat(g, t, n + 1) /\ FlattenSeq(t) = g[n + 1]
  <2>1. Len(t) \in Nat /\ Len(t) # 0
    BY <1>1
  <2>2. PICK g : IsFlat(g, t, Len(t)) /\ FlattenSeq(t) = g[Len(t)]
    BY <2>1, FlattenIs
  <2> QED BY <1>1, <2>2
<1>3. g[n + 1] = FlatStep(t, g, n + 1)
  BY <1>1, <1>2 DEF IsFlat
<1>4. CASE n = 0
  <2>1. s = <<>> /\ FlattenSeq(s) = <<>>
    BY <1>4 DEF FlattenSeq
  <2>2. FlattenSeq(t) = c
    BY <1>1, <1>2, <1>3, <1>4 DEF FlatStep
  <2> QED BY <2>1, <2>2, ConcatEmptySeq DEF t
<1>5. CASE n # 0
  <2>1. PICK f : IsFlat(f, s, n) /\ FlattenSeq(s) = f[n]
    BY <1>1, <1>5, FlattenIs
  <2>2. f[n] = g[n]
    <3> HIDE DEF n
    <3>1. n \in Nat /\ n \in 1 .. n /\ n <= n + 1 /\ n + 1 \in Nat /\ Same(s, t, n)
      BY <1>1, <1>5 DEF Same
    <3> DEFINE k == n + 1
    <3>2. IsFlat(f, s, n) /\ IsFlat(g, t, k) /\ k \in Nat /\ n <= k
      BY <1>2, <2>1, <3>1
    <3> HIDE DEF k
    <3> QED BY <3>1, <3>2, FlatUnique
  <2>3. g[n + 1] = g[n] \o c
    BY <1>1, <1>3, <1>5 DEF FlatStep
  <2> QED BY <1>2, <2>1, <2>2, <2>3 DEF t
<1> QED BY <1>4, <1>5

-----------------------------------------------------------------------------
(* The cells of an entry, and what a reader makes of them.                 *)

Chars == [char : STRING \cup {"NUL"}]
Cell == [severity : Severities, component : Slots, headerLength : Nat, textLength : Nat] \cup Chars
Entry == [request : Requests, slot : Slots]

LEMMA RequestType ==
  ASSUME NEW r \in Requests
  PROVE  /\ r.severity \in Severities /\ r.component # NoName
         /\ r.text \in Seq(STRING) /\ Len(r.text) \in Nat
         /\ \A i \in 1 .. Len(r.text) : r.text[i] \in STRING /\ r.text[i] # "NUL"
BY VxlLegacyAssumption

(* Where the code splits a text: at the first newline that has two         *)
(* characters before it, if the text has more than four.                   *)
BreaksAt(text, i) == Len(text) > 4 /\ i \in 2 .. (Len(text) - 2) /\ NewlineAt(text, i)

LEMMA SplitCases ==
  ASSUME NEW text \in Seq(STRING)
  PROVE  \/ /\ \A i \in DOMAIN text : ~BreaksAt(text, i)
            /\ Split(text) = [header |-> Len(text) + 1, text |-> 0]
         \/ \E i \in 2 .. (Len(text) - 2) :
              /\ BreaksAt(text, i) /\ \A j \in 1 .. (i - 1) : ~BreaksAt(text, j)
              /\ Split(text) = [header |-> i + 1, text |-> Len(text) + 1 - i - 2]
<1>1. Newlines(text) = {i \in 2 .. (Len(text) - 2) : BreaksAt(text, i)}
  BY DEF Newlines, BreaksAt, NewlineAt
<1>2. CASE Newlines(text) = {}
  <2>1. \A i \in DOMAIN text : ~BreaksAt(text, i)
    BY <1>1, <1>2 DEF BreaksAt
  <2>2. Split(text) = [header |-> Len(text) + 1, text |-> 0]
    BY <1>2 DEF Split
  <2> QED BY <2>1, <2>2
<1>3. CASE Newlines(text) # {}
  <2> DEFINE i == CHOOSE n \in Newlines(text) : \A m \in Newlines(text) : n <= m
  <2>1. Newlines(text) \subseteq Nat
    BY <1>1
  <2>2. PICK n \in Newlines(text) : \A m \in Newlines(text) : n <= m
    BY <1>3, <2>1, LeastNumber
  <2>3. i \in Newlines(text) /\ \A m \in Newlines(text) : i <= m
    BY <2>2
  <2>4. Split(text) = [header |-> i + 1, text |-> Len(text) + 1 - i - 2]
    BY <1>3 DEF Split
  <2> HIDE DEF i
  <2>5. i \in 2 .. (Len(text) - 2) /\ BreaksAt(text, i)
    BY <1>1, <2>3
  <2>6. ASSUME NEW j \in 1 .. (i - 1), BreaksAt(text, j) PROVE FALSE
    <3>1. j \in Newlines(text)
      BY <1>1, <2>6 DEF BreaksAt
    <3> QED BY <2>3, <2>5, <2>6, <3>1
  <2> QED BY <2>4, <2>5, <2>6
<1> QED BY <1>2, <1>3

LEMMA SplitNowhere ==
  ASSUME NEW text \in Seq(STRING), \A i \in DOMAIN text : ~BreaksAt(text, i)
  PROVE  IsSplit(text, text, <<>>)
<1>1. ASSUME NEW i \in 2 .. (Len(text) - 3), NewlineAt(text, i) PROVE FALSE
  <2>1. Len(text) \in Nat /\ i \in 2 .. (Len(text) - 2) /\ Len(text) > 4 /\ i \in DOMAIN text
    BY <1>1
  <2> QED BY <1>1, <2>1 DEF BreaksAt
<1> QED BY <1>1 DEF IsSplit

LEMMA PairType == ASSUME NEW S, NEW a \in S, NEW b \in S PROVE <<a, b>> \in Seq(S)
<1> QED OBVIOUS

LEMMA TwoParts ==
  ASSUME NEW S, NEW a \in Seq(S), NEW b \in Seq(S)
  PROVE  /\ a \o b \in Seq(S) /\ Len(a \o b) = Len(a) + Len(b)
         /\ \A j \in 1 .. Len(a) : (a \o b)[j] = a[j]
         /\ \A j \in 1 .. Len(b) : (a \o b)[Len(a) + j] = b[j]
<1> QED OBVIOUS

LEMMA ThreeParts ==
  ASSUME NEW S, NEW a \in Seq(S), NEW b \in Seq(S), NEW c \in Seq(S)
  PROVE  /\ a \o b \o c \in Seq(S) /\ Len(a \o b \o c) = Len(a) + Len(b) + Len(c)
         /\ \A j \in 1 .. Len(a) : (a \o b \o c)[j] = a[j]
         /\ \A j \in 1 .. Len(b) : (a \o b \o c)[Len(a) + j] = b[j]
         /\ \A j \in 1 .. Len(c) : (a \o b \o c)[Len(a) + Len(b) + j] = c[j]
<1> DEFINE two == a \o b
<1>1. /\ two \in Seq(S) /\ Len(two) = Len(a) + Len(b)
      /\ \A j \in 1 .. Len(a) : two[j] = a[j]
      /\ \A j \in 1 .. Len(b) : two[Len(a) + j] = b[j]
  BY TwoParts
<1>2. Len(a) \in Nat /\ Len(b) \in Nat /\ Len(c) \in Nat
  OBVIOUS
<1> HIDE DEF two
<1>3. /\ two \o c \in Seq(S) /\ Len(two \o c) = Len(two) + Len(c)
      /\ \A j \in 1 .. Len(two) : (two \o c)[j] = two[j]
      /\ \A j \in 1 .. Len(c) : (two \o c)[Len(two) + j] = c[j]
  <2>1. two \in Seq(S)
    BY <1>1
  <2> QED BY <2>1, TwoParts
<1>4. \A j \in 1 .. Len(a) : (two \o c)[j] = a[j]
  BY <1>1, <1>2, <1>3
<1>5. \A j \in 1 .. Len(b) : (two \o c)[Len(a) + j] = b[j]
  BY <1>1, <1>2, <1>3
<1>6. \A j \in 1 .. Len(c) : (two \o c)[Len(a) + Len(b) + j] = c[j]
  BY <1>1, <1>2, <1>3
<1> QED BY <1>1, <1>3, <1>4, <1>5, <1>6 DEF two

LEMMA SplitThere ==
  ASSUME NEW text \in Seq(STRING), NEW i \in 2 .. (Len(text) - 2),
         BreaksAt(text, i), \A j \in 1 .. (i - 1) : ~BreaksAt(text, j)
  PROVE  IsSplit(text, SubSeq(text, 1, i), SubSeq(text, i + 3, Len(text)))
<1> DEFINE L == Len(text)
           first == SubSeq(text, 1, i)
           rest == SubSeq(text, i + 3, L)
           newline == <<"\r", "\n">>
           both == first \o newline \o rest
<1>1. L \in Nat /\ i \in Nat /\ i + 2 <= L /\ L > 4 /\ text[i + 1] = "\r" /\ text[i + 2] = "\n"
  BY DEF BreaksAt, NewlineAt
<1>0. newline \in Seq(STRING) /\ Len(newline) = 2 /\ newline[1] = "\r" /\ newline[2] = "\n"
  <2>1. text[i + 1] \in STRING /\ text[i + 2] \in STRING
    BY <1>1
  <2>2. "\r" \in STRING /\ "\n" \in STRING
    BY <1>1, <2>1
  <2>3. newline \in Seq(STRING)
    BY <2>2, PairType
  <2>4. Len(newline) = 2
    OBVIOUS
  <2>5. newline[1] = "\r"
    OBVIOUS
  <2>6. newline[2] = "\n"
    OBVIOUS
  <2> QED BY <2>3, <2>4, <2>5, <2>6
<1>2. /\ first \in Seq(STRING) /\ Len(first) = i /\ \A j \in 1 .. i : first[j] = text[j]
      /\ rest \in Seq(STRING) /\ Len(rest) = L - i - 2
      /\ \A j \in 1 .. (L - i - 2) : rest[j] = text[j + i + 2]
  BY <1>1
<1>3. text = both
  <2> HIDE DEF first, newline, rest
  <2>1. /\ both \in Seq(STRING) /\ Len(both) = Len(first) + Len(newline) + Len(rest)
        /\ \A j \in 1 .. Len(first) : both[j] = first[j]
        /\ \A j \in 1 .. Len(newline) : both[Len(first) + j] = newline[j]
        /\ \A j \in 1 .. Len(rest) : both[Len(first) + Len(newline) + j] = rest[j]
    <3>1. first \in Seq(STRING) /\ newline \in Seq(STRING) /\ rest \in Seq(STRING)
      BY <1>0, <1>2
    <3> QED BY <3>1, ThreeParts
  <2> HIDE DEF both
  <2>2. Len(both) = L
    BY <1>0, <1>1, <1>2, <2>1
  <2>3. \A j \in 1 .. i : both[j] = text[j]
    BY <1>2, <2>1
  <2>4. both[i + 1] = text[i + 1] /\ both[i + 2] = text[i + 2]
    BY <1>0, <1>1, <1>2, <2>1
  <2>5. \A j \in 1 .. (L - i - 2) : both[i + 2 + j] = text[j + i + 2]
    <3> TAKE j \in 1 .. (L - i - 2)
    <3>1. both[Len(first) + Len(newline) + j] = rest[j]
      BY <1>2, <2>1
    <3>2. Len(first) + Len(newline) + j = i + 2 + j
      BY <1>0, <1>1, <1>2
    <3> QED BY <1>2, <3>1, <3>2
  <2>6. ASSUME NEW j \in 1 .. L PROVE text[j] = both[j]
    <3>1. CASE j <= i
      BY <1>1, <2>3, <3>1
    <3>2. CASE j \in {i + 1, i + 2}
      BY <2>4, <3>2
    <3>3. CASE j > i + 2
      <4>1. /\ j - i - 2 \in 1 .. (L - i - 2)
            /\ (j - i - 2) + i + 2 = j /\ i + 2 + (j - i - 2) = j
        BY <1>1, <3>3
      <4> QED BY <2>5, <4>1
    <3> QED BY <1>1, <3>1, <3>2, <3>3
  <2> HIDE DEF L
  <2> QED BY <2>1, <2>2, <2>6, SeqEqual DEF L
<1>4. ASSUME NEW k \in 2 .. (L - 3), NewlineAt(text, k), \A j \in 0 .. (k - 1) : ~NewlineAt(text, j)
      PROVE  Len(first) = k
  <2>1. BreaksAt(text, k)
    BY <1>1, <1>4 DEF BreaksAt
  <2>2. ~(k < i)
    BY <1>1, <2>1
  <2>3. ~(i < k)
    BY <1>1, <1>4 DEF NewlineAt
  <2> QED BY <1>1, <1>2, <2>2, <2>3
<1> QED BY <1>3, <1>4 DEF IsSplit

(* What the characters of a text become.                                   *)
Written(text, lengths) ==
  [i \in DOMAIN text |-> IF lengths.text > 0 /\ i \in {lengths.header, lengths.header + 1}
                         THEN NUL ELSE Char(text[i])]

LEMMA CellsOfText ==
  ASSUME NEW r \in Requests, NEW slot \in Slots, NEW header \in Nat, NEW rest \in Nat,
         Split(r.text) = [header |-> header, text |-> rest]
  PROVE  LET cells == EntryCells(r, slot)
             n == Len(r.text)
         IN /\ n \in Nat
            /\ cells \in Seq(Cell) /\ Len(cells) = n + 2
            /\ cells[1] = [severity |-> r.severity, component |-> slot,
                           headerLength |-> header, textLength |-> rest]
            /\ \A i \in 2 .. (n + 1) :
                 cells[i] = IF rest > 0 /\ i - 1 \in {header, header + 1}
                            THEN NUL ELSE Char(r.text[i - 1])
            /\ cells[n + 2] = NUL
            /\ \A i \in 2 .. (n + 2) : cells[i] \in Chars
<1> DEFINE n == Len(r.text)
           fixed == [severity |-> r.severity, component |-> slot,
                     headerLength |-> header, textLength |-> rest]
           middle == [i \in DOMAIN r.text |->
                        IF rest > 0 /\ i \in {header, header + 1} THEN NUL ELSE Char(r.text[i])]
<1>1. EntryCells(r, slot) = <<fixed>> \o middle \o <<NUL>>
  BY DEF EntryCells
<1>2. n \in Nat /\ DOMAIN r.text = 1 .. n /\ r.severity \in Severities
  BY RequestType
<1>3. fixed \in Cell /\ NUL \in Chars
  <2>2. NUL \in Chars
    BY DEF NUL, Char, Chars
  <2>3. fixed \in Cell
    BY <1>2 DEF Cell
  <2> QED BY <2>2, <2>3
<1>4. \A i \in 1 .. n : middle[i] \in Chars
  BY <1>2, <1>3, RequestType DEF Chars, Char
<1>5. middle \in Seq(Cell) /\ Len(middle) = n
  <2>1. DOMAIN middle = 1 .. n /\ \A i \in 1 .. n : middle[i] \in Cell
    BY <1>2, <1>4 DEF Cell
  <2>2. middle = [i \in 1 .. n |-> middle[i]]
    BY <1>2
  <2> HIDE DEF middle
  <2>3. middle \in [1 .. n -> Cell]
    BY <2>1, <2>2
  <2> QED BY <1>2, <2>3
<1>6. \A i \in 2 .. (n + 1) :
        middle[i - 1] = IF rest > 0 /\ i - 1 \in {header, header + 1} THEN NUL ELSE Char(r.text[i - 1])
  BY <1>2
<1> HIDE DEF fixed, middle
<1> DEFINE cells == <<fixed>> \o middle \o <<NUL>>
<1>7. /\ cells \in Seq(Cell) /\ Len(cells) = n + 2 /\ cells[1] = fixed /\ cells[n + 2] = NUL
      /\ \A i \in 2 .. (n + 1) : cells[i] = middle[i - 1]
  <2> HIDE DEF n
  <2>1. NUL \in Cell
    BY <1>3 DEF Cell
  <2> QED BY <1>2, <1>3, <1>5, <2>1
<1> HIDE DEF cells
<1>8. \A i \in 2 .. (n + 2) : cells[i] \in Chars
  <2> SUFFICES ASSUME NEW i \in 2 .. (n + 2) PROVE cells[i] \in Chars
    OBVIOUS
  <2>1. CASE i = n + 2
    BY <1>3, <1>7, <2>1
  <2>2. CASE i # n + 2
    <3>1. i \in 2 .. (n + 1) /\ i - 1 \in 1 .. n
      BY <1>2, <2>2
    <3> QED BY <1>4, <1>7, <3>1
  <2> QED BY <2>1, <2>2
<1>9. EntryCells(r, slot) = cells
  BY <1>1 DEF cells
<1> QED BY <1>2, <1>6, <1>7, <1>8, <1>9 DEF fixed

LEMMA CellsType ==
  ASSUME NEW r \in Requests, NEW slot \in Slots
  PROVE  LET cells == EntryCells(r, slot)
         IN /\ cells \in Seq(Cell) /\ Len(cells) \in Nat /\ Len(cells) >= 2
            /\ EntrySize(cells[1]) = Len(cells) /\ "severity" \in DOMAIN cells[1]
            /\ cells[1].component = slot /\ cells[1].severity = r.severity
            /\ cells[1].headerLength \in 1 .. (Len(cells) - 1)
            /\ cells[Len(cells)] = NUL /\ cells[1 + cells[1].headerLength] = NUL
            /\ \A i \in 2 .. Len(cells) : cells[i] \in Chars
<1> DEFINE cells == EntryCells(r, slot)
           n == Len(r.text)
<1>0. r.text \in Seq(STRING) /\ n \in Nat
  BY RequestType
<1>1. CASE Split(r.text) = [header |-> n + 1, text |-> 0]
  <2>1. /\ cells \in Seq(Cell) /\ Len(cells) = n + 2
        /\ cells[1] = [severity |-> r.severity, component |-> slot,
                       headerLength |-> n + 1, textLength |-> 0]
        /\ cells[n + 2] = NUL
        /\ \A i \in 2 .. (n + 2) : cells[i] \in Chars
    <3> DEFINE h == n + 1
    <3>1. h \in Nat /\ 0 \in Nat /\ Split(r.text) = [header |-> h, text |-> 0]
      BY <1>0, <1>1
    <3> HIDE DEF h
    <3>2. /\ cells \in Seq(Cell) /\ Len(cells) = n + 2
          /\ cells[1] = [severity |-> r.severity, component |-> slot,
                         headerLength |-> h, textLength |-> 0]
          /\ cells[n + 2] = NUL
          /\ \A i \in 2 .. (n + 2) : cells[i] \in Chars
      BY <3>1, CellsOfText
    <3> QED BY <3>2 DEF h
  <2> HIDE DEF cells, n
  <2>2. EntrySize(cells[1]) = n + 2
    BY <1>0, <2>1 DEF EntrySize
  <2> QED BY <1>0, <2>1, <2>2 DEF cells
<1>2. ASSUME NEW i \in 2 .. (n - 2), Split(r.text) = [header |-> i + 1, text |-> n + 1 - i - 2]
      PROVE  /\ cells \in Seq(Cell) /\ Len(cells) \in Nat /\ Len(cells) >= 2
             /\ EntrySize(cells[1]) = Len(cells) /\ "severity" \in DOMAIN cells[1]
             /\ cells[1].component = slot /\ cells[1].severity = r.severity
             /\ cells[1].headerLength \in 1 .. (Len(cells) - 1)
             /\ cells[Len(cells)] = NUL /\ cells[1 + cells[1].headerLength] = NUL
             /\ \A j \in 2 .. Len(cells) : cells[j] \in Chars
  <2> DEFINE rest == n + 1 - i - 2
  <2>1. i \in Nat /\ i + 1 \in Nat /\ rest \in Nat /\ rest > 0 /\ rest = n - 1 - i
    BY <1>0
  <2>2. /\ cells \in Seq(Cell) /\ Len(cells) = n + 2
        /\ cells[1] = [severity |-> r.severity, component |-> slot,
                       headerLength |-> i + 1, textLength |-> rest]
        /\ \A j \in 2 .. (n + 1) :
             cells[j] = IF rest > 0 /\ j - 1 \in {i + 1, i + 1 + 1}
                        THEN NUL ELSE Char(r.text[j - 1])
        /\ cells[n + 2] = NUL
        /\ \A j \in 2 .. (n + 2) : cells[j] \in Chars
    <3> DEFINE h == i + 1
    <3>1. h \in Nat /\ rest \in Nat /\ Split(r.text) = [header |-> h, text |-> rest]
      BY <1>2, <2>1
    <3> HIDE DEF h, rest
    <3>2. /\ cells \in Seq(Cell) /\ Len(cells) = n + 2
          /\ cells[1] = [severity |-> r.severity, component |-> slot,
                         headerLength |-> h, textLength |-> rest]
          /\ \A j \in 2 .. (n + 1) :
               cells[j] = IF rest > 0 /\ j - 1 \in {h, h + 1} THEN NUL ELSE Char(r.text[j - 1])
          /\ cells[n + 2] = NUL
          /\ \A j \in 2 .. (n + 2) : cells[j] \in Chars
      BY <3>1, CellsOfText
    <3> QED BY <3>2 DEF h
  <2> HIDE DEF cells, n, rest
  <2>3. EntrySize(cells[1]) = n + 2
    BY <1>0, <2>1, <2>2 DEF EntrySize
  <2>4. i + 2 \in 2 .. (n + 1) /\ cells[i + 2] = NUL
    BY <1>0, <2>1, <2>2
  <2> QED BY <1>0, <2>1, <2>2, <2>3, <2>4 DEF cells
<1> QED BY <1>0, <1>1, <1>2, SplitCases

LEMMA StringAtIs ==
  ASSUME NEW body, NEW n \in Nat, NEW e \in n .. Len(body), Len(body) \in Nat,
         body[e] = NUL, \A i \in n .. (e - 1) : body[i] # NUL
  PROVE  StringAt(body, n) = [i \in 1 .. (e - n) |-> body[n + i - 1].char]
<1> DEFINE P(x) == body[x] = NUL /\ \A i \in n .. (x - 1) : body[i] # NUL
           end == CHOOSE x \in n .. Len(body) : P(x)
<1>1. end \in n .. Len(body) /\ P(end)
  BY Zenon
<1>2. StringAt(body, n) = [i \in 1 .. (end - n) |-> body[n + i - 1].char]
  BY DEF StringAt
<1>3. end = e
  <2> HIDE DEF end
  <2>1. ~(end < e)
    BY <1>1
  <2>2. ~(e < end)
    BY <1>1
  <2> QED BY <1>1, <2>1, <2>2
<1> QED BY <1>2, <1>3

(* The cells of an entry are in a body from offset n on.                   *)
IsAt(body, n, cells) ==
  /\ n \in Nat \ {0} /\ n + Len(cells) - 1 <= Len(body)
  /\ \A j \in 1 .. Len(cells) : body[n + j - 1] = cells[j]

LEMMA EntryIsReadable ==
  ASSUME NEW r \in Requests, NEW slot \in Slots, NEW body \in Seq(Cell), NEW n,
         IsAt(body, n, EntryCells(r, slot))
  PROVE  /\ IsReadable(body, n) /\ IsEntry(body, n)
         /\ EntrySize(body[n]) = Len(EntryCells(r, slot))
<1> DEFINE cells == EntryCells(r, slot)
           m == Len(cells)
<1>1. /\ m \in Nat /\ m >= 2 /\ EntrySize(cells[1]) = m /\ "severity" \in DOMAIN cells[1]
      /\ cells[1].headerLength \in 1 .. (m - 1)
      /\ cells[m] = NUL /\ cells[1 + cells[1].headerLength] = NUL
      /\ \A i \in 2 .. m : cells[i] \in Chars
  BY CellsType
<1> HIDE DEF cells, m
<1>2. /\ n \in Nat \ {0} /\ n + m - 1 <= Len(body) /\ Len(body) \in Nat
      /\ \A j \in 1 .. m : body[n + j - 1] = cells[j]
  BY DEF IsAt, cells, m
<1>3. body[n] = cells[1] /\ n \in DOMAIN body
  <2>1. body[n + 1 - 1] = cells[1]
    BY <1>1, <1>2
  <2> QED BY <1>1, <1>2, <2>1
<1>4. IsEntry(body, n)
  BY <1>1, <1>3 DEF IsEntry
<1>5. n + m - 1 \in DOMAIN body /\ body[n + m - 1] = NUL
  BY <1>1, <1>2
<1>6. \A i \in 1 .. (m - 1) : "char" \in DOMAIN body[n + i]
  <2> SUFFICES ASSUME NEW i \in 1 .. (m - 1) PROVE "char" \in DOMAIN body[n + i]
    OBVIOUS
  <2>1. i + 1 \in 2 .. m /\ i + 1 \in 1 .. m /\ n + (i + 1) - 1 = n + i
    BY <1>1, <1>2
  <2>2. body[n + i] \in Chars
    BY <1>1, <1>2, <2>1
  <2> QED BY <2>2 DEF Chars
<1>7. body[n + body[n].headerLength] = NUL
  <2> DEFINE h == cells[1].headerLength
  <2>0. h \in 1 .. (m - 1) /\ m \in Nat /\ n \in Nat
    BY <1>1, <1>2
  <2>1. 1 + h \in 1 .. m /\ n + (1 + h) - 1 = n + h
    <3> HIDE DEF h
    <3> QED BY <2>0
  <2> QED BY <1>1, <1>2, <1>3, <2>1
<1> QED BY <1>1, <1>3, <1>4, <1>5, <1>6, <1>7 DEF IsReadable, cells, m

LEMMA EntryIsTold ==
  ASSUME NEW r \in Requests, NEW slot \in Slots, NEW body \in Seq(Cell), NEW n,
         IsAt(body, n, EntryCells(r, slot)), NEW header
  PROVE  LET entry == LogEntry(body, header, n)
         IN /\ entry.severity = r.severity
            /\ entry.component = header.components[slot]
            /\ IsSplit(r.text, entry.textHeader, entry.text)
<1> DEFINE cells == EntryCells(r, slot)
           L == Len(r.text)
           entry == LogEntry(body, header, n)
<1>0. r.text \in Seq(STRING) /\ L \in Nat /\ \A i \in 1 .. L : r.text[i] # "NUL"
  BY RequestType
<1>1. Len(cells) \in Nat /\ Len(cells) >= 2 /\ cells[1].component = slot /\ cells[1].severity = r.severity
  BY CellsType
<1>2. /\ n \in Nat \ {0} /\ n + Len(cells) - 1 <= Len(body) /\ Len(body) \in Nat
      /\ \A j \in 1 .. Len(cells) : body[n + j - 1] = cells[j]
  BY DEF IsAt
<1>3. body[n] = cells[1]
  <2> HIDE DEF cells
  <2>1. body[n + 1 - 1] = cells[1]
    BY <1>1, <1>2
  <2> QED BY <1>2, <2>1
<1>4. entry.severity = r.severity /\ entry.component = header.components[slot]
  BY <1>1, <1>3 DEF LogEntry
<1>5. /\ entry.textHeader = StringAt(body, n + 1)
      /\ entry.text = IF cells[1].textLength > 0
                      THEN StringAt(body, n + 1 + cells[1].headerLength + 1) ELSE <<>>
  BY <1>3 DEF LogEntry
<1>6. \A x : x # "NUL" => Char(x) # NUL /\ Char(x).char = x
  BY DEF Char, NUL
<1> HIDE DEF cells, entry
<1>7. CASE /\ \A i \in DOMAIN r.text : ~BreaksAt(r.text, i)
           /\ Split(r.text) = [header |-> L + 1, text |-> 0]
  <2>1. /\ Len(cells) = L + 2 /\ cells[1].textLength = 0 /\ cells[L + 2] = NUL
        /\ \A i \in 2 .. (L + 1) : cells[i] = Char(r.text[i - 1])
    <3> DEFINE h == L + 1
    <3>1. h \in Nat /\ 0 \in Nat /\ Split(r.text) = [header |-> h, text |-> 0]
      BY <1>0, <1>7
    <3> HIDE DEF h
    <3>2. /\ Len(cells) = L + 2
          /\ cells[1] = [severity |-> r.severity, component |-> slot,
                         headerLength |-> h, textLength |-> 0]
          /\ \A i \in 2 .. (L + 1) :
               cells[i] = IF 0 > 0 /\ i - 1 \in {h, h + 1} THEN NUL ELSE Char(r.text[i - 1])
          /\ cells[L + 2] = NUL
      BY <3>1, CellsOfText DEF cells
    <3> QED BY <3>2
  <2>2. body[n + L + 1] = NUL /\ n + L + 1 \in (n + 1) .. Len(body)
    <3> HIDE DEF L
    <3>1. L + 2 \in 1 .. Len(cells) /\ n + (L + 2) - 1 = n + L + 1
      BY <1>0, <1>2, <2>1
    <3> QED BY <1>0, <1>2, <2>1, <3>1
  <2>3. \A i \in 1 .. L : body[n + i] = Char(r.text[i])
    <3> SUFFICES ASSUME NEW i \in 1 .. L PROVE body[n + i] = Char(r.text[i])
      OBVIOUS
    <3>1. i + 1 \in 1 .. Len(cells) /\ i + 1 \in 2 .. (L + 1) /\ n + (i + 1) - 1 = n + i /\ (i + 1) - 1 = i
      BY <1>0, <1>2, <2>1
    <3> QED BY <1>2, <2>1, <3>1
  <2>4. \A i \in (n + 1) .. (n + L + 1 - 1) : body[i] # NUL
    <3> SUFFICES ASSUME NEW i \in (n + 1) .. (n + L) PROVE body[i] # NUL
      BY <1>0, <1>2
    <3>1. i - n \in 1 .. L /\ n + (i - n) = i
      BY <1>0, <1>2
    <3> QED BY <1>0, <1>6, <2>3, <3>1
  <2> HIDE DEF L
  <2>5. StringAt(body, n + 1) = [i \in 1 .. ((n + L + 1) - (n + 1)) |-> body[(n + 1) + i - 1].char]
    <3> DEFINE k == n + 1
               e == n + L + 1
    <3>1. /\ k \in Nat /\ e \in k .. Len(body) /\ Len(body) \in Nat
          /\ body[e] = NUL /\ \A i \in k .. (e - 1) : body[i] # NUL
      BY <1>0, <1>2, <2>2, <2>4
    <3> HIDE DEF k, e
    <3>2. StringAt(body, k) = [i \in 1 .. (e - k) |-> body[k + i - 1].char]
      BY <3>1, StringAtIs
    <3> QED BY <3>2 DEF k, e
  <2>6. (n + L + 1) - (n + 1) = L /\ \A i \in 1 .. L : (n + 1) + i - 1 = n + i
    BY <1>0, <1>2
  <2>7. StringAt(body, n + 1) = [i \in 1 .. L |-> r.text[i]]
    BY <1>0, <1>6, <2>3, <2>5, <2>6
  <2>8. r.text = [i \in 1 .. L |-> r.text[i]]
    BY <1>0 DEF L
  <2>9. IsSplit(r.text, entry.textHeader, entry.text)
    <3>1. entry.textHeader = r.text
      BY <1>5, <2>7, <2>8
    <3>2. entry.text = <<>>
      BY <1>5, <2>1
    <3>3. IsSplit(r.text, r.text, <<>>)
      BY <1>0, <1>7, SplitNowhere
    <3> QED BY <3>1, <3>2, <3>3
  <2> QED BY <1>4, <2>9 DEF entry
<1>8. ASSUME NEW i \in 2 .. (L - 2),
             BreaksAt(r.text, i), \A j \in 1 .. (i - 1) : ~BreaksAt(r.text, j),
             Split(r.text) = [header |-> i + 1, text |-> L + 1 - i - 2]
      PROVE  IsSplit(r.text, entry.textHeader, entry.text)
  <2> DEFINE rest == L + 1 - i - 2
  <2>1. i \in Nat /\ i + 1 \in Nat /\ rest \in Nat /\ rest > 0 /\ rest = L - 1 - i
    BY <1>0
  <2>2. /\ Len(cells) = L + 2 /\ cells[1].textLength = rest /\ cells[L + 2] = NUL
        /\ cells[1].headerLength = i + 1
        /\ \A j \in 2 .. (L + 1) :
             cells[j] = IF j - 1 \in {i + 1, i + 1 + 1} THEN NUL ELSE Char(r.text[j - 1])
    <3> DEFINE h == i + 1
    <3>1. h \in Nat /\ rest \in Nat /\ Split(r.text) = [header |-> h, text |-> rest]
      BY <1>8, <2>1
    <3> HIDE DEF h, rest
    <3>2. /\ Len(cells) = L + 2
          /\ cells[1] = [severity |-> r.severity, component |-> slot,
                         headerLength |-> h, textLength |-> rest]
          /\ \A j \in 2 .. (L + 1) :
               cells[j] = IF rest > 0 /\ j - 1 \in {h, h + 1} THEN NUL ELSE Char(r.text[j - 1])
          /\ cells[L + 2] = NUL
      BY <3>1, CellsOfText DEF cells
    <3> QED BY <2>1, <3>2, SMTT(30) DEF h
  <2> HIDE DEF rest
  <2> HIDE DEF L
  <2>3. body[n + L + 1] = NUL /\ n + L + 1 \in (n + 1) .. Len(body)
    <3>1. L + 2 \in 1 .. Len(cells) /\ n + (L + 2) - 1 = n + L + 1
      BY <1>0, <1>2, <2>2
    <3> QED BY <1>0, <1>2, <2>2, <3>1
  <2>4. \A j \in 1 .. L : body[n + j] = IF j \in {i + 1, i + 2} THEN NUL ELSE Char(r.text[j])
    <3> SUFFICES ASSUME NEW j \in 1 .. L
                 PROVE  body[n + j] = IF j \in {i + 1, i + 2} THEN NUL ELSE Char(r.text[j])
      OBVIOUS
    <3>0. Len(cells) = L + 2 /\ n \in Nat /\ L \in Nat
      BY <1>0, <1>2, <2>2
    <3>1. j + 1 \in 1 .. Len(cells) /\ j + 1 \in 2 .. (L + 1) /\ n + (j + 1) - 1 = n + j /\ (j + 1) - 1 = j
      BY <3>0
    <3>2. i + 1 + 1 = i + 2
      BY <2>1
    <3> QED BY <1>2, <2>2, <3>1, <3>2
  <2>5. entry.textHeader = SubSeq(r.text, 1, i)
    <3>1. i + 1 \in 1 .. L
      BY <1>0, <2>1
    <3>2. body[n + i + 1] = NUL /\ n + i + 1 \in (n + 1) .. Len(body)
      <4>1. body[n + (i + 1)] = NUL
        BY <2>4, <3>1
      <4>2. n + (i + 1) = n + i + 1
        BY <1>2, <2>1
      <4>3. n + i + 1 \in (n + 1) .. Len(body)
        BY <1>0, <1>2, <2>1, <2>3, <3>1, SMTT(30)
      <4> QED BY <4>1, <4>2, <4>3
    <3>3. \A j \in (n + 1) .. (n + i + 1 - 1) : body[j] # NUL
      <4> SUFFICES ASSUME NEW j \in (n + 1) .. (n + i) PROVE body[j] # NUL
        BY <1>2, <2>1
      <4>1. j - n \in 1 .. L /\ n + (j - n) = j /\ j - n \notin {i + 1, i + 2}
        BY <1>0, <1>2, <2>1, <3>1
      <4> QED BY <1>0, <1>6, <2>4, <4>1, SMTT(30)
    <3>4. StringAt(body, n + 1) = [j \in 1 .. ((n + i + 1) - (n + 1)) |-> body[(n + 1) + j - 1].char]
      <4> DEFINE k == n + 1
                 e == n + i + 1
      <4>1. /\ k \in Nat /\ e \in k .. Len(body) /\ Len(body) \in Nat
            /\ body[e] = NUL /\ \A j \in k .. (e - 1) : body[j] # NUL
        BY <1>2, <3>2, <3>3
      <4> HIDE DEF k, e
      <4>2. StringAt(body, k) = [j \in 1 .. (e - k) |-> body[k + j - 1].char]
        BY <4>1, StringAtIs
      <4> QED BY <4>2 DEF k, e
    <3>5. (n + i + 1) - (n + 1) = i
      BY <1>2, <2>1
    <3>6. ASSUME NEW j \in 1 .. i PROVE body[(n + 1) + j - 1].char = r.text[j]
      <4>1. j \in 1 .. L /\ j \notin {i + 1, i + 2} /\ (n + 1) + j - 1 = n + j
        BY <1>0, <1>2, <2>1, <3>1
      <4> QED BY <1>0, <1>6, <2>4, <4>1
    <3>7. SubSeq(r.text, 1, i) = [j \in 1 .. i |-> r.text[j]]
      BY <1>0, <2>1, <3>1 DEF L
    <3> QED BY <1>5, <3>4, <3>5, <3>6, <3>7
  <2>6. entry.text = SubSeq(r.text, i + 3, L)
    <3> DEFINE k == n + 1 + (i + 1) + 1
    <3>1. entry.text = StringAt(body, k)
      BY <1>5, <2>1, <2>2
    <3>2. k = n + i + 3 /\ k \in Nat /\ n + L + 1 \in k .. Len(body)
      BY <1>0, <1>2, <2>1, <2>3
    <3> HIDE DEF k
    <3>3. \A j \in k .. (n + L + 1 - 1) : body[j] # NUL
      <4> SUFFICES ASSUME NEW j \in k .. (n + L) PROVE body[j] # NUL
        BY <1>0, <1>2
      <4>1. j - n \in 1 .. L /\ n + (j - n) = j /\ j - n \notin {i + 1, i + 2}
        BY <1>0, <1>2, <2>1, <3>2
      <4> QED BY <1>0, <1>6, <2>4, <4>1
    <3>4. StringAt(body, k) = [j \in 1 .. ((n + L + 1) - k) |-> body[k + j - 1].char]
      <4> DEFINE e == n + L + 1
      <4>1. /\ k \in Nat /\ e \in k .. Len(body) /\ Len(body) \in Nat
            /\ body[e] = NUL /\ \A j \in k .. (e - 1) : body[j] # NUL
        <5>1. e - 1 = n + L + 1 - 1 /\ e \in k .. Len(body)
          BY <1>0, <1>2, <3>2
        <5> QED BY <1>2, <2>3, <3>2, <3>3, <5>1
      <4> HIDE DEF e
      <4>2. StringAt(body, k) = [j \in 1 .. (e - k) |-> body[k + j - 1].char]
        BY <4>1, StringAtIs
      <4> QED BY <4>2 DEF e
    <3>5. (n + L + 1) - k = L - (i + 3) + 1
      BY <1>0, <1>2, <2>1, <3>2
    <3>6. ASSUME NEW j \in 1 .. (L - (i + 3) + 1)
          PROVE  body[k + j - 1].char = r.text[(i + 3) + j - 1]
      <4> DEFINE x == (i + 3) + j - 1
      <4>1. x \in 1 .. L /\ x \notin {i + 1, i + 2} /\ k + j - 1 = n + x
        BY <1>0, <1>2, <2>1, <3>2
      <4> HIDE DEF x
      <4>2. body[n + x] = Char(r.text[x])
        BY <2>4, <4>1
      <4> QED BY <1>0, <1>6, <4>1, <4>2 DEF x
    <3>7. SubSeq(r.text, i + 3, L) = [j \in 1 .. (L - (i + 3) + 1) |-> r.text[(i + 3) + j - 1]]
      BY <1>0, <2>1
    <3> QED BY <3>1, <3>4, <3>5, <3>6, <3>7
  <2>7. IsSplit(r.text, SubSeq(r.text, 1, i), SubSeq(r.text, i + 3, L))
    BY <1>0, <1>8, SplitThere DEF L
  <2> QED BY <2>5, <2>6, <2>7
<1> QED BY <1>0, <1>4, <1>7, <1>8, SplitCases DEF entry

-----------------------------------------------------------------------------
(* What was written, one entry behind the other, and where each begins.    *)

CellsOf(e) == EntryCells(e.request, e.slot)
Begin(w, k) == Len(Flat(SubSeq(w, 1, k - 1))) + 1
IsPlaced(w) ==
  /\ Begin(w, 1) = 1
  /\ \A k \in 1 .. Len(w) :
       /\ IsAt(Flat(w), Begin(w, k), CellsOf(w[k]))
       /\ Begin(w, k + 1) = Begin(w, k) + Len(CellsOf(w[k]))

LEMMA CellsOfType ==
  ASSUME NEW e \in Entry
  PROVE  CellsOf(e) \in Seq(Cell) /\ Len(CellsOf(e)) \in Nat /\ Len(CellsOf(e)) >= 2
<1>1. e.request \in Requests /\ e.slot \in Slots
  BY DEF Entry
<1> QED BY <1>1, CellsType DEF CellsOf

LEMMA FlatIsType ==
  ASSUME NEW w \in Seq(Entry)
  PROVE  /\ [k \in DOMAIN w |-> CellsOf(w[k])] \in Seq(Seq(Cell))
         /\ Flat(w) = FlattenSeq([k \in DOMAIN w |-> CellsOf(w[k])])
         /\ Flat(w) \in Seq(Cell) /\ Len(Flat(w)) \in Nat
<1> DEFINE s == [k \in DOMAIN w |-> CellsOf(w[k])]
<1>1. Len(w) \in Nat /\ DOMAIN w = 1 .. Len(w) /\ \A k \in DOMAIN w : w[k] \in Entry
  OBVIOUS
<1>2. s \in [1 .. Len(w) -> Seq(Cell)]
  BY <1>1, CellsOfType
<1> HIDE DEF s
<1>3. s \in Seq(Seq(Cell))
  BY <1>1, <1>2
<1>4. Flat(w) = FlattenSeq(s)
  BY DEF Flat, s, CellsOf
<1>5. Flat(w) \in Seq(Cell)
  BY <1>3, <1>4, FlattenType
<1> QED BY <1>3, <1>4, <1>5 DEF s

LEMMA FlatEmpty == Flat(<<>>) = <<>>
<1> DEFINE w == <<>>
           s == [k \in DOMAIN w |-> CellsOf(w[k])]
<1>1. w \in Seq(Entry) /\ Len(w) = 0
  OBVIOUS
<1>2. s \in Seq(Seq(Cell)) /\ Flat(w) = FlattenSeq(s)
  BY <1>1, FlatIsType
<1>3. DOMAIN s = {}
  BY <1>1
<1> HIDE DEF s
<1>4. Len(s) = 0
  BY <1>2, <1>3
<1>5. s = <<>>
  BY <1>2, <1>4
<1> QED BY <1>2, <1>4, <1>5 DEF FlattenSeq

LEMMA FlatAppend ==
  ASSUME NEW w \in Seq(Entry), NEW e \in Entry
  PROVE  /\ Flat(Append(w, e)) = Flat(w) \o CellsOf(e)
         /\ Len(Flat(Append(w, e))) = Len(Flat(w)) + Len(CellsOf(e))
<1> DEFINE s == [k \in DOMAIN w |-> CellsOf(w[k])]
           v == Append(w, e)
           t == [k \in DOMAIN v |-> CellsOf(v[k])]
<1>1. s \in Seq(Seq(Cell)) /\ Flat(w) = FlattenSeq(s) /\ Flat(w) \in Seq(Cell)
  BY FlatIsType
<1>2. v \in Seq(Entry) /\ Len(v) = Len(w) + 1
  OBVIOUS
<1>3. t \in Seq(Seq(Cell)) /\ Flat(v) = FlattenSeq(t)
  <2> HIDE DEF v
  <2> QED BY <1>2, FlatIsType
<1>4. CellsOf(e) \in Seq(Cell)
  BY CellsOfType
<1>5. t = Append(s, CellsOf(e))
  <2>1. /\ Len(s) = Len(w) /\ Len(t) = Len(v) /\ Len(w) \in Nat
        /\ DOMAIN s = 1 .. Len(w) /\ DOMAIN t = 1 .. Len(v)
    <3>1. DOMAIN s = 1 .. Len(w) /\ Len(w) \in Nat
      OBVIOUS
    <3>2. DOMAIN t = 1 .. Len(v) /\ Len(v) \in Nat
      <4> HIDE DEF v
      <4> QED BY <1>2
    <3> HIDE DEF s, t, v
    <3> QED BY <1>1, <1>3, <3>1, <3>2
  <2>2. \A k \in 1 .. Len(w) : s[k] = CellsOf(w[k]) /\ t[k] = CellsOf(w[k])
    BY <1>2, <2>1
  <2>3. t[Len(w) + 1] = CellsOf(e)
    BY <1>2, <2>1
  <2> DEFINE c == CellsOf(e)
             u == Append(s, c)
  <2>4. u \in Seq(Seq(Cell)) /\ Len(u) = Len(s) + 1 /\ u[Len(s) + 1] = c
        /\ \A k \in 1 .. Len(s) : u[k] = s[k]
    <3> HIDE DEF s, c
    <3>1. c \in Seq(Cell)
      BY <1>4 DEF c
    <3> QED BY <1>1, <3>1
  <2> HIDE DEF s, t, v, u
  <2>5. Len(t) = Len(u) /\ \A k \in 1 .. Len(t) : t[k] = u[k]
    <3>1. Len(w) \in Nat /\ Len(u) = Len(w) + 1 /\ Len(t) = Len(w) + 1
      BY <1>2, <2>1, <2>4
    <3>2. \A k \in 1 .. Len(w) : u[k] = s[k]
      BY <2>1, <2>4
    <3>3. u[Len(w) + 1] = CellsOf(e)
      BY <2>1, <2>4
    <3>4. ASSUME NEW k \in 1 .. Len(t) PROVE t[k] = u[k]
      <4>1. k \in 1 .. Len(w) \/ k = Len(w) + 1
        BY <3>1
      <4> QED BY <2>2, <2>3, <3>2, <3>3, <4>1
    <3> QED BY <3>1, <3>4
  <2> HIDE DEF c
  <2>6. t = u
    BY <1>3, <2>4, <2>5, SeqEqual
  <2> QED BY <2>6 DEF u, c
<1>6. Flat(v) = Flat(w) \o CellsOf(e)
  <2> HIDE DEF s, t, v
  <2> QED BY <1>1, <1>3, <1>4, <1>5, FlattenAppend
<1> QED BY <1>1, <1>4, <1>6

LEMMA EmptyIsPlaced == IsPlaced(<<>>)
<1>1. SubSeq(<<>>, 1, 0) = <<>> /\ Len(<<>>) = 0 /\ 1 - 1 = 0
  OBVIOUS
<1>2. Begin(<<>>, 1) = Len(Flat(SubSeq(<<>>, 1, 1 - 1))) + 1
  BY DEF Begin
<1>3. Begin(<<>>, 1) = 1
  <2>1. Flat(SubSeq(<<>>, 1, 1 - 1)) = <<>>
    BY <1>1, FlatEmpty, Zenon
  <2>2. Begin(<<>>, 1) = 0 + 1
    BY <1>1, <1>2, <2>1, Zenon
  <2> QED BY <2>2
<1>4. 1 .. Len(<<>>) = {}
  BY <1>1
<1> QED BY <1>3, <1>4, Zenon DEF IsPlaced

LEMMA PlacedAppend ==
  ASSUME NEW w \in Seq(Entry), NEW e \in Entry, IsPlaced(w)
  PROVE  /\ IsPlaced(Append(w, e))
         /\ \A k \in 1 .. Len(w) : Begin(Append(w, e), k) = Begin(w, k)
<1> DEFINE v == Append(w, e)
           n == Len(w)
           c == CellsOf(e)
<1>1. /\ n \in Nat /\ v \in Seq(Entry) /\ Len(v) = n + 1 /\ v[n + 1] = e
      /\ \A k \in 1 .. n : v[k] = w[k]
  OBVIOUS
<1>2. /\ Flat(w) \in Seq(Cell) /\ Len(Flat(w)) \in Nat /\ c \in Seq(Cell) /\ Len(c) \in Nat
      /\ Flat(v) = Flat(w) \o c /\ Len(Flat(v)) = Len(Flat(w)) + Len(c)
  BY FlatIsType, CellsOfType, FlatAppend
<1>3. \A k \in 1 .. (n + 1) : SubSeq(v, 1, k - 1) = SubSeq(w, 1, k - 1)
  <2> SUFFICES ASSUME NEW k \in 1 .. (n + 1) PROVE SubSeq(v, 1, k - 1) = SubSeq(w, 1, k - 1)
    OBVIOUS
  <2>1. \A i \in 1 .. (k - 1) : v[i] = w[i]
    BY <1>1
  <2> HIDE DEF v
  <2> QED BY <1>1, <2>1
<1>4. \A k \in 1 .. (n + 1) : Begin(v, k) = Begin(w, k)
  BY <1>3 DEF Begin
<1>5. Begin(w, n + 1) = Len(Flat(w)) + 1
  <2>1. (n + 1) - 1 = n /\ SubSeq(w, 1, n) = w
    BY <1>1, SubSeqFull
  <2>2. Begin(w, n + 1) = Len(Flat(SubSeq(w, 1, (n + 1) - 1))) + 1
    BY DEF Begin
  <2> HIDE DEF n
  <2> QED BY <2>1, <2>2
<1>6. Begin(v, n + 2) = Len(Flat(v)) + 1
  <2>1. (n + 2) - 1 = Len(v)
    BY <1>1
  <2>2. SubSeq(v, 1, Len(v)) = v
    BY <1>1, SubSeqFull
  <2>3. Begin(v, n + 2) = Len(Flat(SubSeq(v, 1, (n + 2) - 1))) + 1
    BY DEF Begin
  <2> HIDE DEF v, n
  <2> QED BY <2>1, <2>2, <2>3
<1> HIDE DEF v, n, c
<1>7. ASSUME NEW k \in 1 .. n
      PROVE  IsAt(Flat(v), Begin(v, k), CellsOf(v[k])) /\ Begin(v, k + 1) = Begin(v, k) + Len(CellsOf(v[k]))
  <2>1. /\ IsAt(Flat(w), Begin(w, k), CellsOf(w[k]))
        /\ Begin(w, k + 1) = Begin(w, k) + Len(CellsOf(w[k]))
    BY DEF IsPlaced, n
  <2>2. v[k] = w[k] /\ Begin(v, k) = Begin(w, k) /\ Begin(v, k + 1) = Begin(w, k + 1)
    BY <1>1, <1>4
  <2> DEFINE b == Begin(w, k)
             d == CellsOf(w[k])
  <2>3. Len(d) \in Nat
    <3>1. w[k] \in Entry
      BY DEF n
    <3> QED BY <3>1, CellsOfType
  <2> HIDE DEF b, d
  <2>4. /\ b \in Nat \ {0} /\ b + Len(d) - 1 <= Len(Flat(w))
        /\ \A j \in 1 .. Len(d) : Flat(w)[b + j - 1] = d[j]
    BY <2>1 DEF IsAt, b, d
  <2>5. \A j \in 1 .. Len(d) : Flat(v)[b + j - 1] = d[j]
    <3> SUFFICES ASSUME NEW j \in 1 .. Len(d) PROVE Flat(v)[b + j - 1] = d[j]
      OBVIOUS
    <3>1. b + j - 1 \in 1 .. Len(Flat(w))
      BY <1>2, <2>3, <2>4
    <3>2. Flat(v)[b + j - 1] = Flat(w)[b + j - 1]
      BY <1>2, <3>1
    <3> QED BY <2>4, <3>2
  <2>6. IsAt(Flat(v), b, d)
    BY <1>2, <2>3, <2>4, <2>5 DEF IsAt
  <2> QED BY <2>1, <2>2, <2>6 DEF b, d
<1>8. IsAt(Flat(v), Begin(v, n + 1), c) /\ Begin(v, n + 2) = Begin(v, n + 1) + Len(c)
  <2> DEFINE b == Len(Flat(w)) + 1
  <2>1. Begin(v, n + 1) = b
    BY <1>1, <1>4, <1>5
  <2>2. \A j \in 1 .. Len(c) : Flat(v)[b + j - 1] = c[j]
    <3> SUFFICES ASSUME NEW j \in 1 .. Len(c) PROVE Flat(v)[b + j - 1] = c[j]
      OBVIOUS
    <3>1. b + j - 1 = Len(Flat(w)) + j
      BY <1>2
    <3> QED BY <1>2, <3>1
  <2>3. IsAt(Flat(v), b, c)
    BY <1>2, <2>2 DEF IsAt
  <2> QED BY <1>2, <1>6, <2>1, <2>3
<1>9. Begin(v, 1) = 1
  BY <1>1, <1>4 DEF IsPlaced
<1>10. IsPlaced(v)
  <2> SUFFICES ASSUME NEW k \in 1 .. (n + 1)
               PROVE  /\ IsAt(Flat(v), Begin(v, k), CellsOf(v[k]))
                      /\ Begin(v, k + 1) = Begin(v, k) + Len(CellsOf(v[k]))
    BY <1>1, <1>9 DEF IsPlaced
  <2>1. CASE k \in 1 .. n
    BY <1>7, <2>1
  <2>2. CASE k \notin 1 .. n
    <3>1. k = n + 1 /\ k + 1 = n + 2 /\ CellsOf(v[k]) = c
      BY <1>1, <2>2 DEF c
    <3> QED BY <1>8, <3>1
  <2> QED BY <2>1, <2>2
<1>11. \A k \in 1 .. n : Begin(v, k) = Begin(w, k)
  BY <1>1, <1>4
<1> QED BY <1>10, <1>11 DEF v, n

(* A body that begins with what was written.                               *)
Starts(body, w) ==
  /\ Len(Flat(w)) <= Len(body)
  /\ \A i \in 1 .. Len(Flat(w)) : body[i] = Flat(w)[i]

LEMMA StartsAt ==
  ASSUME NEW w \in Seq(Entry), IsPlaced(w), NEW body \in Seq(Cell), Starts(body, w),
         NEW k \in 1 .. Len(w)
  PROVE  IsAt(body, Begin(w, k), CellsOf(w[k]))
<1> DEFINE b == Begin(w, k)
           d == CellsOf(w[k])
<1>1. Len(d) \in Nat
  <2>1. w[k] \in Entry
    OBVIOUS
  <2> QED BY <2>1, CellsOfType
<1>2. IsAt(Flat(w), b, d)
  BY DEF IsPlaced
<1>3. Len(Flat(w)) \in Nat /\ Len(body) \in Nat
  BY FlatIsType
<1> HIDE DEF b, d
<1>4. /\ b \in Nat \ {0} /\ b + Len(d) - 1 <= Len(Flat(w))
      /\ \A j \in 1 .. Len(d) : Flat(w)[b + j - 1] = d[j]
  BY <1>2 DEF IsAt
<1>5. ASSUME NEW j \in 1 .. Len(d) PROVE body[b + j - 1] = d[j]
  <2>1. b + j - 1 \in 1 .. Len(Flat(w))
    BY <1>1, <1>3, <1>4
  <2>2. body[b + j - 1] = Flat(w)[b + j - 1]
    BY <2>1 DEF Starts
  <2> QED BY <1>4, <2>2
<1>6. b + Len(d) - 1 <= Len(body)
  BY <1>1, <1>3, <1>4 DEF Starts
<1> QED BY <1>4, <1>5, <1>6 DEF IsAt, b, d

LEMMA IndexIsBegin ==
  ASSUME NEW w \in Seq(Entry), IsPlaced(w), NEW body \in Seq(Cell), Starts(body, w),
         NEW n \in 0 .. Len(w)
  PROVE  BuildIndex(body, n) = [k \in 1 .. n |-> Begin(w, k)]
<1> DEFINE Step(f, k) ==
             IF k = 1 THEN 1
             ELSE IF IsEntry(body, f[k - 1]) THEN f[k - 1] + EntrySize(body[f[k - 1]]) ELSE 0
           b == [k \in 1 .. n |-> Begin(w, k)]
           offset == CHOOSE f : f = [k \in 1 .. n |-> Step(f, k)]
<1>1. ASSUME NEW k \in 1 .. n, k # 1, NEW f, f[k - 1] = Begin(w, k - 1)
      PROVE  Step(f, k) = Begin(w, k)
  <2>1. k - 1 \in 1 .. Len(w) /\ (k - 1) + 1 = k
    BY <1>1
  <2> DEFINE j == k - 1
             e == w[j]
  <2>2. IsAt(body, Begin(w, j), CellsOf(e))
    <3> HIDE DEF j
    <3> QED BY <2>1, StartsAt DEF j
  <2>3. e.request \in Requests /\ e.slot \in Slots
    <3>1. e \in Entry
      BY <2>1
    <3> HIDE DEF e
    <3> QED BY <3>1 DEF Entry
  <2>4. IsEntry(body, Begin(w, j)) /\ EntrySize(body[Begin(w, j)]) = Len(CellsOf(e))
    <3> HIDE DEF e, j
    <3> QED BY <2>2, <2>3, EntryIsReadable DEF CellsOf
  <2>5. Begin(w, j + 1) = Begin(w, j) + Len(CellsOf(e))
    <3> HIDE DEF j
    <3> QED BY <2>1 DEF IsPlaced, j
  <2> QED BY <1>1, <2>1, <2>4, <2>5
<1>2. ASSUME NEW k \in 1 .. n PROVE b[k] = Step(b, k)
  <2>1. CASE k = 1
    BY <2>1 DEF IsPlaced
  <2>2. CASE k # 1
    <3>1. k - 1 \in 1 .. n
      BY <2>2
    <3>2. b[k - 1] = Begin(w, k - 1) /\ b[k] = Begin(w, k)
      BY <3>1
    <3> HIDE DEF b, Step
    <3> QED BY <1>1, <2>2, <3>2
  <2> QED BY <2>1, <2>2
<1>3. b = [k \in 1 .. n |-> Step(b, k)]
  BY <1>2
<1>4. offset = [k \in 1 .. n |-> Step(offset, k)]
  <2> HIDE DEF b
  <2> QED BY <1>3
<1>5. BuildIndex(body, n) = [k \in 1 .. n |-> offset[k]]
  BY DEF BuildIndex
<1> HIDE DEF offset, b
<1>6. \A k \in 1 .. n : offset[k] = Step(offset, k)
  <2> SUFFICES ASSUME NEW k \in 1 .. n PROVE offset[k] = Step(offset, k)
    OBVIOUS
  <2> DEFINE g == [j \in 1 .. n |-> Step(offset, j)]
  <2>1. g[k] = Step(offset, k)
    OBVIOUS
  <2> HIDE DEF g, Step
  <2>2. offset = g
    BY <1>4 DEF g
  <2> QED BY <2>1, <2>2
<1>7. \A k \in 1 .. n : offset[k] = Begin(w, k)
  <2> DEFINE Bad == {k \in 1 .. n : offset[k] # Begin(w, k)}
  <2> SUFFICES ASSUME Bad # {} PROVE FALSE
    OBVIOUS
  <2>1. PICK k \in Bad : \A j \in Bad : k <= j
    <3>1. Bad \subseteq Nat
      OBVIOUS
    <3> QED BY <3>1, LeastNumber
  <2>2. k \in 1 .. n /\ offset[k] # Begin(w, k)
    OBVIOUS
  <2>3. CASE k = 1
    BY <1>6, <2>2, <2>3 DEF IsPlaced
  <2>4. CASE k # 1
    <3> HIDE DEF Step
    <3>1. k - 1 \in 1 .. n /\ ~(k <= k - 1)
      BY <2>2, <2>4
    <3>2. offset[k - 1] = Begin(w, k - 1)
      BY <2>1, <3>1
    <3> HIDE DEF Bad
    <3> QED BY <1>1, <1>6, <2>2, <2>4, <3>2
  <2> QED BY <2>3, <2>4
<1> QED BY <1>5, <1>7

-----------------------------------------------------------------------------
(* The inductive invariant.                                                *)

Components == {NoName} \cup {r.component : r \in Requests} \cup {[cut |-> r.component] : r \in Requests}
Headers == [count : Counts, components : [Slots -> Components]]
Calls == [pc : {"find", "pick", "copy", "lock", "seek", "write", "failed", "release"},
          request : Requests, slot : Slots, end : Nat \cup {-1}]
Writers == [pc : {"opening", "open"}, header : Headers, position : Nat,
            lock : Threads \cup {"free", "broken"}]

Others == {Idle, [pc |-> "release"], [pc |-> "loops"]}

FileType ==
  file \in [exists : BOOLEAN, kind : {"empty", "log"} \cup Foreign, header : Headers, body : Seq(Cell)]

WriterType == writer = NoWriter \/ writer \in Writers
ThreadType == thread \in [Threads -> Calls \cup Others]
ReaderType ==
  \/ reader = NoReader
  \/ /\ reader = [pc |-> reader.pc, header |-> reader.header, disturbed |-> reader.disturbed,
                   index |-> reader.index, entries |-> reader.entries, lines |-> reader.lines]
     /\ reader.pc \in {"header", "open", "exported", "fault"}
     /\ reader.header \in Headers /\ reader.disturbed \in BOOLEAN
HistoryType ==
  /\ written \in Seq(Entry) /\ orphans \in Nat
  /\ damage \subseteq {"race", "cut", "torn", "begun", "mixed"}
  /\ bounds \in [calls : Nat, opened : Nat, crashes : Nat, failed : Nat]

(* A handle is opened before its threads do anything; only a log has been  *)
(* written; a thread knows the end of the file once it has sought it.      *)
PhaseInv ==
  /\ writer.pc # "open" => \A t \in Threads : thread[t] = Idle
  /\ writer.pc = "opening" => Header = EmptyHeader
  /\ writer.pc = "open" => file.kind = "log"
  /\ file.kind # "log" => file.body = <<>> /\ file.header = EmptyHeader /\ written = <<>>
  /\ \A t \in Threads :
       /\ thread[t].pc \in {"find", "pick", "copy", "lock", "seek"} => thread[t].end = -1
       /\ thread[t].pc = "write" => thread[t].end # -1

TypeInv == FileType /\ WriterType /\ ThreadType /\ ReaderType /\ HistoryType /\ PhaseInv

(* A thread that wrote, or tried to.                                       *)
Wrote(t) == At(t, "failed") /\ thread[t].end # -1

(* Until a file is cut without need the lock is with the thread that       *)
(* acquired it.                                                            *)
HasLock(t) == thread[t].pc \in {"seek", "write", "release", "loops"} \/ Wrote(t)
LockInv == "cut" \notin damage => \A t \in Threads : HasLock(t) => writer.lock = t

(* The body begins with what was written; what a failed write left is      *)
(* behind it, and the thread that left it knows where it begins.           *)
BodyInv ==
  /\ IsPlaced(written)
  /\ damage \cap {"cut", "torn", "mixed"} = {} =>
       /\ Starts(file.body, written)
       /\ (\A t \in Threads : ~Wrote(t)) => Len(file.body) = Len(Flat(written))
       /\ \A t \in Threads : Wrote(t) => thread[t].end = Len(Flat(written))
       /\ \A t \in Threads : At(t, "write") =>
            writer.position = Len(file.body) /\ thread[t].end = Len(file.body)

(* The header in memory counts what was written but for the orphans, the   *)
(* one in the file no more than that.                                      *)
NumberIn(w, s) == Cardinality({k \in DOMAIN w : w[k].request.severity = s})
Numbers(w) == [count |-> [s \in Severities |-> NumberIn(w, s)]]
Lag == Len(written) - Total(file.header)
Releasing == \E t \in Threads : At(t, "release")
Less(header, other) == \A s \in Severities : header.count[s] <= other.count[s]
CountInv ==
  /\ Numbers(written).count \in Counts /\ Total(Numbers(written)) = Len(written)
  /\ Less(file.header, Numbers(written))
  /\ writer.pc = "open" =>
       /\ Less(file.header, Header) /\ Less(Header, Numbers(written))
       /\ Total(Header) + orphans = Len(written)
  /\ writer.pc # "open" => Lag = orphans
  /\ damage \cap {"cut", "begun"} = {} =>
       /\ orphans <= bounds.crashes + bounds.failed
       /\ Lag <= bounds.crashes + bounds.failed + (IF Releasing THEN 1 ELSE 0)
  /\ "cut" \notin damage /\ writer.pc = "open" /\ bounds.failed = 0 /\ ~Releasing =>
       file.header.count = Header.count

(* The slots of the first entries have their components in a header.       *)
Names(header, number) ==
  \A k \in 1 .. number :
    k \in DOMAIN written => header.components[written[k].slot] = written[k].request.component
SlotsInv ==
  "race" \notin damage =>
    /\ orphans = 0 => Names(file.header, Total(file.header))
    /\ orphans = 0 /\ writer.pc = "open" => Names(Header, Len(written))
    /\ \A t \in Threads : thread[t].pc \in {"lock", "seek", "write"} =>
         Header.components[thread[t].slot] = Request(t).component

(* What a reader knows, unless the file was begun anew since.              *)
ReaderInv ==
  reader # NoReader /\ ~reader.disturbed =>
    /\ Total(reader.header) <= Len(written)
    /\ "race" \notin damage /\ orphans = 0 => Names(reader.header, Total(reader.header))
    /\ reader.pc # "exported" => reader.entries = <<>> /\ reader.lines = <<>>
    /\ Mapped /\ damage \cap {"cut", "torn", "mixed"} = {} =>
         reader.index = [k \in 1 .. Total(reader.header) |-> Begin(written, k)]
    /\ reader.pc = "fault" /\ damage \cap {"cut", "torn", "mixed"} = {} => Total(reader.header) = 0
    /\ reader.pc = "exported" =>
         /\ DOMAIN reader.entries \subseteq DOMAIN reader.index
         /\ reader.lines = [k \in DOMAIN reader.entries |-> ConvertLogEntryToText(reader.entries[k])]
    /\ reader.pc = "exported" /\ damage \cap {"cut", "torn", "mixed"} = {} =>
         \A k \in DOMAIN reader.entries :
           LET entry == reader.entries[k]
               e == written[k]
           IN /\ entry.severity = e.request.severity
              /\ entry.component = reader.header.components[e.slot]
              /\ IsSplit(e.request.text, entry.textHeader, entry.text)

IInv == TypeInv /\ LockInv /\ BodyInv /\ CountInv /\ SlotsInv /\ ReaderInv

-----------------------------------------------------------------------------
(* Types.                                                                  *)

LEMMA NulIsCell == NUL \in Cell
BY DEF NUL, Char, Chars, Cell

LEMMA OverwrittenType ==
  ASSUME NEW body \in Seq(Cell), NEW position \in Nat, NEW cells \in Seq(Cell)
  PROVE  LET new == Overwritten(body, position, cells)
         IN new \in Seq(Cell) /\ (position = Len(body) => new = body \o cells)
<1> DEFINE end == position + Len(cells)
           length == IF end > Len(body) THEN end ELSE Len(body)
           new == Overwritten(body, position, cells)
<1>1. Len(body) \in Nat /\ Len(cells) \in Nat /\ end \in Nat /\ length \in Nat
  OBVIOUS
<1>2. /\ new = [i \in 1 .. length |-> new[i]]
      /\ \A i \in 1 .. length :
           /\ i \in (position + 1) .. end => new[i] = cells[i - position]
           /\ i \notin (position + 1) .. end /\ i <= Len(body) => new[i] = body[i]
           /\ i \notin (position + 1) .. end /\ ~(i <= Len(body)) => new[i] = NUL
  <2> DEFINE in(i) == i \in (position + 1) .. end
             within(i) == i <= Len(body)
             value(i) == CASE in(i) -> cells[i - position]
                           [] ~in(i) /\ within(i) -> body[i]
                           [] OTHER -> NUL
  <2>1. new = [i \in 1 .. length |-> value(i)]
    BY DEF Overwritten
  <2>2. \A i : /\ in(i) => value(i) = cells[i - position]
               /\ ~in(i) /\ within(i) => value(i) = body[i]
               /\ ~in(i) /\ ~within(i) => value(i) = NUL
    <3> HIDE DEF in, within
    <3> QED OBVIOUS
  <2> HIDE DEF value, new, length
  <2> QED BY <2>1, <2>2
<1> HIDE DEF new
<1>3. \A i \in 1 .. length : new[i] \in Cell
  <2> SUFFICES ASSUME NEW i \in 1 .. length PROVE new[i] \in Cell
    OBVIOUS
  <2>1. CASE i \in (position + 1) .. end
    <3>1. i - position \in 1 .. Len(cells)
      BY <1>1, <2>1
    <3>2. cells[i - position] \in Cell
      BY <3>1
    <3>3. new[i] = cells[i - position]
      BY <1>2, <2>1
    <3> QED BY <3>2, <3>3
  <2>2. CASE i \notin (position + 1) .. end /\ i <= Len(body)
    <3>1. i \in 1 .. Len(body)
      BY <1>1, <2>2
    <3>2. new[i] = body[i]
      BY <1>2, <2>2
    <3> QED BY <3>1, <3>2
  <2>3. CASE i \notin (position + 1) .. end /\ ~(i <= Len(body))
    BY <1>2, <2>3, NulIsCell
  <2> QED BY <2>1, <2>2, <2>3
<1>4. new \in [1 .. length -> Cell]
  BY <1>2, <1>3
<1>5. new \in Seq(Cell) /\ Len(new) = length
  BY <1>1, <1>4
<1>7. ASSUME position = Len(body) PROVE new = body \o cells
  <2> DEFINE both == body \o cells
  <2>1. both \in Seq(Cell) /\ Len(both) = length
    BY <1>1, <1>7
  <2>2. ASSUME NEW i \in 1 .. length PROVE new[i] = both[i]
    <3>1. CASE i \in (position + 1) .. end
      <4>1. new[i] = cells[i - position]
        BY <1>2, <3>1
      <4>2. both[i] = cells[i - position]
        BY <1>1, <1>7, <3>1
      <4> QED BY <4>1, <4>2
    <3>2. CASE i \notin (position + 1) .. end
      <4>1. i \in 1 .. Len(body)
        BY <1>1, <1>7, <3>2
      <4>2. new[i] = body[i]
        <5>1. i <= Len(body)
          BY <1>1, <4>1
        <5> QED BY <1>2, <3>2, <5>1
      <4>3. both[i] = body[i]
        BY <1>1, <4>1
      <4> QED BY <4>2, <4>3
    <3> QED BY <3>1, <3>2
  <2> HIDE DEF both, length
  <2>3. new = both
    BY <1>5, <2>1, <2>2, SeqEqual
  <2> QED BY <2>3 DEF both
<1> QED BY <1>5, <1>7 DEF new

LEMMA CutAtType ==
  ASSUME NEW body \in Seq(Cell), NEW end \in Nat
  PROVE  /\ CutAt(body, end) \in Seq(Cell) /\ Len(CutAt(body, end)) = end
         /\ \A i \in 1 .. end : i \in 1 .. Len(body) => CutAt(body, end)[i] = body[i]
<1>1. Len(body) \in Nat /\ DOMAIN body = 1 .. Len(body)
  OBVIOUS
<1>2. \A i \in 1 .. end : (IF i \in DOMAIN body THEN body[i] ELSE NUL) \in Cell
  BY NulIsCell
<1>3. CutAt(body, end) \in [1 .. end -> Cell]
  BY <1>2 DEF CutAt
<1>4. \A i \in 1 .. end : i \in 1 .. Len(body) => CutAt(body, end)[i] = body[i]
  BY <1>1 DEF CutAt
<1> QED BY <1>3, <1>4

LEMMA EmptyHeaderType ==
  /\ EmptyHeader \in Headers /\ Total(EmptyHeader) = 0
  /\ 0 \in Slots /\ <<>> \in Seq(Cell) /\ <<>> \in Seq(Entry)
<1>1. EmptyHeader.count = [s \in Severities |-> 0]
  BY DEF EmptyHeader
<1>2. EmptyHeader.count \in Counts /\ Total(EmptyHeader) = 0
  BY <1>1, TotalEmpty
<1>3. 0 \in Slots
  BY VxlLegacyAssumption DEF Slots
<1> QED BY <1>1, <1>2, <1>3 DEF EmptyHeader, Headers, Components

LEMMA InitType == Init => TypeInv
<1> SUFFICES ASSUME Init PROVE TypeInv
  OBVIOUS
<1>1. FileType /\ file.body = <<>> /\ file.header = EmptyHeader
  <2>1. PICK e \in BOOLEAN, k \in {"empty", "log"} \cup Foreign : file = File(e, k)
    BY DEF Init
  <2> QED BY <2>1, EmptyHeaderType DEF FileType, File
<1>2. \A t \in Threads : thread[t] = Idle /\ thread[t].pc = "idle"
  BY DEF Init, Idle
<1>3. writer = NoWriter /\ writer.pc = "none" /\ reader = NoReader
  BY DEF Init, NoWriter
<1>4. ThreadType
  BY DEF Init, ThreadType, Others
<1>5. HistoryType /\ written = <<>>
  BY DEF Init, HistoryType
<1>6. PhaseInv
  BY <1>1, <1>2, <1>3, <1>5 DEF PhaseInv
<1> QED BY <1>1, <1>3, <1>4, <1>5, <1>6 DEF TypeInv, WriterType, ReaderType

(* The threads of a handle that is open, and what their pc says of them.   *)
LEMMA CallType ==
  ASSUME TypeInv, NEW t \in Threads
  PROVE  /\ thread[t].pc \in {"find", "pick", "copy", "lock", "seek", "write", "failed"} =>
              thread[t] \in Calls
         /\ thread[t].pc # "idle" =>
              /\ writer \in Writers /\ writer.pc = "open"
              /\ file.kind = "log" /\ Header \in Headers
<1>1. thread[t] \in Calls \cup Others
  BY DEF TypeInv, ThreadType
<1>2. thread[t].pc \in {"find", "pick", "copy", "lock", "seek", "write", "failed"} => thread[t] \in Calls
  BY <1>1 DEF Others, Idle
<1>3. ASSUME thread[t].pc # "idle"
      PROVE  /\ writer \in Writers /\ writer.pc = "open"
             /\ file.kind = "log" /\ Header \in Headers
  <2>1. writer.pc = "open"
    BY <1>3 DEF TypeInv, PhaseInv, Idle
  <2> QED BY <2>1 DEF TypeInv, PhaseInv, WriterType, NoWriter, Writers, Header
<1> QED BY <1>2, <1>3

LEMMA NextFileType ==
  ASSUME TypeInv, [Next]_vars
  PROVE  FileType'
<1> USE DEF FileType
<1>0. FileType
  BY DEF TypeInv
<1>1. CASE CreateLogFile
  <2>1. PICK flags \in Flags : file' = CreateFile(file, TranslateFileOpenFlags(flags))
    BY <1>1 DEF CreateLogFile
  <2> QED BY <1>0, <2>1, EmptyHeaderType DEF CreateFile, File
<1>2. CASE WriteFirstHeader
  <2>1. <<>> \in Seq(Cell) /\ <<NUL>> \in Seq(Cell)
    BY NulIsCell
  <2>2. PICK body \in Seq(Cell) :
          file' = [file EXCEPT !.kind = "log", !.header = EmptyHeader, !.body = body]
    BY <1>0, <1>2, <2>1 DEF WriteFirstHeader
  <2> QED BY <1>0, <2>2, EmptyHeaderType
<1>3. ASSUME NEW t \in Threads, WriteEntry(t) PROVE FileType'
  <2>1. writer.position \in Nat /\ thread[t] \in Calls
    BY <1>3, CallType DEF WriteEntry, At, Writers
  <2> DEFINE cells == EntryCells(Request(t), thread[t].slot)
  <2>2. cells \in Seq(Cell) /\ Len(cells) \in Nat /\ Len(cells) >= 2
    BY <2>1, CellsType DEF Calls, Request
  <2>3. PICK c \in Seq(Cell) : file' = [file EXCEPT !.body = Overwritten(@, writer.position, c)]
    <3>1. CASE file' = [file EXCEPT !.body = Overwritten(@, writer.position, cells)]
      BY <2>2, <3>1
    <3>2. ASSUME NEW n \in {0, 1},
                 file' = [file EXCEPT !.body = Overwritten(@, writer.position, SubSeq(cells, 1, n))]
          PROVE  \E c \in Seq(Cell) : file' = [file EXCEPT !.body = Overwritten(@, writer.position, c)]
      <4> HIDE DEF cells
      <4>1. SubSeq(cells, 1, n) \in Seq(Cell)
        BY <2>2
      <4> QED BY <3>2, <4>1
    <3> QED BY <1>3, <3>1, <3>2 DEF WriteEntry
  <2>4. Overwritten(file.body, writer.position, c) \in Seq(Cell)
    BY <1>0, <2>1, OverwrittenType
  <2> QED BY <1>0, <2>3, <2>4
<1>4. ASSUME NEW t \in Threads, RollBack(t) PROVE FileType'
  <2>1. thread[t].end \in Nat \cup {-1}
    BY <1>4, CallType DEF RollBack, At, Calls
  <2>2. PICK end \in Nat : file' = file \/ file' = [file EXCEPT !.body = CutAt(@, end)]
    <3>1. writer.position \in Nat
      BY <1>4, CallType DEF RollBack, At, Writers
    <3> QED BY <1>4, <2>1, <3>1, VxlLegacyAssumption DEF RollBack
  <2>3. CutAt(file.body, end) \in Seq(Cell)
    BY <1>0, CutAtType
  <2> QED BY <1>0, <2>2, <2>3
<1>5. ASSUME NEW t \in Threads, ReleaseFileLock(t) PROVE FileType'
  <2>1. Header \in Headers
    BY <1>5, CallType DEF ReleaseFileLock, At, Writers
  <2> QED BY <1>0, <1>5, <2>1 DEF ReleaseFileLock
<1>6. ASSUME NEW t \in Threads,
             \/ LogEx(t) \/ FindSourceComponentIndex(t) \/ PickSlot(t) \/ CopyName(t)
             \/ AcquireFileLock(t) \/ SeekEnd(t) \/ QueryLogInformation(t)
      PROVE  FileType'
  BY <1>0, <1>6
  DEF LogEx, FindSourceComponentIndex, PickSlot, CopyName, AcquireFileLock, SeekEnd, QueryLogInformation
<1>7. CASE \/ ReadLogFileHeader \/ OpenFails \/ CloseLogFile \/ Crash \/ OpenLogFileReadOnly
           \/ MapAndIndex \/ MapFails \/ ExportLogToText \/ CloseReader \/ UNCHANGED vars
  BY <1>0, <1>7
  DEF ReadLogFileHeader, OpenFails, CloseLogFile, Crash, Leave, OpenLogFileReadOnly, MapAndIndex,
      MapFails, ExportLogToText, CloseReader, vars
<1> QED BY <1>1, <1>2, <1>3, <1>4, <1>5, <1>6, <1>7 DEF Next, Thread

LEMMA NextWriterType ==
  ASSUME TypeInv, [Next]_vars
  PROVE  WriterType'
<1> USE DEF WriterType
<1>0. WriterType /\ file.body \in Seq(Cell) /\ Len(file.body) \in Nat
  BY DEF TypeInv, FileType
<1>1. CASE CreateLogFile
  <2>1. writer' = [pc |-> "opening", header |-> EmptyHeader, position |-> 0, lock |-> "free"]
    BY <1>1 DEF CreateLogFile
  <2> QED BY <2>1, EmptyHeaderType DEF Writers
<1>2. CASE WriteFirstHeader
  BY <1>0, <1>2 DEF WriteFirstHeader, Writers, NoWriter
<1>3. CASE ReadLogFileHeader
  <2>1. file.header \in Headers
    BY DEF TypeInv, FileType
  <2>2. writer \in Writers
    BY <1>0, <1>3 DEF ReadLogFileHeader, NoWriter
  <2>3. writer' = [writer EXCEPT !.pc = "open", !.header = file.header]
    BY <1>3 DEF ReadLogFileHeader
  <2> QED BY <2>1, <2>2, <2>3 DEF Writers
<1>4. CASE OpenFails \/ CloseLogFile \/ Crash
  BY <1>4 DEF OpenFails, CloseLogFile, Crash, Leave
<1>5. ASSUME NEW t \in Threads, CopyName(t) PROVE WriterType'
  <2>1. writer \in Writers /\ thread[t] \in Calls
    BY <1>5, CallType DEF CopyName, At
  <2>2. Request(t).component \in Components /\ [cut |-> Request(t).component] \in Components
    BY <2>1 DEF Components, Calls, Request
  <2>3. PICK name \in Components :
          writer' = [writer EXCEPT !.header.components[thread[t].slot] = name]
    BY <1>5, <2>2 DEF CopyName
  <2> QED BY <2>1, <2>3 DEF Writers, Headers
<1>6. ASSUME NEW t \in Threads, AcquireFileLock(t) PROVE WriterType'
  <2>1. writer \in Writers
    BY <1>6, CallType DEF AcquireFileLock, At
  <2> QED BY <1>6, <2>1 DEF AcquireFileLock, Writers
<1>7. ASSUME NEW t \in Threads, SeekEnd(t) PROVE WriterType'
  <2>1. writer \in Writers
    BY <1>7, CallType DEF SeekEnd, At
  <2> QED BY <1>0, <1>7, <2>1 DEF SeekEnd, Writers
<1>8. ASSUME NEW t \in Threads, WriteEntry(t) PROVE WriterType'
  <2>1. writer \in Writers /\ thread[t] \in Calls /\ Header \in Headers
    BY <1>8, CallType DEF WriteEntry, At
  <2> DEFINE cells == EntryCells(Request(t), thread[t].slot)
  <2>2. cells \in Seq(Cell) /\ Len(cells) \in Nat
    BY <2>1, CellsType DEF Calls, Request
  <2>3. Request(t).severity \in Severities
    BY <2>1, RequestType DEF Calls, Request
  <2> HIDE DEF cells
  <2>4. CASE writer' = [writer EXCEPT !.position = @ + Len(cells),
                                      !.header = Counted(@, Request(t).severity)]
    <3> DEFINE h == Counted(Header, Request(t).severity)
               n == writer.position + Len(cells)
    <3>1. h \in Headers
      BY <2>1, <2>3 DEF Counted, Headers, Counts
    <3>2. n \in Nat
      BY <2>1, <2>2 DEF Writers
    <3>3. writer' = [writer EXCEPT !.position = n, !.header = h]
      BY <2>4 DEF Header
    <3> HIDE DEF h, n
    <3> QED BY <2>1, <3>1, <3>2, <3>3 DEF Writers
  <2>5. ASSUME NEW moved \in {0, 1}, writer' = [writer EXCEPT !.position = @ + moved]
        PROVE  WriterType'
    <3>1. writer.position + moved \in Nat
      BY <2>1 DEF Writers
    <3> QED BY <2>1, <2>5, <3>1 DEF Writers
  <2> QED BY <1>8, <2>4, <2>5 DEF WriteEntry, cells
<1>9. ASSUME NEW t \in Threads, RollBack(t) PROVE WriterType'
  <2>1. writer \in Writers /\ thread[t].end \in Nat \cup {-1}
    BY <1>9, CallType DEF RollBack, At, Calls
  <2>2. PICK position \in Nat : writer' = [writer EXCEPT !.position = position]
    <3>1. writer.position \in Nat
      BY <2>1 DEF Writers
    <3> QED BY <1>9, <2>1, <3>1, VxlLegacyAssumption DEF RollBack
  <2> QED BY <2>1, <2>2 DEF Writers
<1>10. ASSUME NEW t \in Threads, ReleaseFileLock(t) PROVE WriterType'
  <2>1. writer \in Writers
    BY <1>10, CallType DEF ReleaseFileLock, At
  <2>2. PICK lock \in {writer.lock, "free", "broken"} :
          writer' = [writer EXCEPT !.position = 0, !.lock = lock]
    BY <1>10 DEF ReleaseFileLock
  <2> QED BY <2>1, <2>2 DEF Writers
<1>11. ASSUME NEW t \in Threads, QueryLogInformation(t) PROVE WriterType'
  <2>1. writer \in Writers
    BY <1>0, <1>11 DEF QueryLogInformation, NoWriter
  <2> QED BY <1>11, <2>1 DEF QueryLogInformation, Writers
<1>12. ASSUME NEW t \in Threads, LogEx(t) \/ FindSourceComponentIndex(t) \/ PickSlot(t)
       PROVE  WriterType'
  BY <1>0, <1>12 DEF LogEx, FindSourceComponentIndex, PickSlot
<1>13. CASE \/ OpenLogFileReadOnly \/ MapAndIndex \/ MapFails \/ ExportLogToText \/ CloseReader
            \/ UNCHANGED vars
  BY <1>0, <1>13 DEF OpenLogFileReadOnly, MapAndIndex, MapFails, ExportLogToText, CloseReader, vars
<1> QED
  BY <1>1, <1>2, <1>3, <1>4, <1>5, <1>6, <1>7, <1>8, <1>9, <1>10, <1>11, <1>12, <1>13
  DEF Next, Thread

LEMMA NextThreadType ==
  ASSUME TypeInv, [Next]_vars
  PROVE  ThreadType'
<1> USE DEF ThreadType
<1>0. ThreadType /\ Idle \in Others
  BY DEF TypeInv, Others
<1>1. ASSUME NEW t \in Threads, LogEx(t) PROVE ThreadType'
  <2>1. PICK r \in Requests :
          thread' = [thread EXCEPT ![t] = [pc |-> "find", request |-> r, slot |-> 0, end |-> -1]]
    BY <1>1 DEF LogEx
  <2> QED BY <1>0, <2>1, EmptyHeaderType DEF Calls
<1>2. ASSUME NEW t \in Threads, FindSourceComponentIndex(t) PROVE ThreadType'
  <2>1. thread[t] \in Calls
    BY <1>2, CallType DEF FindSourceComponentIndex, At
  <2> DEFINE equal == {i \in Slots : Header.components[i] = Request(t).component}
             first == CHOOSE i \in equal : \A j \in equal : i <= j
  <2>2. CASE equal = {}
    BY <1>0, <1>2, <2>1, <2>2 DEF FindSourceComponentIndex, Goto, Calls
  <2>3. CASE equal # {}
    <3>1. equal \subseteq Nat
      BY VxlLegacyAssumption DEF Slots
    <3>2. \E i \in equal : \A j \in equal : i <= j
      BY <2>3, <3>1, LeastNumber
    <3>3. first \in Slots
      BY <3>2
    <3>4. thread' = [thread EXCEPT ![t].slot = first, ![t].pc = "lock"]
      BY <1>2, <2>3 DEF FindSourceComponentIndex
    <3> HIDE DEF first
    <3> QED BY <1>0, <2>1, <3>3, <3>4 DEF Calls
  <2> QED BY <2>2, <2>3
<1>3. ASSUME NEW t \in Threads, PickSlot(t) PROVE ThreadType'
  <2>1. thread[t] \in Calls
    BY <1>3, CallType DEF PickSlot, At
  <2> DEFINE unused == {i \in Slots : Header.components[i] = NoName}
             first == CHOOSE i \in unused : \A j \in unused : i <= j
  <2>2. CASE unused = {}
    BY <1>0, <1>3, <2>1, <2>2 DEF PickSlot, Goto, Calls
  <2>3. CASE unused # {}
    <3>1. unused \subseteq Nat
      BY VxlLegacyAssumption DEF Slots
    <3>2. \E i \in unused : \A j \in unused : i <= j
      BY <2>3, <3>1, LeastNumber
    <3>3. first \in Slots
      BY <3>2
    <3>4. thread' = [thread EXCEPT ![t].slot = first, ![t].pc = "copy"]
      BY <1>3, <2>3 DEF PickSlot
    <3> HIDE DEF first
    <3> QED BY <1>0, <2>1, <3>3, <3>4 DEF Calls
  <2> QED BY <2>2, <2>3
<1>4. ASSUME NEW t \in Threads, CopyName(t) \/ AcquireFileLock(t) \/ WriteEntry(t) \/ RollBack(t)
      PROVE  ThreadType'
  <2>1. thread[t] \in Calls
    BY <1>4, CallType DEF CopyName, AcquireFileLock, WriteEntry, RollBack, At
  <2>2. PICK pc \in {"failed", "lock", "seek", "release"} : thread' = [thread EXCEPT ![t].pc = pc]
    BY <1>4 DEF CopyName, AcquireFileLock, WriteEntry, RollBack, Goto
  <2> QED BY <1>0, <2>1, <2>2 DEF Calls
<1>5. ASSUME NEW t \in Threads, SeekEnd(t) PROVE ThreadType'
  <2>1. thread[t] \in Calls /\ Len(file.body) \in Nat
    BY <1>5, CallType DEF SeekEnd, At, TypeInv, FileType
  <2> QED BY <1>0, <1>5, <2>1 DEF SeekEnd, Goto, Calls
<1>6. ASSUME NEW t \in Threads, ReleaseFileLock(t) \/ QueryLogInformation(t) PROVE ThreadType'
  <2>1. PICK s \in Others : thread' = [thread EXCEPT ![t] = s]
    BY <1>0, <1>6 DEF ReleaseFileLock, QueryLogInformation, Others
  <2> QED BY <1>0, <2>1
<1>7. CASE OpenFails \/ CloseLogFile \/ Crash
  BY <1>0, <1>7 DEF OpenFails, CloseLogFile, Crash, Leave
<1>8. CASE \/ CreateLogFile \/ WriteFirstHeader \/ ReadLogFileHeader
           \/ OpenLogFileReadOnly \/ MapAndIndex \/ MapFails \/ ExportLogToText \/ CloseReader
           \/ UNCHANGED vars
  BY <1>0, <1>8
  DEF CreateLogFile, WriteFirstHeader, ReadLogFileHeader, OpenLogFileReadOnly, MapAndIndex, MapFails,
      ExportLogToText, CloseReader, vars
<1> QED BY <1>1, <1>2, <1>3, <1>4, <1>5, <1>6, <1>7, <1>8 DEF Next, Thread

LEMMA NextReaderType ==
  ASSUME TypeInv, [Next]_vars
  PROVE  ReaderType'
<1> USE DEF ReaderType
<1>0. ReaderType
  BY DEF TypeInv
<1>1. CASE CreateLogFile
  <2>1. reader' = reader \/ (reader # NoReader /\ reader' = [reader EXCEPT !.disturbed = TRUE])
    BY <1>1 DEF CreateLogFile
  <2> QED BY <1>0, <2>1
<1>2. CASE OpenLogFileReadOnly
  <2>1. file.header \in Headers
    BY DEF TypeInv, FileType
  <2> QED BY <1>2, <2>1 DEF OpenLogFileReadOnly
<1>3. CASE MapAndIndex
  <2>1. reader # NoReader
    BY <1>3 DEF MapAndIndex, NoReader
  <2> QED BY <1>0, <1>3, <2>1 DEF MapAndIndex
<1>4. CASE MapFails \/ CloseReader
  BY <1>4 DEF MapFails, CloseReader
<1>5. CASE ExportLogToText
  <2>0. reader.pc = "open"
    BY <1>5 DEF ExportLogToText
  <2>1. reader # NoReader
    BY <2>0 DEF NoReader
  <2>2. \/ reader' = [reader EXCEPT !.pc = "fault"]
        \/ \E e, f : reader' = [reader EXCEPT !.pc = "exported", !.entries = e, !.lines = f]
    BY <1>5 DEF ExportLogToText
  <2> QED BY <1>0, <2>1, <2>2
<1>6. ASSUME NEW t \in Threads, Thread(t) PROVE UNCHANGED reader
  BY <1>6
  DEF Thread, LogEx, FindSourceComponentIndex, PickSlot, CopyName, AcquireFileLock, SeekEnd, WriteEntry,
      RollBack, ReleaseFileLock, QueryLogInformation
<1>7. CASE \/ WriteFirstHeader \/ ReadLogFileHeader \/ OpenFails \/ CloseLogFile \/ Crash
           \/ UNCHANGED vars
  BY <1>0, <1>7
  DEF WriteFirstHeader, ReadLogFileHeader, OpenFails, CloseLogFile, Crash, Leave, vars
<1> QED BY <1>0, <1>1, <1>2, <1>3, <1>4, <1>5, <1>6, <1>7 DEF Next

(* What the counts of the file say of the orphans that a process leaves.   *)
LEMMA LagType ==
  ASSUME TypeInv, CountInv
  PROVE  /\ Lag \in Nat /\ Len(written) \in Nat /\ Total(file.header) \in Nat
         /\ orphans <= Lag
         /\ writer.pc = "open" => Total(Header) \in Nat /\ Total(file.header) <= Total(Header)
<1>1. file.header.count \in Counts /\ Numbers(written).count \in Counts /\ orphans \in Nat
  BY DEF TypeInv, FileType, Headers, CountInv, HistoryType
<1>2. Total(file.header) \in Nat /\ Len(written) \in Nat
  BY <1>1, TotalType DEF TypeInv, HistoryType
<1>3. Total(file.header) <= Len(written)
  BY <1>1, TotalCompare DEF CountInv, Less
<1>4. ASSUME writer.pc = "open"
      PROVE  Total(Header) \in Nat /\ Total(file.header) <= Total(Header) /\ orphans <= Lag
  <2>1. Header.count \in Counts
    BY <1>4 DEF TypeInv, WriterType, NoWriter, Writers, Header, Headers
  <2>2. Total(Header) \in Nat /\ Total(file.header) <= Total(Header)
    BY <1>1, <1>4, <2>1, TotalType, TotalCompare DEF CountInv, Less
  <2>3. Total(Header) + orphans = Len(written)
    BY <1>4 DEF CountInv
  <2> QED BY <1>1, <1>2, <2>2, <2>3 DEF Lag
<1>5. CASE writer.pc # "open"
  BY <1>1, <1>2, <1>3, <1>5 DEF CountInv, Lag
<1> QED BY <1>2, <1>3, <1>4, <1>5 DEF Lag

(* What some of the actions do, for the cases of the proofs below.         *)

LEMMA CreateStep ==
  ASSUME CreateLogFile
  PROVE  /\ writer = NoWriter /\ thread' = thread
         /\ writer' = [pc |-> "opening", header |-> EmptyHeader, position |-> 0, lock |-> "free"]
         /\ \/ UNCHANGED <<file, written, orphans, damage, reader>>
            \/ /\ file' = File(TRUE, "empty") /\ written' = <<>> /\ orphans' = 0 /\ damage' = {}
               /\ reader' = IF reader = NoReader THEN reader ELSE [reader EXCEPT !.disturbed = TRUE]
         /\ Spend("opened", MaxOpened)
<1>1. PICK flags \in Flags :
        \E f \in {CreateFile(file, TranslateFileOpenFlags(flags))} :
          /\ file' = f
          /\ IF f = file THEN UNCHANGED <<written, orphans, damage, reader>>
             ELSE /\ written' = <<>> /\ orphans' = 0 /\ damage' = {}
                  /\ reader' = IF reader = NoReader THEN reader
                               ELSE [reader EXCEPT !.disturbed = TRUE]
  BY DEF CreateLogFile
<1>2. file' = file \/ file' = File(TRUE, "empty")
  BY <1>1 DEF CreateFile
<1>3. \/ UNCHANGED <<file, written, orphans, damage, reader>>
      \/ /\ file' = File(TRUE, "empty") /\ written' = <<>> /\ orphans' = 0 /\ damage' = {}
         /\ reader' = IF reader = NoReader THEN reader ELSE [reader EXCEPT !.disturbed = TRUE]
  BY <1>1, <1>2
<1> QED BY <1>3 DEF CreateLogFile

NewEntry(t) == [request |-> Request(t), slot |-> thread[t].slot]

LEMMA WriteStep ==
  ASSUME TypeInv, NEW t \in Threads, WriteEntry(t)
  PROVE  /\ At(t, "write") /\ thread[t] \in Calls /\ NewEntry(t) \in Entry
         /\ UNCHANGED <<reader, orphans, damage>>
         /\ \/ /\ file' = [file EXCEPT !.body = Overwritten(@, writer.position, CellsOf(NewEntry(t)))]
               /\ writer' = [writer EXCEPT !.position = @ + Len(CellsOf(NewEntry(t))),
                                           !.header = Counted(@, Request(t).severity)]
               /\ written' = Append(written, NewEntry(t))
               /\ thread' = [thread EXCEPT ![t].pc = "release"]
               /\ UNCHANGED bounds
            \/ /\ Spend("failed", MaxFailed)
               /\ \E c \in Seq(Cell) :
                    file' = [file EXCEPT !.body = Overwritten(@, writer.position, c)]
               /\ \E p : writer' = [writer EXCEPT !.position = p]
               /\ thread' = [thread EXCEPT ![t].pc = "failed"]
               /\ UNCHANGED written
<1> DEFINE cells == EntryCells(Request(t), thread[t].slot)
<1>1. At(t, "write") /\ thread[t] \in Calls
  BY CallType DEF WriteEntry, At
<1>2. Request(t) \in Requests /\ thread[t].slot \in Slots
  BY <1>1 DEF Calls, Request
<1>3. NewEntry(t) \in Entry /\ CellsOf(NewEntry(t)) = cells
  BY <1>2 DEF NewEntry, Entry, CellsOf
<1>4. cells \in Seq(Cell)
  BY <1>2, CellsType
<1> HIDE DEF cells
<1>5. \A n \in {0, 1} : SubSeq(cells, 1, n) \in Seq(Cell)
  <2>1. SubSeq(cells, 1, 0) \in Seq(Cell)
    BY <1>4
  <2>2. SubSeq(cells, 1, 1) \in Seq(Cell)
    <3>1. Len(cells) >= 2
      BY <1>2, CellsType DEF cells
    <3> QED BY <1>4, <3>1
  <2> QED BY <2>1, <2>2
<1>6. CASE /\ file' = [file EXCEPT !.body = Overwritten(@, writer.position, cells)]
           /\ writer' = [writer EXCEPT !.position = @ + Len(cells),
                                       !.header = Counted(@, Request(t).severity)]
           /\ written' = Append(written, [request |-> Request(t), slot |-> thread[t].slot])
           /\ Goto(t, "release")
           /\ UNCHANGED bounds
  BY <1>1, <1>3, <1>6 DEF WriteEntry, Goto, NewEntry
<1>7. CASE /\ Fails
           /\ \E n \in {0, 1} :
                /\ file' = [file EXCEPT !.body = Overwritten(@, writer.position, SubSeq(cells, 1, n))]
                /\ \E moved \in {0, n} : writer' = [writer EXCEPT !.position = @ + moved]
           /\ Goto(t, "failed")
           /\ UNCHANGED written
  BY <1>1, <1>3, <1>5, <1>7 DEF WriteEntry, Goto, Fails
<1> QED BY <1>6, <1>7 DEF WriteEntry, cells

LEMMA NextHistoryType ==
  ASSUME TypeInv, CountInv, [Next]_vars
  PROVE  HistoryType'
<1> USE DEF HistoryType
<1>0. HistoryType /\ Lag \in Nat
  BY LagType DEF TypeInv
<1>1. ASSUME NEW what \in {"calls", "opened", "crashes", "failed"}, NEW max, Spend(what, max)
      PROVE  bounds' \in [calls : Nat, opened : Nat, crashes : Nat, failed : Nat]
  BY <1>0, <1>1 DEF Spend
<1>2. CASE CreateLogFile
  <2>1. /\ \/ UNCHANGED <<written, orphans, damage>>
           \/ written' = <<>> /\ orphans' = 0 /\ damage' = {}
        /\ Spend("opened", MaxOpened)
    BY <1>2, CreateStep
  <2>2. bounds' \in [calls : Nat, opened : Nat, crashes : Nat, failed : Nat]
    BY <1>1, <2>1
  <2>3. CASE UNCHANGED <<written, orphans, damage>>
    BY <1>0, <2>2, <2>3
  <2>4. CASE written' = <<>> /\ orphans' = 0 /\ damage' = {}
    BY <2>2, <2>4, EmptyHeaderType
  <2> QED BY <2>1, <2>3, <2>4
<1>3. CASE OpenFails \/ MapFails
  <2>1. UNCHANGED bounds \/ Spend("failed", MaxFailed)
    BY <1>3 DEF OpenFails, MapFails, Fails
  <2>2. UNCHANGED <<written, orphans, damage>>
    BY <1>3 DEF OpenFails, MapFails
  <2> QED BY <1>0, <1>1, <2>1, <2>2
<1>4. CASE CloseLogFile \/ Crash
  <2>1. UNCHANGED bounds \/ Spend("crashes", MaxCrashes)
    BY <1>4 DEF CloseLogFile, Crash
  <2>2. written' = written /\ orphans' = Lag /\ damage' \in {damage, damage \cup {"torn"}}
    BY <1>4 DEF CloseLogFile, Crash, Leave, Lag
  <2> QED BY <1>0, <1>1, <2>1, <2>2
<1>5. ASSUME NEW t \in Threads, LogEx(t) \/ QueryLogInformation(t) PROVE HistoryType'
  <2>1. Spend("calls", MaxWritten) /\ UNCHANGED <<written, orphans, damage>>
    BY <1>5 DEF LogEx, QueryLogInformation
  <2> QED BY <1>0, <1>1, <2>1
<1>6. ASSUME NEW t \in Threads, CopyName(t) \/ RollBack(t) PROVE HistoryType'
  <2>0. UNCHANGED bounds \/ Spend("failed", MaxFailed)
    BY <1>6 DEF CopyName, RollBack, Fails
  <2>1. \E what \in {"race", "cut", "torn"} : damage' \in {damage, damage \cup {what}}
    BY <1>6 DEF CopyName, RollBack
  <2>2. UNCHANGED <<written, orphans>>
    BY <1>6 DEF CopyName, RollBack
  <2> QED BY <1>0, <1>1, <2>0, <2>1, <2>2
<1>7. ASSUME NEW t \in Threads, SeekEnd(t) \/ ReleaseFileLock(t) PROVE HistoryType'
  <2>1. UNCHANGED bounds \/ Spend("failed", MaxFailed)
    BY <1>7 DEF SeekEnd, ReleaseFileLock, Fails
  <2>2. UNCHANGED <<written, orphans, damage>>
    BY <1>7 DEF SeekEnd, ReleaseFileLock
  <2> QED BY <1>0, <1>1, <2>1, <2>2
<1>8. ASSUME NEW t \in Threads, WriteEntry(t) PROVE HistoryType'
  <2>1. /\ UNCHANGED bounds \/ Spend("failed", MaxFailed)
        /\ UNCHANGED <<orphans, damage>> /\ NewEntry(t) \in Entry
        /\ written' = written \/ written' = Append(written, NewEntry(t))
    BY <1>8, WriteStep
  <2>2. written' \in Seq(Entry)
    BY <1>0, <2>1
  <2> QED BY <1>0, <1>1, <2>1, <2>2
<1>9. ASSUME NEW t \in Threads, FindSourceComponentIndex(t) \/ PickSlot(t) \/ AcquireFileLock(t)
      PROVE  HistoryType'
  BY <1>0, <1>9 DEF FindSourceComponentIndex, PickSlot, AcquireFileLock
<1>10. CASE WriteFirstHeader
  <2>1. /\ UNCHANGED bounds \/ Spend("failed", MaxFailed)
        /\ written' = written /\ orphans' = Len(written)
        /\ damage' \subseteq damage \cup {"begun", "mixed"}
    BY <1>10 DEF WriteFirstHeader, Fails
  <2> QED BY <1>0, <1>1, <2>1
<1>11. CASE ExportLogToText
  <2>1. UNCHANGED bounds \/ Spend("failed", MaxFailed)
    BY <1>11 DEF ExportLogToText, Fails
  <2>2. UNCHANGED <<written, orphans, damage>>
    BY <1>11 DEF ExportLogToText
  <2> QED BY <1>0, <1>1, <2>1, <2>2
<1>12. CASE ReadLogFileHeader \/ OpenLogFileReadOnly \/ MapAndIndex \/ CloseReader \/ UNCHANGED vars
  BY <1>0, <1>12 DEF ReadLogFileHeader, OpenLogFileReadOnly, MapAndIndex, CloseReader, vars
<1> QED
  BY <1>2, <1>3, <1>4, <1>5, <1>6, <1>7, <1>8, <1>9, <1>10, <1>11, <1>12 DEF Next, Thread

(* A step of a thread keeps to the handle; none but it is where it was not.*)
LEMMA ThreadStep ==
  ASSUME TypeInv, NEW t \in Threads, Thread(t)
  PROVE  /\ writer.pc = "open" /\ writer'.pc = "open" /\ writer \in Writers /\ file.kind = "log"
         /\ \A u \in Threads \ {t} : thread'[u] = thread[u]
         /\ reader' = reader /\ orphans' = orphans
         /\ file'.kind = file.kind /\ file'.exists = file.exists
<1>1. /\ writer.pc = "open" /\ writer \in Writers /\ file.kind = "log"
  <2>1. writer.pc = "open"
    BY CallType
    DEF Thread, LogEx, FindSourceComponentIndex, PickSlot, CopyName, AcquireFileLock, SeekEnd,
        WriteEntry, RollBack, ReleaseFileLock, QueryLogInformation, At
  <2> QED BY <2>1 DEF TypeInv, WriterType, PhaseInv, NoWriter
<1>2. reader' = reader /\ orphans' = orphans
  BY DEF Thread, LogEx, FindSourceComponentIndex, PickSlot, CopyName, AcquireFileLock, SeekEnd,
         WriteEntry, RollBack, ReleaseFileLock, QueryLogInformation
<1>3. \E s : thread' = [thread EXCEPT ![t] = s]
  <2>1. \A x : (\E y : x = [thread EXCEPT ![t].pc = y]) => \E s : x = [thread EXCEPT ![t] = s]
    OBVIOUS
  <2>2. \A x, y, z : (x = [thread EXCEPT ![t].slot = y, ![t].pc = z]
                      \/ x = [thread EXCEPT ![t].end = y, ![t].pc = z])
                     => \E s : x = [thread EXCEPT ![t] = s]
    OBVIOUS
  <2> QED
    BY <2>1, <2>2
    DEF Thread, LogEx, FindSourceComponentIndex, PickSlot, CopyName, AcquireFileLock, SeekEnd,
        WriteEntry, RollBack, ReleaseFileLock, QueryLogInformation, Goto
<1>4. \A u \in Threads \ {t} : thread'[u] = thread[u]
  BY <1>3 DEF TypeInv, ThreadType
<1>5. writer'.pc = "open"
  BY <1>1
  DEF Thread, LogEx, FindSourceComponentIndex, PickSlot, CopyName, AcquireFileLock, SeekEnd,
      WriteEntry, RollBack, ReleaseFileLock, QueryLogInformation, Writers
<1>6. file'.kind = file.kind /\ file'.exists = file.exists
  BY DEF Thread, LogEx, FindSourceComponentIndex, PickSlot, CopyName, AcquireFileLock, SeekEnd,
         WriteEntry, RollBack, ReleaseFileLock, QueryLogInformation, TypeInv, FileType
<1> QED BY <1>1, <1>2, <1>4, <1>5, <1>6

LEMMA NextPhaseInv ==
  ASSUME TypeInv, [Next]_vars
  PROVE  PhaseInv'
<1> USE DEF PhaseInv
<1>0. PhaseInv
  BY DEF TypeInv
<1>1. CASE CreateLogFile
  <2>1. writer = NoWriter /\ writer.pc = "none"
    BY <1>1, CreateStep DEF NoWriter
  <2>2. /\ writer'.pc = "opening" /\ writer'.header = EmptyHeader /\ thread' = thread
    BY <1>1, CreateStep
  <2>3. \/ file' = file /\ written' = written
        \/ file' = File(TRUE, "empty") /\ written' = <<>>
    BY <1>1, CreateStep
  <2> QED BY <1>0, <2>1, <2>2, <2>3 DEF File, Header
<1>2. CASE WriteFirstHeader
  <2>1. /\ writer.pc = "opening" /\ writer' = [writer EXCEPT !.pc = "open"] /\ UNCHANGED <<thread, written>>
        /\ \E body : file' = [file EXCEPT !.kind = "log", !.header = EmptyHeader, !.body = body]
    BY <1>2 DEF WriteFirstHeader
  <2>2. writer'.pc = "open" /\ file'.kind = "log"
    BY <2>1 DEF TypeInv, FileType, WriterType, Writers, NoWriter
  <2> QED BY <1>0, <2>1, <2>2
<1>3. CASE ReadLogFileHeader
  BY <1>0, <1>3 DEF ReadLogFileHeader, TypeInv, WriterType, Writers, NoWriter
<1>4. CASE OpenFails
  <2>1. writer.pc # "open" /\ writer' = NoWriter /\ UNCHANGED <<file, thread, written>>
    BY <1>4 DEF OpenFails
  <2> QED BY <1>0, <2>1 DEF NoWriter
<1>5. CASE CloseLogFile \/ Crash
  <2>1. writer' = NoWriter /\ thread' = [u \in Threads |-> Idle] /\ UNCHANGED <<file, written>>
    BY <1>5 DEF CloseLogFile, Crash, Leave
  <2> QED BY <1>0, <2>1 DEF NoWriter, Idle
<1>6. ASSUME NEW t \in Threads, Thread(t) PROVE PhaseInv'
  <2>1. /\ writer'.pc = "open" /\ file'.kind = "log"
        /\ \A u \in Threads \ {t} : thread'[u] = thread[u]
    BY <1>6, ThreadStep
  <2>2. /\ thread'[t].pc \in {"find", "pick", "copy", "lock", "seek"} => thread'[t].end = -1
        /\ thread'[t].pc = "write" => thread'[t].end # -1
    <3>1. thread[t] \in Calls \cup Others /\ Len(file.body) \in Nat
      BY DEF TypeInv, ThreadType, FileType
    <3>2. thread[t].pc # "idle" => (thread[t].pc \in {"find", "pick", "copy", "lock", "seek", "write", "failed"} => thread[t] \in Calls)
      BY CallType
    <3>3. CASE LogEx(t) \/ ReleaseFileLock(t) \/ QueryLogInformation(t)
      <4>1. \/ \E r : thread' = [thread EXCEPT ![t] = [pc |-> "find", request |-> r, slot |-> 0, end |-> -1]]
            \/ \E s \in Others : thread' = [thread EXCEPT ![t] = s]
        BY <3>3 DEF LogEx, ReleaseFileLock, QueryLogInformation, Others
      <4>2. \/ \E r : thread'[t] = [pc |-> "find", request |-> r, slot |-> 0, end |-> -1]
            \/ thread'[t] \in Others
        BY <4>1 DEF TypeInv, ThreadType
      <4>3. ASSUME NEW r, thread'[t] = [pc |-> "find", request |-> r, slot |-> 0, end |-> -1]
            PROVE  thread'[t].pc = "find" /\ thread'[t].end = -1
        BY <4>3
      <4>4. ASSUME thread'[t] \in Others PROVE thread'[t].pc \in {"idle", "release", "loops"}
        BY <4>4 DEF Others, Idle
      <4> QED BY <4>2, <4>3, <4>4
    <3>4. CASE FindSourceComponentIndex(t) \/ PickSlot(t)
      <4>1. thread[t] \in Calls /\ thread[t].end = -1
        BY <1>0, <3>2, <3>4 DEF FindSourceComponentIndex, PickSlot, At
      <4>2. \/ \E y : thread' = [thread EXCEPT ![t].slot = y, ![t].pc = "lock"]
            \/ \E y : thread' = [thread EXCEPT ![t].slot = y, ![t].pc = "copy"]
            \/ \E y \in {"pick", "failed"} : thread' = [thread EXCEPT ![t].pc = y]
        BY <3>4 DEF FindSourceComponentIndex, PickSlot, Goto
      <4>3. thread'[t].pc \in {"lock", "copy", "pick", "failed"} /\ thread'[t].end = -1
        BY <4>1, <4>2, ZenonT(40) DEF TypeInv, ThreadType, Calls
      <4> QED BY <4>3
    <3>5. CASE CopyName(t) \/ AcquireFileLock(t)
      <4>1. thread[t] \in Calls /\ thread[t].end = -1
        BY <1>0, <3>2, <3>5 DEF CopyName, AcquireFileLock, At
      <4>2. \E y \in {"failed", "lock", "seek"} : thread' = [thread EXCEPT ![t].pc = y]
        BY <3>5 DEF CopyName, AcquireFileLock, Goto
      <4>3. thread'[t].pc \in {"lock", "seek", "failed"} /\ thread'[t].end = -1
        BY <4>1, <4>2 DEF TypeInv, ThreadType, Calls
      <4> QED BY <4>3
    <3>6. CASE SeekEnd(t)
      <4>1. thread[t] \in Calls
        BY <3>2, <3>6 DEF SeekEnd, At
      <4>2. \/ thread'[t].pc = "write" /\ thread'[t].end = Len(file.body)
            \/ thread'[t].pc = "failed"
        BY <3>6, <4>1 DEF SeekEnd, Goto, TypeInv, ThreadType, Calls
      <4> QED BY <3>1, <4>2
    <3>7. CASE WriteEntry(t) \/ RollBack(t)
      <4>1. thread[t] \in Calls
        BY <3>2, <3>7 DEF WriteEntry, RollBack, At
      <4>2. \E y \in {"failed", "release"} : thread' = [thread EXCEPT ![t].pc = y]
        BY <3>7 DEF WriteEntry, RollBack, Goto
      <4>3. thread'[t].pc \in {"release", "failed"}
        BY <4>1, <4>2 DEF TypeInv, ThreadType, Calls
      <4> QED BY <4>3
    <3> QED BY <1>6, <3>3, <3>4, <3>5, <3>6, <3>7 DEF Thread
  <2> QED BY <1>0, <2>1, <2>2
<1>7. CASE \/ OpenLogFileReadOnly \/ MapAndIndex \/ MapFails \/ ExportLogToText \/ CloseReader
           \/ UNCHANGED vars
  BY <1>0, <1>7 DEF OpenLogFileReadOnly, MapAndIndex, MapFails, ExportLogToText, CloseReader, vars, Header
<1> QED BY <1>1, <1>2, <1>3, <1>4, <1>5, <1>6, <1>7 DEF Next

LEMMA NextTypeInv ==
  ASSUME TypeInv, CountInv, [Next]_vars
  PROVE  TypeInv'
BY NextFileType, NextWriterType, NextThreadType, NextReaderType, NextHistoryType, NextPhaseInv
DEF TypeInv

-----------------------------------------------------------------------------
(* The lock.                                                               *)

LEMMA Alone ==
  ASSUME LockInv, "cut" \notin damage, NEW t \in Threads, HasLock(t)
  PROVE  writer.lock = t /\ \A u \in Threads \ {t} : ~HasLock(u)
BY DEF LockInv

LEMMA IdleThread ==
  ASSUME NEW t, thread[t] = Idle
  PROVE  ~HasLock(t) /\ ~Wrote(t) /\ ~At(t, "write") /\ ~At(t, "release")
BY DEF HasLock, Wrote, At, Idle

LEMMA IdleThreads ==
  ASSUME TypeInv, writer.pc # "open"
  PROVE  \A t \in Threads : thread[t] = Idle
BY DEF TypeInv, PhaseInv

(* What a thread does before it has the lock.                              *)
LEMMA BeforeLock ==
  ASSUME TypeInv, NEW t \in Threads,
         LogEx(t) \/ FindSourceComponentIndex(t) \/ PickSlot(t) \/ CopyName(t)
  PROVE  /\ ~HasLock(t) /\ ~HasLock(t)'
         /\ thread'[t].pc \in {"find", "pick", "copy", "lock", "failed"}
         /\ thread[t].pc \in {"idle", "find", "pick", "copy"}
         /\ writer'.lock = writer.lock /\ writer'.position = writer.position
         /\ damage \subseteq damage' /\ damage' \subseteq damage \cup {"race"}
         /\ UNCHANGED <<file, written, orphans>>
<1>1. thread[t].pc \in {"idle", "find", "pick", "copy"}
  BY DEF LogEx, FindSourceComponentIndex, PickSlot, CopyName, At
<1>2. thread'[t].pc \in {"find", "pick", "copy", "lock", "failed"} /\ thread'[t].end = -1
  <2>1. CASE LogEx(t)
    <3>1. PICK r \in Requests :
            thread' = [thread EXCEPT ![t] = [pc |-> "find", request |-> r, slot |-> 0, end |-> -1]]
      BY <2>1 DEF LogEx
    <3> QED BY <3>1 DEF TypeInv, ThreadType
  <2>2. CASE ~LogEx(t)
    <3>1. thread[t] \in Calls /\ thread[t].end = -1
      BY <1>1, <2>2, CallType
      DEF TypeInv, PhaseInv, FindSourceComponentIndex, PickSlot, CopyName, At
    <3>2. \/ \E y : thread' = [thread EXCEPT ![t].slot = y, ![t].pc = "lock"]
          \/ \E y : thread' = [thread EXCEPT ![t].slot = y, ![t].pc = "copy"]
          \/ \E y \in {"pick", "failed", "lock"} : thread' = [thread EXCEPT ![t].pc = y]
      BY <2>2 DEF FindSourceComponentIndex, PickSlot, CopyName, Goto
    <3>3. ASSUME NEW y, NEW z \in {"lock", "copy"}, thread' = [thread EXCEPT ![t].slot = y, ![t].pc = z]
          PROVE  thread'[t].pc = z /\ thread'[t].end = -1
      BY <3>1, <3>3 DEF TypeInv, ThreadType, Calls
    <3>4. ASSUME NEW y \in {"pick", "failed", "lock"}, thread' = [thread EXCEPT ![t].pc = y]
          PROVE  thread'[t].pc = y /\ thread'[t].end = -1
      BY <3>1, <3>4 DEF TypeInv, ThreadType, Calls
    <3> QED BY <3>2, <3>3, <3>4
  <2> QED BY <2>1, <2>2
<1>3. ~HasLock(t) /\ ~HasLock(t)'
  BY <1>1, <1>2 DEF HasLock, Wrote, At
<1>4. writer \in Writers
  BY ThreadStep DEF Thread
<1>5. writer'.lock = writer.lock /\ writer'.position = writer.position
  BY <1>4 DEF LogEx, FindSourceComponentIndex, PickSlot, CopyName, Writers
<1>6. damage \subseteq damage' /\ damage' \subseteq damage \cup {"race"} /\ UNCHANGED <<file, written, orphans>>
  BY DEF LogEx, FindSourceComponentIndex, PickSlot, CopyName
<1> QED BY <1>1, <1>2, <1>3, <1>5, <1>6

LEMMA SeekStep ==
  ASSUME TypeInv, NEW t \in Threads, SeekEnd(t)
  PROVE  /\ At(t, "seek") /\ HasLock(t) /\ writer'.lock = writer.lock /\ writer'.header = writer.header
         /\ UNCHANGED <<file, reader, written, orphans, damage>>
         /\ \/ /\ thread'[t].pc = "write" /\ thread'[t].end = Len(file.body)
               /\ writer'.position = Len(file.body) /\ UNCHANGED bounds
            \/ /\ thread'[t].pc = "failed" /\ thread'[t].end = -1
               /\ UNCHANGED writer /\ Spend("failed", MaxFailed)
         /\ thread'[t].request = thread[t].request /\ thread'[t].slot = thread[t].slot
<1>1. /\ thread[t] \in Calls /\ thread[t].end = -1 /\ writer \in Writers /\ At(t, "seek")
  BY CallType DEF SeekEnd, At, TypeInv, PhaseInv
<1>2. HasLock(t)
  BY <1>1 DEF HasLock, At
<1>3. UNCHANGED <<file, reader, written, orphans, damage>>
  BY DEF SeekEnd
<1>4. CASE /\ writer' = [writer EXCEPT !.position = Len(file.body)]
           /\ thread' = [thread EXCEPT ![t].end = Len(file.body), ![t].pc = "write"]
           /\ UNCHANGED bounds
  BY <1>1, <1>2, <1>3, <1>4 DEF TypeInv, ThreadType, Calls, Writers
<1>5. CASE Fails /\ Goto(t, "failed") /\ UNCHANGED writer
  BY <1>1, <1>2, <1>3, <1>5 DEF TypeInv, ThreadType, Calls, Fails, Goto
<1> QED BY <1>4, <1>5 DEF SeekEnd

(* Whatever fails, the thread either leaves the file as it is or cuts it   *)
(* somewhere; it is sound only if it ends where it ended before.           *)
LEMMA RollBackStep ==
  ASSUME TypeInv, NEW t \in Threads, RollBack(t), "cut" \notin damage'
  PROVE  /\ Wrote(t) /\ HasLock(t) /\ "cut" \notin damage
         /\ thread[t].end \in Nat /\ thread'[t].pc = "release"
         /\ writer'.lock = writer.lock /\ writer'.header = writer.header
         /\ \E position \in Nat : file' = file \/ file' = [file EXCEPT !.body = CutAt(@, position)]
         /\ damage' = IF Len(file'.body) # thread[t].end THEN damage \cup {"torn"} ELSE damage
         /\ UNCHANGED <<reader, written, orphans>>
<1>1. At(t, "failed") /\ thread[t] \in Calls /\ writer \in Writers
  BY CallType DEF RollBack, At
<1>2. thread[t].end # -1
  BY DEF RollBack
<1>3. thread[t].end \in Nat /\ writer.position \in Nat
  BY <1>1, <1>2 DEF Calls, Writers
<1>4. PICK position \in Nat, ended \in Nat :
        /\ writer' = [writer EXCEPT !.position = position]
        /\ \/ file' = file /\ ended = Len(file.body)
           \/ file' = [file EXCEPT !.body = CutAt(@, position)] /\ ended = position
        /\ damage' = IF ended # thread[t].end THEN damage \cup {"torn"} ELSE damage
  <2>1. Len(file.body) \in Nat
    BY DEF TypeInv, FileType
  <2> QED BY <1>2, <1>3, <2>1 DEF RollBack
<1>5. damage' = IF Len(file'.body) # thread[t].end THEN damage \cup {"torn"} ELSE damage
  <2>1. file.body \in Seq(Cell) /\ DOMAIN file = {"exists", "kind", "header", "body"}
    BY DEF TypeInv, FileType
  <2>2. CASE file' = file /\ ended = Len(file.body)
    BY <1>4, <2>2
  <2>3. CASE file' = [file EXCEPT !.body = CutAt(@, position)] /\ ended = position
    <3>1. file'.body = CutAt(file.body, position)
      BY <2>1, <2>3
    <3>2. Len(CutAt(file.body, position)) = position
      BY <2>1, CutAtType
    <3> QED BY <1>4, <2>3, <3>1, <3>2
  <2> QED BY <1>4, <2>2, <2>3
<1>6. thread'[t].pc = "release"
  BY <1>1 DEF RollBack, Goto, TypeInv, ThreadType, Calls
<1>7. writer'.lock = writer.lock /\ writer'.header = writer.header
  BY <1>1, <1>4 DEF Writers
<1>8. Wrote(t) /\ HasLock(t) /\ "cut" \notin damage
  BY <1>1, <1>2, <1>5 DEF Wrote, HasLock
<1> QED BY <1>3, <1>4, <1>5, <1>6, <1>7, <1>8 DEF RollBack

LEMMA ReleaseStep ==
  ASSUME TypeInv, NEW t \in Threads, ReleaseFileLock(t)
  PROVE  /\ HasLock(t) /\ At(t, "release") /\ thread' = [thread EXCEPT ![t] = Idle] /\ thread'[t] = Idle
         /\ writer.lock = t => writer'.lock = "free"
         /\ writer'.header = writer.header
         /\ \/ file' = [file EXCEPT !.header = Header] /\ UNCHANGED bounds
            \/ UNCHANGED file /\ Spend("failed", MaxFailed)
         /\ UNCHANGED <<reader, written, orphans, damage>>
<1>1. At(t, "release") /\ writer \in Writers
  BY CallType DEF ReleaseFileLock, At
<1>2. PICK lock \in IF writer.lock = t THEN {"free"} ELSE {writer.lock, "free", "broken"} :
        writer' = [writer EXCEPT !.position = 0, !.lock = lock]
  BY DEF ReleaseFileLock
<1>3. writer'.lock = lock /\ writer'.header = writer.header
  BY <1>1, <1>2 DEF Writers
<1>4. thread'[t] = Idle
  BY DEF ReleaseFileLock, TypeInv, ThreadType
<1> QED BY <1>1, <1>2, <1>3, <1>4 DEF ReleaseFileLock, HasLock, At, Fails

LEMMA AcquireStep ==
  ASSUME TypeInv, NEW t \in Threads, AcquireFileLock(t) \/ QueryLogInformation(t)
  PROVE  /\ writer.lock = "free" /\ writer'.lock = t /\ writer'.header = writer.header
         /\ writer'.position = writer.position
         /\ thread[t].pc \in {"idle", "lock"}
         /\ thread'[t].pc \in {"seek", "release", "loops"}
         /\ UNCHANGED <<file, reader, written, orphans, damage>>
<1>1. writer \in Writers
  BY ThreadStep DEF Thread
<1>2. writer.lock = "free" /\ writer' = [writer EXCEPT !.lock = t]
  BY DEF AcquireFileLock, QueryLogInformation
<1>3. thread[t].pc \in {"idle", "lock"} /\ thread'[t].pc \in {"seek", "release", "loops"}
  <2>1. CASE AcquireFileLock(t)
    <3>1. thread[t] \in Calls
      BY <2>1, CallType DEF AcquireFileLock, At
    <3> QED BY <2>1, <3>1 DEF AcquireFileLock, At, Goto, TypeInv, ThreadType, Calls
  <2>2. CASE QueryLogInformation(t)
    BY <2>2 DEF QueryLogInformation, At, TypeInv, ThreadType
  <2> QED BY <2>1, <2>2
<1> QED BY <1>1, <1>2, <1>3 DEF AcquireFileLock, QueryLogInformation, Writers

LEMMA NextLockInv ==
  ASSUME TypeInv, LockInv, [Next]_vars
  PROVE  LockInv'
<1>1. ASSUME NEW t \in Threads, Thread(t), "cut" \notin damage', NEW u \in Threads, HasLock(u)'
      PROVE  writer'.lock = u
  <2>1. \A x \in Threads \ {t} : thread'[x] = thread[x] /\ (HasLock(x)' <=> HasLock(x))
    BY <1>1, ThreadStep DEF HasLock, Wrote, At
  <2>2. CASE LogEx(t) \/ FindSourceComponentIndex(t) \/ PickSlot(t) \/ CopyName(t)
    <3>1. ~HasLock(t)' /\ writer'.lock = writer.lock /\ "cut" \notin damage
      BY <1>1, <2>2, BeforeLock
    <3> QED BY <1>1, <2>1, <3>1 DEF LockInv
  <2>3. CASE AcquireFileLock(t) \/ QueryLogInformation(t)
    <3>1. writer.lock = "free" /\ writer'.lock = t /\ "cut" \notin damage
      BY <1>1, <2>3, AcquireStep
    <3>2. "free" \notin Threads
      BY VxlLegacyAssumption
    <3> QED BY <1>1, <2>1, <3>1, <3>2 DEF LockInv
  <2>4. CASE SeekEnd(t)
    <3>1. HasLock(t) /\ writer'.lock = writer.lock /\ "cut" \notin damage
      BY <1>1, <2>4, SeekStep
    <3> QED BY <1>1, <2>1, <3>1, Alone
  <2>5. CASE WriteEntry(t)
    <3>1. At(t, "write") /\ "cut" \notin damage /\ writer \in Writers
      BY <1>1, <2>5, WriteStep, ThreadStep
    <3>2. HasLock(t)
      BY <3>1 DEF HasLock, At
    <3>3. writer'.lock = writer.lock
      BY <2>5, <3>1, WriteStep DEF Writers
    <3> QED BY <1>1, <2>1, <3>1, <3>2, <3>3, Alone
  <2>6. CASE RollBack(t)
    <3>1. HasLock(t) /\ writer'.lock = writer.lock /\ "cut" \notin damage
      BY <1>1, <2>6, RollBackStep
    <3> QED BY <1>1, <2>1, <3>1, Alone
  <2>7. CASE ReleaseFileLock(t)
    <3>1. HasLock(t) /\ "cut" \notin damage /\ thread'[t] = Idle
      BY <1>1, <2>7, ReleaseStep
    <3>2. ~HasLock(t)'
      BY <3>1 DEF HasLock, Wrote, At, Idle
    <3> QED BY <1>1, <2>1, <3>1, <3>2, Alone
  <2> QED BY <1>1, <2>2, <2>3, <2>4, <2>5, <2>6, <2>7 DEF Thread
<1>2. CASE CreateLogFile
  <2>1. \A t \in Threads : thread'[t] = Idle
    BY <1>2, CreateStep, IdleThreads DEF NoWriter
  <2> QED BY <2>1 DEF LockInv, HasLock, Wrote, At, Idle
<1>3. CASE WriteFirstHeader \/ ReadLogFileHeader \/ OpenFails
  <2>1. \A t \in Threads : thread'[t] = Idle
    BY <1>3, IdleThreads DEF WriteFirstHeader, ReadLogFileHeader, OpenFails
  <2> QED BY <2>1 DEF LockInv, HasLock, Wrote, At, Idle
<1>4. CASE CloseLogFile \/ Crash
  <2>1. \A t \in Threads : thread'[t] = Idle
    BY <1>4 DEF CloseLogFile, Crash, Leave
  <2> QED BY <2>1 DEF LockInv, HasLock, Wrote, At, Idle
<1>5. CASE \/ OpenLogFileReadOnly \/ MapAndIndex \/ MapFails \/ ExportLogToText \/ CloseReader
           \/ UNCHANGED vars
  <2>1. UNCHANGED <<writer, thread, damage>>
    BY <1>5 DEF OpenLogFileReadOnly, MapAndIndex, MapFails, ExportLogToText, CloseReader, vars
  <2> QED BY <2>1 DEF LockInv, HasLock, Wrote, At
<1> QED BY <1>1, <1>2, <1>3, <1>4, <1>5 DEF Next, LockInv

-----------------------------------------------------------------------------
(* The body of the file.                                                   *)

(* What BodyInv says while the file is not spoilt.                         *)
Sound == damage \cap {"cut", "torn", "mixed"} = {}
BodyIs ==
  /\ Starts(file.body, written)
  /\ (\A t \in Threads : ~Wrote(t)) => Len(file.body) = Len(Flat(written))
  /\ \A t \in Threads : Wrote(t) => thread[t].end = Len(Flat(written))
  /\ \A t \in Threads : At(t, "write") =>
       writer.position = Len(file.body) /\ thread[t].end = Len(file.body)

LEMMA BodyInvIs == BodyInv <=> IsPlaced(written) /\ (Sound => BodyIs)
BY DEF BodyInv, Sound, BodyIs

LEMMA StartsConcat ==
  ASSUME NEW w \in Seq(Entry), NEW body \in Seq(Cell), NEW c \in Seq(Cell), Starts(body, w)
  PROVE  Starts(body \o c, w)
<1>1. Len(Flat(w)) \in Nat /\ Len(body) \in Nat /\ Len(c) \in Nat
  BY FlatIsType
<1>2. Len(body \o c) = Len(body) + Len(c) /\ \A i \in 1 .. Len(body) : (body \o c)[i] = body[i]
  OBVIOUS
<1> QED BY <1>1, <1>2 DEF Starts

LEMMA StartsAppend ==
  ASSUME NEW w \in Seq(Entry), NEW body \in Seq(Cell), NEW e \in Entry, Starts(body, w),
         Len(body) = Len(Flat(w))
  PROVE  /\ Starts(body \o CellsOf(e), Append(w, e))
         /\ Len(body \o CellsOf(e)) = Len(Flat(Append(w, e)))
<1> DEFINE c == CellsOf(e)
           f == Flat(w)
           g == Flat(Append(w, e))
<1>1. f \in Seq(Cell) /\ c \in Seq(Cell) /\ g = f \o c
  BY FlatIsType, CellsOfType, FlatAppend
<1>2. body = f
  <2> HIDE DEF f
  <2>1. \A i \in 1 .. Len(body) : body[i] = f[i]
    BY DEF Starts, f
  <2> QED BY <1>1, <2>1, SeqEqual DEF f
<1>3. body \o c = g
  BY <1>1, <1>2
<1> QED BY <1>3 DEF Starts

LEMMA StartsCut ==
  ASSUME NEW w \in Seq(Entry), NEW body \in Seq(Cell), Starts(body, w)
  PROVE  /\ Starts(CutAt(body, Len(Flat(w))), w)
         /\ Len(CutAt(body, Len(Flat(w)))) = Len(Flat(w))
<1>1. Len(Flat(w)) \in Nat /\ Len(body) \in Nat
  BY FlatIsType
<1>2. /\ Len(CutAt(body, Len(Flat(w)))) = Len(Flat(w))
      /\ \A i \in 1 .. Len(Flat(w)) :
           i \in 1 .. Len(body) => CutAt(body, Len(Flat(w)))[i] = body[i]
  BY <1>1, CutAtType
<1> QED BY <1>1, <1>2 DEF Starts

LEMMA PlacedStep ==
  ASSUME TypeInv, IsPlaced(written), [Next]_vars
  PROVE  /\ IsPlaced(written')
         /\ \/ written' = <<>> /\ damage' = {} /\ CreateLogFile /\ (reader = NoReader \/ reader'.disturbed)
            \/ written' = written
            \/ /\ \E e \in Entry : written' = Append(written, e)
               /\ UNCHANGED <<reader, damage, orphans>>
<1>1. CASE CreateLogFile
  <2>1. \/ written' = written
        \/ /\ written' = <<>> /\ damage' = {}
           /\ reader' = IF reader = NoReader THEN reader ELSE [reader EXCEPT !.disturbed = TRUE]
    BY <1>1, CreateStep
  <2>2. reader = NoReader \/ written' = written \/ reader'.disturbed
    BY <2>1 DEF TypeInv, ReaderType
  <2> QED BY <1>1, <2>1, <2>2, EmptyIsPlaced
<1>2. ASSUME NEW t \in Threads, WriteEntry(t)
      PROVE  \/ written' = written
             \/ /\ \E e \in Entry : written' = Append(written, e)
                /\ UNCHANGED <<reader, damage, orphans>>
  BY <1>2, WriteStep
<1>3. ASSUME NEW t \in Threads, Thread(t), ~WriteEntry(t) PROVE written' = written
  BY <1>3
  DEF Thread, LogEx, FindSourceComponentIndex, PickSlot, CopyName, AcquireFileLock, SeekEnd,
      RollBack, ReleaseFileLock, QueryLogInformation
<1>4. CASE \/ WriteFirstHeader \/ ReadLogFileHeader \/ OpenFails \/ CloseLogFile \/ Crash
           \/ OpenLogFileReadOnly \/ MapAndIndex \/ MapFails \/ ExportLogToText \/ CloseReader
           \/ UNCHANGED vars
  BY <1>4
  DEF WriteFirstHeader, ReadLogFileHeader, OpenFails, CloseLogFile, Crash, Leave, OpenLogFileReadOnly,
      MapAndIndex, MapFails, ExportLogToText, CloseReader, vars
<1>5. \A e \in Entry : IsPlaced(Append(written, e))
  BY PlacedAppend DEF TypeInv, HistoryType
<1> QED BY <1>1, <1>2, <1>3, <1>4, <1>5 DEF Next

LEMMA NextBodyInv ==
  ASSUME TypeInv, LockInv, BodyInv, [Next]_vars
  PROVE  BodyInv'
<1>0. /\ IsPlaced(written) /\ (Sound => BodyIs)
      /\ file.body \in Seq(Cell) /\ written \in Seq(Entry)
      /\ Len(file.body) \in Nat /\ Len(Flat(written)) \in Nat
  BY BodyInvIs, FlatIsType DEF TypeInv, FileType, HistoryType
<1>1. IsPlaced(written)'
  BY <1>0, PlacedStep
<1> USE DEF BodyIs
<1>2. ASSUME NEW t \in Threads, Thread(t), Sound' PROVE BodyIs'
  <2>1. \A u \in Threads \ {t} :
          thread'[u] = thread[u] /\ (Wrote(u)' <=> Wrote(u)) /\ (At(u, "write")' <=> At(u, "write"))
    BY <1>2, ThreadStep DEF Wrote, At
  <2>2. CASE LogEx(t) \/ FindSourceComponentIndex(t) \/ PickSlot(t) \/ CopyName(t)
    <3>1. /\ ~HasLock(t) /\ ~HasLock(t)' /\ writer'.position = writer.position
          /\ UNCHANGED <<file, written>> /\ Sound
      BY <1>2, <2>2, BeforeLock DEF Sound
    <3>2. ~Wrote(t) /\ ~Wrote(t)' /\ ~At(t, "write") /\ ~At(t, "write")'
      BY <3>1 DEF HasLock, At
    <3> QED BY <1>0, <2>1, <3>1, <3>2
  <2>3. CASE AcquireFileLock(t) \/ QueryLogInformation(t)
    <3>1. /\ writer'.position = writer.position
          /\ thread[t].pc \in {"idle", "lock"} /\ thread'[t].pc \in {"seek", "release", "loops"}
          /\ UNCHANGED <<file, written, damage>>
      BY <1>2, <2>3, AcquireStep
    <3>2. ~Wrote(t) /\ ~Wrote(t)' /\ ~At(t, "write") /\ ~At(t, "write")' /\ Sound
      BY <1>2, <3>1 DEF Wrote, At, Sound
    <3> QED BY <1>0, <2>1, <3>1, <3>2
  <2>4. CASE SeekEnd(t)
    <3>1. /\ At(t, "seek") /\ HasLock(t) /\ UNCHANGED <<file, written, damage>>
          /\ \/ /\ thread'[t].pc = "write" /\ thread'[t].end = Len(file.body)
                /\ writer'.position = Len(file.body)
             \/ thread'[t].pc = "failed" /\ thread'[t].end = -1 /\ UNCHANGED writer
      BY <2>4, SeekStep
    <3>2. Sound /\ "cut" \notin damage
      BY <1>2, <3>1 DEF Sound
    <3>3. \A u \in Threads \ {t} : ~Wrote(u)' /\ ~At(u, "write")'
      BY <2>1, <3>1, <3>2, Alone DEF HasLock, At
    <3>4. ~Wrote(t) /\ ~Wrote(t)'
      BY <3>1 DEF Wrote, At
    <3>5. At(t, "write")' => writer'.position = Len(file'.body) /\ thread'[t].end = Len(file'.body)
      BY <3>1 DEF At
    <3>6. \A u \in Threads : ~Wrote(u)
      BY <2>1, <3>3, <3>4
    <3> QED BY <1>0, <3>1, <3>2, <3>3, <3>4, <3>5, <3>6
  <2>5. CASE WriteEntry(t)
    <3>1. At(t, "write") /\ thread[t] \in Calls /\ NewEntry(t) \in Entry /\ damage' = damage
      BY <2>5, WriteStep
    <3>2. HasLock(t) /\ ~Wrote(t) /\ Sound /\ "cut" \notin damage
      BY <1>2, <3>1 DEF HasLock, Wrote, At, Sound
    <3>3. \A u \in Threads \ {t} : ~Wrote(u)' /\ ~At(u, "write")' /\ ~Wrote(u)
      BY <2>1, <3>2, Alone DEF HasLock, At
    <3>4. /\ writer.position = Len(file.body) /\ thread[t].end = Len(file.body)
          /\ Len(file.body) = Len(Flat(written)) /\ Starts(file.body, written)
      BY <1>0, <3>1, <3>2, <3>3
    <3>5. \A c \in Seq(Cell) : Overwritten(file.body, writer.position, c) = file.body \o c
      <4> DEFINE p == writer.position
                 b == file.body
      <4>1. p \in Nat /\ p <= Len(b) /\ p = Len(b) /\ b \in Seq(Cell)
        BY <1>0, <3>4
      <4> HIDE DEF p, b
      <4>2. \A c \in Seq(Cell) : Overwritten(b, p, c) = b \o c
        BY <4>1, OverwrittenType
      <4> QED BY <4>2 DEF p, b
    <3>6. CASE /\ file' = [file EXCEPT !.body = Overwritten(@, writer.position, CellsOf(NewEntry(t)))]
               /\ written' = Append(written, NewEntry(t))
               /\ thread' = [thread EXCEPT ![t].pc = "release"]
      <4>1. CellsOf(NewEntry(t)) \in Seq(Cell)
        BY <3>1, CellsOfType
      <4>2. file'.body = file.body \o CellsOf(NewEntry(t))
        BY <3>5, <3>6, <4>1 DEF TypeInv, FileType
      <4>3. thread'[t].pc = "release"
        BY <3>1, <3>6 DEF TypeInv, ThreadType, Calls
      <4>4. ~Wrote(t)' /\ ~At(t, "write")'
        BY <4>3 DEF Wrote, At
      <4>5. Starts(file'.body, written') /\ Len(file'.body) = Len(Flat(written'))
        BY <1>0, <3>1, <3>4, <3>6, <4>2, StartsAppend
      <4> QED BY <3>3, <4>4, <4>5
    <3>7. CASE /\ \E c \in Seq(Cell) :
                    file' = [file EXCEPT !.body = Overwritten(@, writer.position, c)]
               /\ thread' = [thread EXCEPT ![t].pc = "failed"]
               /\ UNCHANGED written
      <4>1. PICK c \in Seq(Cell) : file' = [file EXCEPT !.body = Overwritten(@, writer.position, c)]
        BY <3>7
      <4>2. file'.body = file.body \o c
        BY <3>5, <4>1 DEF TypeInv, FileType
      <4>3. thread'[t].pc = "failed" /\ thread'[t].end = thread[t].end
        BY <3>1, <3>7 DEF TypeInv, ThreadType, Calls
      <4>4. Wrote(t)' /\ ~At(t, "write")'
        BY <1>0, <3>4, <4>3 DEF Wrote, At
      <4>5. Starts(file'.body, written') /\ thread'[t].end = Len(Flat(written'))
        BY <1>0, <3>4, <3>7, <4>2, <4>3, StartsConcat
      <4> QED BY <3>3, <4>4, <4>5
    <3> QED BY <2>5, <3>6, <3>7, WriteStep
  <2>6. CASE RollBack(t)
    <3>0. "cut" \notin damage'
      BY <1>2 DEF Sound
    <3>1. /\ Wrote(t) /\ HasLock(t) /\ "cut" \notin damage
          /\ thread[t].end \in Nat /\ thread'[t].pc = "release"
          /\ \E position \in Nat : file' = file \/ file' = [file EXCEPT !.body = CutAt(@, position)]
          /\ damage' = IF Len(file'.body) # thread[t].end THEN damage \cup {"torn"} ELSE damage
          /\ written' = written
      BY <2>6, <3>0, RollBackStep
    <3>2. Len(file'.body) = thread[t].end /\ Sound
      BY <1>2, <3>1 DEF Sound
    <3>3. thread[t].end = Len(Flat(written)) /\ Starts(file.body, written)
      BY <1>0, <3>1, <3>2
    <3>4. \A u \in Threads \ {t} : ~Wrote(u)' /\ ~At(u, "write")'
      BY <2>1, <3>1, Alone DEF HasLock, At
    <3>5. ~Wrote(t)' /\ ~At(t, "write")'
      BY <3>1 DEF Wrote, At
    <3>6. Starts(file'.body, written) /\ Len(file'.body) = Len(Flat(written))
      <4>1. PICK position \in Nat : file' = file \/ file' = [file EXCEPT !.body = CutAt(@, position)]
        BY <3>1
      <4>2. CASE file' = file
        BY <3>2, <3>3, <4>2
      <4>3. CASE file' = [file EXCEPT !.body = CutAt(@, position)]
        <5>1. file'.body = CutAt(file.body, position)
          BY <4>3 DEF TypeInv, FileType
        <5>2. Len(CutAt(file.body, position)) = position
          <6>1. file.body \in Seq(Cell) /\ position \in Nat
            BY <4>1 DEF TypeInv, FileType
          <6> QED BY <6>1, CutAtType
        <5>3. position = Len(Flat(written))
          BY <3>2, <3>3, <5>1, <5>2
        <5>4. file'.body = CutAt(file.body, Len(Flat(written)))
          BY <5>1, <5>3
        <5> QED BY <1>0, <3>3, <5>4, StartsCut
      <4> QED BY <4>1, <4>2, <4>3
    <3> QED BY <3>1, <3>4, <3>5, <3>6
  <2>7. CASE ReleaseFileLock(t)
    <3>1. /\ HasLock(t) /\ At(t, "release") /\ thread'[t] = Idle /\ UNCHANGED <<written, damage>>
          /\ file' = [file EXCEPT !.header = Header] \/ file' = file
      BY <2>7, ReleaseStep
    <3>2. Sound /\ "cut" \notin damage
      BY <1>2, <3>1 DEF Sound
    <3>3. \A u \in Threads \ {t} : ~Wrote(u)' /\ ~At(u, "write")' /\ ~Wrote(u)
      BY <2>1, <3>1, <3>2, Alone DEF HasLock, At
    <3>4. ~Wrote(t) /\ ~Wrote(t)' /\ ~At(t, "write")'
      BY <3>1 DEF Wrote, At, Idle
    <3>5. file'.body = file.body
      BY <3>1 DEF TypeInv, FileType
    <3> QED BY <1>0, <3>1, <3>2, <3>3, <3>4, <3>5
  <2> QED BY <1>2, <2>2, <2>3, <2>4, <2>5, <2>6, <2>7 DEF Thread
<1>3. ASSUME \A t \in Threads : thread[t] = Idle, Sound
      PROVE  Starts(file.body, written) /\ Len(file.body) = Len(Flat(written))
  BY <1>0, <1>3, IdleThread
<1>4. ASSUME \A t \in Threads : thread'[t] = Idle,
             Starts(file'.body, written'), Len(file'.body) = Len(Flat(written'))
      PROVE  BodyIs'
  <2>1. \A t \in Threads : ~Wrote(t)' /\ ~At(t, "write")'
    BY <1>4 DEF Wrote, At, Idle
  <2> QED BY <1>4, <2>1
<1>5. CASE CreateLogFile
  <2>1. \A t \in Threads : thread[t] = Idle
    BY <1>5, CreateStep, IdleThreads DEF NoWriter
  <2>2. thread' = thread
    BY <1>5, CreateStep
  <2>3. CASE UNCHANGED <<file, written, damage>>
    <3>1. Sound' => Sound
      BY <2>3 DEF Sound
    <3>2. Sound' => BodyIs'
      BY <1>3, <1>4, <2>1, <2>2, <2>3, <3>1
    <3> QED BY <1>1, <3>2 DEF BodyInv, Sound
  <2>4. CASE file' = File(TRUE, "empty") /\ written' = <<>>
    <3>1. file'.body = <<>> /\ Flat(written') = <<>>
      BY <2>4, FlatEmpty DEF File
    <3>2. Starts(file'.body, written') /\ Len(file'.body) = Len(Flat(written'))
      BY <3>1 DEF Starts
    <3>3. BodyIs'
      BY <1>4, <2>1, <2>2, <3>2
    <3> QED BY <1>1, <3>3 DEF BodyInv
  <2> QED BY <1>5, <2>3, <2>4, CreateStep
<1>6. CASE WriteFirstHeader \/ ReadLogFileHeader \/ OpenFails
  <2>1. \A t \in Threads : thread[t] = Idle
    BY <1>6, IdleThreads DEF WriteFirstHeader, ReadLogFileHeader, OpenFails
  <2>2. UNCHANGED <<thread, written>> /\ damage \subseteq damage'
    BY <1>6 DEF WriteFirstHeader, ReadLogFileHeader, OpenFails
  <2>3. Sound' => file'.body = file.body
    BY <1>6 DEF WriteFirstHeader, ReadLogFileHeader, OpenFails, Sound
  <2>4. Sound' => Sound
    BY <2>2 DEF Sound
  <2>5. Sound' => BodyIs'
    BY <1>3, <1>4, <2>1, <2>2, <2>3, <2>4
  <2> QED BY <1>1, <2>5 DEF BodyInv, Sound
<1>7. CASE CloseLogFile \/ Crash
  <2>1. /\ UNCHANGED <<file, written>> /\ thread' = [t \in Threads |-> Idle]
        /\ damage' = IF \E t \in Threads : At(t, "failed") /\ thread[t].end \notin {-1, Len(file.body)}
                     THEN damage \cup {"torn"} ELSE damage
    BY <1>7 DEF CloseLogFile, Crash, Leave
  <2>2. ASSUME Sound' PROVE BodyIs'
    <3>1. /\ ~ \E t \in Threads : At(t, "failed") /\ thread[t].end \notin {-1, Len(file.body)}
          /\ Sound
      BY <2>1, <2>2 DEF Sound
    <3>2. Starts(file.body, written)
      BY <1>0, <3>1
    <3>3. Len(file.body) = Len(Flat(written))
      BY <1>0, <3>1 DEF Wrote
    <3> QED BY <1>4, <2>1, <3>2, <3>3
  <2> QED BY <1>1, <2>2 DEF BodyInv, Sound
<1>8. CASE \/ OpenLogFileReadOnly \/ MapAndIndex \/ MapFails \/ ExportLogToText \/ CloseReader
           \/ UNCHANGED vars
  <2>1. UNCHANGED <<file, writer, thread, written, damage>>
    BY <1>8 DEF OpenLogFileReadOnly, MapAndIndex, MapFails, ExportLogToText, CloseReader, vars
  <2>2. Sound' => BodyIs'
    BY <1>0, <2>1 DEF Sound, Wrote, At
  <2> QED BY <1>1, <2>2 DEF BodyInv, Sound
<1>9. ASSUME NEW t \in Threads, Thread(t) PROVE BodyInv'
  BY <1>1, <1>2, <1>9 DEF BodyInv, Sound
<1> QED BY <1>5, <1>6, <1>7, <1>8, <1>9 DEF Next

-----------------------------------------------------------------------------
(* The counts.                                                             *)

LEMMA NumberType ==
  ASSUME NEW w \in Seq(Entry), NEW s
  PROVE  /\ IsFiniteSet({k \in DOMAIN w : w[k].request.severity = s})
         /\ NumberIn(w, s) \in Nat
<1>1. DOMAIN w = 1 .. Len(w) /\ Len(w) \in Nat
  OBVIOUS
<1>2. IsFiniteSet(DOMAIN w)
  BY <1>1, FS_Interval
<1>3. IsFiniteSet({k \in DOMAIN w : w[k].request.severity = s})
  BY <1>2, FS_Subset
<1> QED BY <1>3, FS_CardinalityType DEF NumberIn

LEMMA NumberAppend ==
  ASSUME NEW w \in Seq(Entry), NEW e \in Entry, NEW s
  PROVE  NumberIn(Append(w, e), s) = NumberIn(w, s) + (IF e.request.severity = s THEN 1 ELSE 0)
<1> DEFINE v == Append(w, e)
           old == {k \in DOMAIN w : w[k].request.severity = s}
           new == {k \in DOMAIN v : v[k].request.severity = s}
           n == Len(w) + 1
<1>1. /\ DOMAIN w = 1 .. Len(w) /\ DOMAIN v = 1 .. n /\ Len(w) \in Nat
      /\ \A k \in 1 .. Len(w) : v[k] = w[k]
      /\ v[n] = e
  OBVIOUS
<1>2. IsFiniteSet(old) /\ Cardinality(old) \in Nat
  BY NumberType, FS_CardinalityType
<1> HIDE DEF v
<1>3. CASE e.request.severity = s
  <2>1. new = old \cup {n} /\ n \notin old
    BY <1>1, <1>3
  <2>2. Cardinality(new) = Cardinality(old) + 1
    <3> HIDE DEF old, new, n
    <3> QED BY <1>2, <2>1, FS_AddElement
  <2> QED BY <1>3, <2>2 DEF NumberIn, v
<1>4. CASE e.request.severity # s
  <2>1. new = old
    BY <1>1, <1>4
  <2>2. NumberIn(v, s) = Cardinality(new) /\ NumberIn(w, s) = Cardinality(old)
    BY DEF NumberIn
  <2> HIDE DEF old, new
  <2>3. NumberIn(v, s) = NumberIn(w, s) /\ NumberIn(w, s) \in Nat
    BY <1>2, <2>1, <2>2
  <2> QED BY <1>4, <2>3 DEF v
<1> QED BY <1>3, <1>4

LEMMA NumbersAppend ==
  ASSUME NEW w \in Seq(Entry), NEW e \in Entry,
         Numbers(w).count \in Counts, Total(Numbers(w)) = Len(w)
  PROVE  /\ Numbers(Append(w, e)).count = [Numbers(w).count EXCEPT ![e.request.severity] = @ + 1]
         /\ Numbers(Append(w, e)).count \in Counts
         /\ Total(Numbers(Append(w, e))) = Len(Append(w, e))
<1> DEFINE x == e.request.severity
           v == Append(w, e)
<1>1. x \in Severities
  BY RequestType DEF Entry
<1>2. \A s \in Severities : NumberIn(v, s) = NumberIn(w, s) + (IF x = s THEN 1 ELSE 0) /\ NumberIn(w, s) \in Nat
  BY NumberAppend, NumberType
<1>3. Len(v) = Len(w) + 1
  OBVIOUS
<1> HIDE DEF x, v
<1>4. Numbers(v).count = [Numbers(w).count EXCEPT ![x] = @ + 1]
  BY <1>1, <1>2 DEF Numbers
<1>5. Numbers(v).count \in Counts /\ Total(Numbers(v)) = Total(Numbers(w)) + 1
  BY <1>1, <1>4, TotalCounted
<1> QED BY <1>3, <1>4, <1>5 DEF x, v

LEMMA NumbersEmpty ==
  /\ Numbers(<<>>).count = EmptyHeader.count
  /\ Numbers(<<>>).count \in Counts /\ Total(Numbers(<<>>)) = Len(<<>>)
<1>1. \A s : {k \in DOMAIN <<>> : <<>>[k].request.severity = s} = {}
  OBVIOUS
<1>2. \A s : NumberIn(<<>>, s) = 0
  BY <1>1, FS_EmptySet DEF NumberIn
<1>3. Numbers(<<>>).count = [s \in Severities |-> 0]
  BY <1>2 DEF Numbers
<1>4. Numbers(<<>>).count \in Counts /\ Total(Numbers(<<>>)) = 0
  BY <1>3, TotalEmpty
<1> QED BY <1>3, <1>4 DEF EmptyHeader

LEMMA SameTotal ==
  ASSUME NEW h, NEW g, h.count = g.count
  PROVE  Total(h) = Total(g)
BY DEF Total

(* Steps that leave the counts alone.                                      *)
LEMMA CountKeeps ==
  ASSUME TypeInv, CountInv, TypeInv',
         written' = written, orphans' = orphans, file'.header.count = file.header.count,
         writer'.pc = "open" <=> writer.pc = "open",
         writer.pc = "open" => writer'.header.count = writer.header.count,
         damage \cap {"cut", "begun"} \subseteq damage',
         bounds'.crashes >= bounds.crashes, bounds'.failed >= bounds.failed,
         "cut" \notin damage' /\ Releasing => Releasing'
  PROVE  CountInv'
<1>0. /\ "cut" \notin damage' => "cut" \notin damage
      /\ damage' \cap {"cut", "begun"} = {} => damage \cap {"cut", "begun"} = {} /\ "cut" \notin damage'
  OBVIOUS
<1>1. Total(file'.header) = Total(file.header) /\ Lag' = Lag
  BY SameTotal DEF Lag
<1>2. writer.pc = "open" => Total(writer'.header) = Total(writer.header)
  BY SameTotal
<1>3. /\ {bounds.crashes, bounds.failed, bounds'.crashes, bounds'.failed} \subseteq Nat
      /\ orphans \in Nat /\ Lag \in Nat
  BY LagType DEF TypeInv, HistoryType
<1>4. /\ Numbers(written').count \in Counts /\ Total(Numbers(written')) = Len(written')
      /\ Less(file'.header, Numbers(written'))
      /\ writer'.pc = "open" =>
           /\ Less(file'.header, writer'.header) /\ Less(writer'.header, Numbers(written'))
           /\ Total(writer'.header) + orphans' = Len(written')
      /\ writer'.pc # "open" => Lag' = orphans'
  BY <1>1, <1>2 DEF CountInv, Less, Header
<1>5. ASSUME damage' \cap {"cut", "begun"} = {}
      PROVE  /\ orphans' <= bounds'.crashes + bounds'.failed
             /\ Lag' <= bounds'.crashes + bounds'.failed + (IF Releasing' THEN 1 ELSE 0)
  <2>1. /\ orphans <= bounds.crashes + bounds.failed
        /\ Lag <= bounds.crashes + bounds.failed + (IF Releasing THEN 1 ELSE 0)
    BY <1>0, <1>5 DEF CountInv
  <2>2. orphans' <= bounds'.crashes + bounds'.failed
    BY <1>3, <2>1
  <2>3. Lag' <= bounds'.crashes + bounds'.failed + (IF Releasing' THEN 1 ELSE 0)
    <3>1. CASE Releasing
      BY <1>0, <1>1, <1>3, <1>5, <2>1, <3>1
    <3>2. CASE ~Releasing
      BY <1>1, <1>3, <2>1, <3>2
    <3> QED BY <3>1, <3>2
  <2> QED BY <2>2, <2>3
<1>6. ASSUME "cut" \notin damage', writer'.pc = "open", bounds'.failed = 0, ~Releasing'
      PROVE  file'.header.count = writer'.header.count
  <2>1. bounds.failed = 0
    BY <1>3, <1>6
  <2> QED BY <1>0, <1>6, <2>1 DEF CountInv, Header
<1> QED BY <1>4, <1>5, <1>6 DEF CountInv, Header

LEMMA SpendKeeps ==
  ASSUME TypeInv, NEW max
  PROVE  /\ Spend("crashes", max) => /\ bounds'.crashes = bounds.crashes + 1
                                      /\ bounds'.failed = bounds.failed
         /\ Spend("failed", max) => /\ bounds'.crashes = bounds.crashes
                                     /\ bounds'.failed = bounds.failed + 1
         /\ Spend("opened", max) \/ Spend("calls", max) =>
              bounds'.crashes = bounds.crashes /\ bounds'.failed = bounds.failed
BY DEF Spend, TypeInv, HistoryType

LEMMA BoundsType ==
  ASSUME TypeInv
  PROVE  bounds.crashes \in Nat /\ bounds.failed \in Nat
BY DEF TypeInv, HistoryType

(* A handle that is opened begins with the header of the file.             *)
LEMMA CountOpened ==
  ASSUME TypeInv, CountInv, ReadLogFileHeader
  PROVE  CountInv'
<1>1. /\ writer.pc = "opening" /\ writer'.pc = "open" /\ writer'.header = file.header
      /\ file'.header = file.header /\ file.header \in Headers
      /\ UNCHANGED <<thread, written, orphans, damage, bounds>>
  <2>1. writer.pc = "opening" /\ UNCHANGED <<file, thread, written, orphans, damage, bounds>>
    BY DEF ReadLogFileHeader
  <2>2. writer \in Writers /\ file.header \in Headers
    BY <2>1 DEF TypeInv, FileType, WriterType, NoWriter
  <2> QED BY <2>1, <2>2 DEF ReadLogFileHeader, Writers
<1>2. Lag = orphans /\ Total(file.header) \in Nat /\ Len(written) \in Nat /\ orphans \in Nat
  BY <1>1, LagType DEF CountInv, TypeInv, HistoryType
<1>3. Total(file.header) + orphans = Len(written)
  BY <1>2 DEF Lag
<1>4. Less(file.header, file.header)
  BY <1>1 DEF Less, Headers, Counts
<1>5. Lag' = Lag /\ (Releasing' <=> Releasing)
  BY <1>1 DEF Lag, Releasing, At
<1>6. /\ Numbers(written').count \in Counts /\ Total(Numbers(written')) = Len(written')
      /\ Less(file'.header, Numbers(written'))
      /\ Less(file'.header, writer'.header) /\ Less(writer'.header, Numbers(written'))
      /\ Total(writer'.header) + orphans' = Len(written')
  BY <1>1, <1>3, <1>4 DEF CountInv
<1>7. ASSUME damage' \cap {"cut", "begun"} = {}
      PROVE  /\ orphans' <= bounds'.crashes + bounds'.failed
             /\ Lag' <= bounds'.crashes + bounds'.failed + (IF Releasing' THEN 1 ELSE 0)
  BY <1>1, <1>5, <1>7 DEF CountInv
<1> QED BY <1>1, <1>6, <1>7 DEF CountInv, Header

(* A header that is begun counts nothing, and all that was written before  *)
(* are orphans.                                                            *)
LEMMA CountBegun ==
  ASSUME TypeInv, CountInv, TypeInv', WriteFirstHeader
  PROVE  CountInv'
<1>1. /\ writer.pc = "opening" /\ written' = written /\ orphans' = Len(written)
      /\ writer' = [writer EXCEPT !.pc = "open"]
      /\ \E body : file' = [file EXCEPT !.kind = "log", !.header = EmptyHeader, !.body = body]
      /\ "begun" \notin damage' => written = <<>>
  BY DEF WriteFirstHeader
<1>2. /\ writer'.pc = "open" /\ writer'.header = EmptyHeader /\ file'.header = EmptyHeader
  <2>1. writer \in Writers /\ writer.header = EmptyHeader
    BY <1>1 DEF TypeInv, PhaseInv, WriterType, NoWriter, Header
  <2> QED BY <1>1, <2>1 DEF Writers, TypeInv, FileType
<1>3. Total(EmptyHeader) = 0 /\ Len(written) \in Nat
  BY EmptyHeaderType DEF TypeInv, HistoryType
<1>4. Numbers(written').count \in Counts /\ Total(Numbers(written')) = Len(written')
  BY <1>1 DEF CountInv
<1>5. Less(EmptyHeader, Numbers(written')) /\ Less(EmptyHeader, EmptyHeader)
  <2>1. \A s \in Severities : EmptyHeader.count[s] = 0 /\ Numbers(written').count[s] \in Nat
    BY <1>4 DEF EmptyHeader, Counts
  <2> QED BY <2>1 DEF Less
<1>6. Total(writer'.header) + orphans' = Len(written') /\ Lag' = Len(written)
  BY <1>1, <1>2, <1>3 DEF Lag
<1>7. ASSUME damage' \cap {"cut", "begun"} = {}
      PROVE  /\ orphans' <= bounds'.crashes + bounds'.failed
             /\ Lag' <= bounds'.crashes + bounds'.failed + (IF Releasing' THEN 1 ELSE 0)
  <2>1. Len(written) = 0
    BY <1>1, <1>7
  <2>2. bounds'.crashes \in Nat /\ bounds'.failed \in Nat
    BY DEF TypeInv, HistoryType
  <2> QED BY <1>1, <1>6, <2>1, <2>2
<1> QED BY <1>2, <1>4, <1>5, <1>6, <1>7 DEF CountInv, Header

(* The entries behind the last header are orphans once the process ended.  *)
LEMMA CountLeft ==
  ASSUME TypeInv, CountInv, TypeInv', CloseLogFile \/ Crash
  PROVE  CountInv'
<1>1. /\ writer'.pc = "none" /\ orphans' = Lag /\ UNCHANGED <<file, written>>
      /\ thread' = [t \in Threads |-> Idle]
      /\ damage \subseteq damage'
  BY DEF CloseLogFile, Crash, Leave, NoWriter, Lag
<1>2. Lag' = Lag /\ ~Releasing'
  BY <1>1 DEF Lag, Releasing, At, Idle
<1>3. Lag \in Nat /\ {bounds.crashes, bounds.failed} \subseteq Nat
  BY LagType, BoundsType
<1>4. ASSUME damage' \cap {"cut", "begun"} = {}
      PROVE  Lag <= bounds'.crashes + bounds'.failed
  <2>1. Lag <= bounds.crashes + bounds.failed + (IF Releasing THEN 1 ELSE 0)
    BY <1>1, <1>4 DEF CountInv
  <2>2. CASE CloseLogFile
    <3>1. ~Releasing /\ UNCHANGED bounds
      BY <2>2 DEF CloseLogFile, Releasing, At, Idle
    <3> QED BY <1>3, <2>1, <3>1
  <2>3. CASE Crash
    <3>1. Spend("crashes", MaxCrashes)
      BY <2>3 DEF Crash
    <3>2. bounds'.crashes = bounds.crashes + 1 /\ bounds'.failed = bounds.failed
      BY <3>1, SpendKeeps
    <3> QED BY <1>3, <2>1, <3>2
  <2> QED BY <2>2, <2>3
<1>5. /\ Numbers(written').count \in Counts /\ Total(Numbers(written')) = Len(written')
      /\ Less(file'.header, Numbers(written'))
  BY <1>1 DEF CountInv
<1>6. ASSUME damage' \cap {"cut", "begun"} = {}
      PROVE  /\ orphans' <= bounds'.crashes + bounds'.failed
             /\ Lag' <= bounds'.crashes + bounds'.failed + (IF Releasing' THEN 1 ELSE 0)
  <2>1. bounds'.crashes \in Nat /\ bounds'.failed \in Nat
    BY DEF TypeInv, HistoryType
  <2> QED BY <1>1, <1>2, <1>3, <1>4, <1>6, <2>1
<1> QED BY <1>1, <1>2, <1>5, <1>6 DEF CountInv

(* An entry is counted in memory; the header of the file lags behind.      *)
LEMMA CountWritten ==
  ASSUME TypeInv, LockInv, CountInv, NEW t \in Threads, At(t, "write"), NewEntry(t) \in Entry,
         writer \in Writers, writer.pc = "open", NEW n,
         file'.header = file.header, UNCHANGED <<orphans, damage, bounds>>,
         writer' = [writer EXCEPT !.position = n, !.header = Counted(@, Request(t).severity)],
         written' = Append(written, NewEntry(t)), At(t, "release")'
  PROVE  CountInv'
<1> DEFINE e == NewEntry(t)
           x == Request(t).severity
<1>1. e.request.severity = x /\ x \in Severities
  BY RequestType DEF NewEntry, Entry
<1>2. /\ written \in Seq(Entry) /\ Numbers(written).count \in Counts
      /\ Total(Numbers(written)) = Len(written)
      /\ Less(file.header, Numbers(written)) /\ Less(file.header, Header)
      /\ Less(Header, Numbers(written)) /\ Total(Header) + orphans = Len(written)
  BY DEF CountInv, TypeInv, HistoryType
<1>3. Header \in Headers /\ Header.count \in Counts /\ file.header.count \in Counts
  BY DEF Writers, Header, Headers, TypeInv, FileType
<1>4. /\ writer'.pc = "open" /\ writer'.header = Counted(Header, x)
  BY DEF Writers, Header
<1>5. Counted(Header, x).count = [Header.count EXCEPT ![x] = @ + 1]
  BY <1>3 DEF Counted, Headers
<1>6. /\ Numbers(written').count = [Numbers(written).count EXCEPT ![x] = @ + 1]
      /\ Numbers(written').count \in Counts
      /\ Total(Numbers(written')) = Len(written') /\ Len(written') = Len(written) + 1
  <2>1. Len(Append(written, e)) = Len(written) + 1
    BY <1>2
  <2> QED BY <1>1, <1>2, <2>1, NumbersAppend
<1>7. /\ Total(writer'.header) = Total(Header) + 1 /\ Total(Header) \in Nat
  BY <1>1, <1>3, <1>4, <1>5, TotalCounted, TotalType
<1>8. /\ Less(file'.header, writer'.header) /\ Less(writer'.header, Numbers(written'))
      /\ Less(file'.header, Numbers(written'))
  <2> DEFINE a == file.header.count
             b == Header.count
             c == Numbers(written).count
  <2>1. a \in Counts /\ b \in Counts /\ c \in Counts /\ \A s \in Severities : a[s] <= b[s] /\ b[s] <= c[s]
    BY <1>2, <1>3 DEF Less
  <2>2. /\ file'.header.count = a /\ writer'.header.count = [b EXCEPT ![x] = @ + 1]
        /\ Numbers(written').count = [c EXCEPT ![x] = @ + 1]
    BY <1>4, <1>5, <1>6
  <2> HIDE DEF a, b, c, x
  <2>3. \A s \in Severities : /\ a[s] <= [b EXCEPT ![x] = @ + 1][s]
                              /\ [b EXCEPT ![x] = @ + 1][s] <= [c EXCEPT ![x] = @ + 1][s]
                              /\ a[s] <= [c EXCEPT ![x] = @ + 1][s]
    BY <1>1, <2>1 DEF Counts
  <2> QED BY <2>2, <2>3 DEF Less
<1>9. Total(writer'.header) + orphans' = Len(written')
  BY <1>2, <1>6, <1>7 DEF TypeInv, HistoryType
<1>10. ASSUME "cut" \notin damage'
       PROVE  Releasing' /\ ~Releasing
  <2>1. HasLock(t)
    BY DEF HasLock, At
  <2>2. ~Releasing
    BY <1>10, <2>1, Alone DEF Releasing, HasLock, At
  <2>3. Releasing'
    BY DEF Releasing
  <2> QED BY <2>2, <2>3
<1>11. ASSUME damage' \cap {"cut", "begun"} = {}
       PROVE  /\ orphans' <= bounds'.crashes + bounds'.failed
              /\ Lag' <= bounds'.crashes + bounds'.failed + (IF Releasing' THEN 1 ELSE 0)
  <2>1. Releasing' /\ ~Releasing
    BY <1>10, <1>11
  <2>2. orphans <= bounds.crashes + bounds.failed /\ Lag <= bounds.crashes + bounds.failed
    BY <1>11, <2>1, LagType, BoundsType DEF CountInv
  <2>3. Lag' = Lag + 1
    BY <1>6, LagType DEF Lag
  <2> QED BY <2>1, <2>2, <2>3, LagType, BoundsType
<1> QED BY <1>4, <1>6, <1>8, <1>9, <1>10, <1>11 DEF CountInv, Header

LEMMA CountReleased ==
  ASSUME TypeInv, LockInv, CountInv, TypeInv', NEW t \in Threads, ReleaseFileLock(t)
  PROVE  CountInv'
<1>1. /\ HasLock(t) /\ At(t, "release") /\ writer.pc = "open" /\ writer'.pc = "open"
      /\ thread' = [thread EXCEPT ![t] = Idle] /\ writer'.header = Header
      /\ UNCHANGED <<written, orphans, damage>>
      /\ \/ file' = [file EXCEPT !.header = Header] /\ UNCHANGED bounds
         \/ UNCHANGED file /\ Spend("failed", MaxFailed)
  BY ReleaseStep, ThreadStep DEF Thread, Header
<1>2. /\ Numbers(written).count \in Counts /\ Total(Numbers(written)) = Len(written)
      /\ Less(file.header, Numbers(written)) /\ Less(file.header, Header)
      /\ Less(Header, Numbers(written)) /\ Total(Header) + orphans = Len(written)
  BY <1>1 DEF CountInv
<1>3. Less(Header, Header) /\ Total(Header) \in Nat /\ orphans \in Nat /\ Lag \in Nat
  BY <1>1, LagType DEF TypeInv, WriterType, Writers, NoWriter, Header, Headers, Counts, HistoryType, Less
<1>4. "cut" \notin damage' => ~Releasing'
  <2> SUFFICES ASSUME "cut" \notin damage' PROVE ~Releasing'
    OBVIOUS
  <2>1. \A u \in Threads \ {t} : ~HasLock(u)
    BY <1>1, Alone
  <2>2. \A u \in Threads : ~At(u, "release")'
    BY <1>1, <2>1 DEF HasLock, At, Idle, TypeInv, ThreadType
  <2> QED BY <2>2 DEF Releasing
<1>5. ASSUME damage' \cap {"cut", "begun"} = {}
      PROVE  /\ ~Releasing' /\ orphans <= bounds.crashes + bounds.failed
             /\ Lag <= bounds.crashes + bounds.failed + 1
  <2>1. "cut" \notin damage' /\ damage \cap {"cut", "begun"} = {}
    BY <1>1, <1>5
  <2> QED BY <1>1, <1>3, <1>4, <2>1, BoundsType DEF CountInv
<1>6. CASE file' = [file EXCEPT !.header = Header] /\ UNCHANGED bounds
  <2>1. file'.header = Header
    BY <1>6 DEF TypeInv, FileType
  <2>2. Lag' = orphans
    BY <1>1, <1>2, <1>3, <2>1 DEF Lag
  <2>3. ASSUME damage' \cap {"cut", "begun"} = {}
        PROVE  /\ orphans' <= bounds'.crashes + bounds'.failed
               /\ Lag' <= bounds'.crashes + bounds'.failed + (IF Releasing' THEN 1 ELSE 0)
    BY <1>1, <1>3, <1>5, <1>6, <2>2, <2>3, BoundsType
  <2> QED BY <1>1, <1>2, <1>3, <2>1, <2>3 DEF CountInv, Header
<1>7. CASE UNCHANGED file /\ Spend("failed", MaxFailed)
  <2>1. bounds'.crashes = bounds.crashes /\ bounds'.failed = bounds.failed + 1 /\ bounds'.failed # 0
    BY <1>7, SpendKeeps, BoundsType
  <2>2. Lag' = Lag
    BY <1>1, <1>7 DEF Lag
  <2>3. ASSUME damage' \cap {"cut", "begun"} = {}
        PROVE  /\ orphans' <= bounds'.crashes + bounds'.failed
               /\ Lag' <= bounds'.crashes + bounds'.failed + (IF Releasing' THEN 1 ELSE 0)
    BY <1>1, <1>3, <1>5, <2>1, <2>2, <2>3, BoundsType
  <2> QED BY <1>1, <1>2, <1>7, <2>1, <2>3 DEF CountInv, Header
<1> QED BY <1>1, <1>6, <1>7

(* A thread that neither writes nor releases the lock counts nothing.      *)
LEMMA CountUntouched ==
  ASSUME TypeInv, CountInv, TypeInv', NEW t \in Threads, Thread(t), ~At(t, "release"),
         file'.header.count = file.header.count, writer'.header.count = writer.header.count,
         written' = written, damage \subseteq damage',
         UNCHANGED bounds \/ Spend("calls", MaxWritten) \/ Spend("failed", MaxFailed)
  PROVE  CountInv'
<1>1. /\ writer.pc = "open" /\ writer'.pc = "open" /\ orphans' = orphans
      /\ \A u \in Threads \ {t} : thread'[u] = thread[u]
  BY ThreadStep
<1>2. Releasing => Releasing'
  BY <1>1 DEF Releasing, At
<1>3. bounds'.crashes >= bounds.crashes /\ bounds'.failed >= bounds.failed
  BY SpendKeeps, BoundsType
<1> QED BY <1>1, <1>2, <1>3, CountKeeps

LEMMA NextCountInv ==
  ASSUME TypeInv, LockInv, CountInv, TypeInv', [Next]_vars
  PROVE  CountInv'
<1>1. CASE CreateLogFile
  <2>1. /\ writer = NoWriter /\ writer.pc = "none" /\ thread' = thread /\ writer'.pc = "opening"
        /\ \/ UNCHANGED <<file, written, orphans, damage>>
           \/ /\ file' = File(TRUE, "empty") /\ written' = <<>> /\ orphans' = 0 /\ damage' = {}
        /\ bounds'.crashes = bounds.crashes /\ bounds'.failed = bounds.failed
    <3>1. Spend("opened", MaxOpened)
      BY <1>1, CreateStep
    <3>2. bounds'.crashes = bounds.crashes /\ bounds'.failed = bounds.failed
      BY <3>1, SpendKeeps
    <3>3. /\ writer = NoWriter /\ thread' = thread
          /\ writer' = [pc |-> "opening", header |-> EmptyHeader, position |-> 0, lock |-> "free"]
          /\ \/ UNCHANGED <<file, written, orphans, damage>>
             \/ /\ file' = File(TRUE, "empty") /\ written' = <<>> /\ orphans' = 0 /\ damage' = {}
      BY <1>1, CreateStep
    <3> QED BY <3>2, <3>3 DEF NoWriter
  <2>2. CASE UNCHANGED <<file, written, orphans, damage>>
    <3>1. Releasing => Releasing'
      BY <2>1 DEF Releasing, At
    <3> QED BY <2>1, <2>2, <3>1, BoundsType, CountKeeps
  <2>3. CASE file' = File(TRUE, "empty") /\ written' = <<>> /\ orphans' = 0 /\ damage' = {}
    <3>1. file'.header = EmptyHeader
      BY <2>3 DEF File
    <3>2. /\ Numbers(written').count \in Counts /\ Total(Numbers(written')) = Len(written')
          /\ Numbers(written').count = file'.header.count
      BY <2>3, <3>1, NumbersEmpty
    <3>3. Less(file'.header, Numbers(written'))
      BY <3>2 DEF Less, Counts
    <3>4. Lag' = 0
      <4>1. Len(written') = 0
        BY <2>3
      <4>2. Total(file'.header) = 0
        BY <3>1, EmptyHeaderType
      <4> QED BY <4>1, <4>2 DEF Lag
    <3>5. /\ 0 <= bounds'.crashes + bounds'.failed
          /\ 0 <= bounds'.crashes + bounds'.failed + (IF Releasing' THEN 1 ELSE 0)
      BY <2>1, BoundsType
    <3>6. orphans' = 0 /\ Lag' = orphans' /\ writer'.pc # "open"
      BY <2>1, <2>3, <3>4
    <3> QED BY <3>2, <3>3, <3>5, <3>6 DEF CountInv
  <2> QED BY <2>1, <2>2, <2>3
<1>2. CASE WriteFirstHeader \/ ReadLogFileHeader
  BY <1>2, CountBegun, CountOpened
<1>3. CASE CloseLogFile \/ Crash
  BY <1>3, CountLeft
<1>4. CASE \/ OpenFails \/ MapFails \/ OpenLogFileReadOnly \/ MapAndIndex \/ ExportLogToText
           \/ CloseReader \/ UNCHANGED vars
  <2>1. /\ UNCHANGED <<file, thread, written, orphans, damage>>
        /\ writer'.pc = "open" <=> writer.pc = "open"
        /\ writer.pc = "open" => writer' = writer
        /\ UNCHANGED bounds \/ Spend("failed", MaxFailed)
    <3>1. CASE ExportLogToText
      <4>1. UNCHANGED <<file, writer, thread, written, orphans, damage>>
        BY <3>1 DEF ExportLogToText
      <4>2. UNCHANGED bounds \/ Spend("failed", MaxFailed)
        BY <3>1 DEF ExportLogToText, Fails
      <4> QED BY <4>1, <4>2
    <3>2. CASE ~ExportLogToText
      BY <1>4, <3>2
      DEF OpenFails, MapFails, OpenLogFileReadOnly, MapAndIndex, CloseReader, vars, Fails, NoWriter
    <3> QED BY <3>1, <3>2
  <2>2. Releasing => Releasing'
    BY <2>1 DEF Releasing, At
  <2>3. bounds'.crashes >= bounds.crashes /\ bounds'.failed >= bounds.failed
    BY <2>1, SpendKeeps, BoundsType
  <2> QED BY <2>1, <2>2, <2>3, CountKeeps
<1>5. ASSUME NEW t \in Threads,
             LogEx(t) \/ FindSourceComponentIndex(t) \/ PickSlot(t) \/ CopyName(t)
      PROVE  CountInv'
  <2>1. /\ ~At(t, "release") /\ damage \subseteq damage' /\ UNCHANGED <<file, written>>
    BY <1>5, BeforeLock DEF HasLock, At
  <2>2. UNCHANGED bounds \/ Spend("calls", MaxWritten)
    BY <1>5 DEF LogEx, FindSourceComponentIndex, PickSlot, CopyName
  <2>3. writer'.header.count = writer.header.count
    <3>1. writer' = writer \/ CopyName(t)
      BY <1>5 DEF LogEx, FindSourceComponentIndex, PickSlot
    <3>2. CASE CopyName(t)
      <4>1. writer \in Writers /\ writer.header \in Headers
        BY <3>2, CallType DEF CopyName, At, Header
      <4> QED BY <3>2, <4>1 DEF CopyName, Writers, Headers
    <3> QED BY <3>1, <3>2
  <2> QED BY <1>5, <2>1, <2>2, <2>3, CountUntouched DEF Thread
<1>6. ASSUME NEW t \in Threads, AcquireFileLock(t) \/ QueryLogInformation(t) PROVE CountInv'
  <2>1. /\ ~At(t, "release") /\ UNCHANGED <<file, written, damage>>
        /\ writer'.header = writer.header
    BY <1>6, AcquireStep DEF At
  <2>2. UNCHANGED bounds \/ Spend("calls", MaxWritten)
    BY <1>6 DEF AcquireFileLock, QueryLogInformation
  <2> QED BY <1>6, <2>1, <2>2, CountUntouched DEF Thread
<1>7. ASSUME NEW t \in Threads, SeekEnd(t) PROVE CountInv'
  <2>1. /\ ~At(t, "release") /\ UNCHANGED <<file, written, damage>>
        /\ writer'.header = writer.header
        /\ UNCHANGED bounds \/ Spend("failed", MaxFailed)
    BY <1>7, SeekStep DEF At
  <2> QED BY <1>7, <2>1, CountUntouched DEF Thread
<1>8. ASSUME NEW t \in Threads, WriteEntry(t) PROVE CountInv'
  <2>1. /\ At(t, "write") /\ NewEntry(t) \in Entry /\ UNCHANGED <<orphans, damage>>
        /\ \/ /\ \E c : file' = [file EXCEPT !.body = c]
              /\ \E n : writer' = [writer EXCEPT !.position = n,
                                                 !.header = Counted(@, Request(t).severity)]
              /\ written' = Append(written, NewEntry(t))
              /\ thread' = [thread EXCEPT ![t].pc = "release"]
              /\ UNCHANGED bounds
           \/ /\ Spend("failed", MaxFailed)
              /\ \E c : file' = [file EXCEPT !.body = c]
              /\ \E n : writer' = [writer EXCEPT !.position = n]
              /\ UNCHANGED written
    BY <1>8, WriteStep
  <2>2. file'.header = file.header /\ ~At(t, "release")
    BY <2>1 DEF TypeInv, FileType, At
  <2>3. CASE /\ \E n : writer' = [writer EXCEPT !.position = n,
                                                !.header = Counted(@, Request(t).severity)]
             /\ written' = Append(written, NewEntry(t))
             /\ thread' = [thread EXCEPT ![t].pc = "release"]
             /\ UNCHANGED bounds
    <3>1. writer \in Writers /\ writer.pc = "open" /\ thread[t] \in Calls
      BY <2>1, CallType DEF At
    <3>2. At(t, "release")'
      BY <2>3, <3>1 DEF At, Calls, TypeInv, ThreadType
    <3> QED BY <2>1, <2>2, <2>3, <3>1, <3>2, CountWritten
  <2>4. CASE /\ Spend("failed", MaxFailed) /\ UNCHANGED written
             /\ \E n : writer' = [writer EXCEPT !.position = n]
    <3>1. writer \in Writers
      BY <2>1, CallType DEF At
    <3>2. writer'.header = writer.header
      BY <2>4, <3>1 DEF Writers
    <3> QED BY <1>8, <2>1, <2>2, <2>4, <3>2, CountUntouched DEF Thread
  <2> QED BY <2>1, <2>3, <2>4
<1>9. ASSUME NEW t \in Threads, RollBack(t) PROVE CountInv'
  <2>1. /\ At(t, "failed") /\ written' = written
        /\ UNCHANGED bounds \/ Spend("failed", MaxFailed)
        /\ damage \subseteq damage'
        /\ \E c, n : /\ file' = file \/ file' = [file EXCEPT !.body = c]
                     /\ writer' = [writer EXCEPT !.position = n]
    BY <1>9 DEF RollBack, Fails
  <2>2. writer \in Writers
    BY <2>1, CallType DEF At
  <2>3. file'.header = file.header /\ writer'.header = writer.header /\ ~At(t, "release")
    BY <2>1, <2>2 DEF TypeInv, FileType, Writers, At
  <2> QED BY <1>9, <2>1, <2>3, CountUntouched DEF Thread
<1>10. ASSUME NEW t \in Threads, ReleaseFileLock(t) PROVE CountInv'
  BY <1>10, CountReleased
<1> QED
  BY <1>1, <1>2, <1>3, <1>4, <1>5, <1>6, <1>7, <1>8, <1>9, <1>10 DEF Next, Thread

-----------------------------------------------------------------------------
(* The components.                                                         *)

LEMMA WrittenIs ==
  ASSUME TypeInv, NEW k \in DOMAIN written
  PROVE  written[k] \in Entry /\ written[k].request \in Requests /\ written[k].slot \in Slots
         /\ written[k].request.component # NoName
<1>1. written[k] \in Entry
  BY DEF TypeInv, HistoryType
<1> QED BY <1>1, RequestType DEF Entry

Holds(t) == thread[t].pc \in {"lock", "seek", "write"}

(* Steps that leave the slots alone.                                       *)
LEMMA SlotsKeep ==
  ASSUME SlotsInv, "race" \in damage => "race" \in damage', written' = written,
         orphans' = 0 => orphans = 0, file'.header = file.header,
         writer'.pc = "open" => writer.pc = "open" /\ writer'.header.components = writer.header.components,
         \A t \in Threads : Holds(t)' =>
           /\ Holds(t) /\ thread'[t].request = thread[t].request /\ thread'[t].slot = thread[t].slot
           /\ writer'.header.components = writer.header.components
  PROVE  SlotsInv'
<1>1. ASSUME "race" \notin damage'
      PROVE  /\ orphans' = 0 => Names(file.header, Total(file.header))'
             /\ orphans' = 0 /\ writer'.pc = "open" => Names(Header, Len(written))'
             /\ \A t \in Threads : Holds(t)' =>
                  writer'.header.components[thread'[t].slot] = thread'[t].request.component
  BY <1>1 DEF SlotsInv, Names, Header, Holds, Request
<1> QED BY <1>1 DEF SlotsInv, Holds, Request, Header

LEMMA SlotsOpened ==
  ASSUME TypeInv, CountInv, SlotsInv, ReadLogFileHeader
  PROVE  SlotsInv'
<1>1. /\ writer.pc = "opening" /\ UNCHANGED <<thread, written, orphans, damage>>
      /\ writer'.header = file.header /\ file'.header = file.header
  BY DEF ReadLogFileHeader, TypeInv, WriterType, NoWriter, Writers
<1>2. orphans = 0 => Total(file.header) = Len(written)
  BY <1>1, LagType DEF CountInv, Lag
<1>3. \A t \in Threads : thread'[t] = Idle
  BY <1>1, IdleThreads
<1>4. ASSUME "race" \notin damage'
      PROVE  /\ orphans' = 0 => Names(file.header, Total(file.header))'
             /\ orphans' = 0 => Names(Header, Len(written))'
  BY <1>1, <1>2, <1>4 DEF SlotsInv, Names, Header
<1> QED BY <1>3, <1>4 DEF SlotsInv, Idle

LEMMA SlotsBegun ==
  ASSUME TypeInv, WriteFirstHeader
  PROVE  SlotsInv'
<1>1. writer.pc = "opening" /\ UNCHANGED <<thread, written>> /\ orphans' = Len(written)
  BY DEF WriteFirstHeader
<1>2. \A t \in Threads : thread'[t] = Idle
  BY <1>1, IdleThreads
<1>3. orphans' = 0 => DOMAIN written' = {}
  <2>1. written \in Seq(Entry) /\ written' = written
    BY <1>1 DEF TypeInv, HistoryType
  <2>2. DOMAIN written = 1 .. Len(written)
    BY <2>1
  <2> QED BY <1>1, <2>1, <2>2
<1>4. orphans' = 0 => Names(file.header, Total(file.header))' /\ Names(Header, Len(written))'
  BY <1>3 DEF Names
<1> QED BY <1>2, <1>4 DEF SlotsInv, Idle

LEMMA SlotsFound ==
  ASSUME TypeInv, SlotsInv, NEW t \in Threads, FindSourceComponentIndex(t)
  PROVE  SlotsInv'
<1> DEFINE equal == {i \in Slots : Header.components[i] = Request(t).component}
<1>1. At(t, "find") /\ thread[t] \in Calls
  BY CallType DEF FindSourceComponentIndex, At
<1>2. UNCHANGED <<file, writer, written, orphans, damage>>
  BY DEF FindSourceComponentIndex
<1>3. CASE equal = {}
  <2>1. thread' = [thread EXCEPT ![t].pc = "pick"]
    BY <1>3 DEF FindSourceComponentIndex, Goto
  <2>2. thread'[t].pc = "pick" /\ \A u \in Threads \ {t} : thread'[u] = thread[u]
    BY <1>1, <2>1 DEF TypeInv, ThreadType, Calls
  <2> QED BY <1>2, <2>2, SlotsKeep DEF Holds
<1>4. CASE equal # {}
  <2> DEFINE i == CHOOSE x \in equal : \A y \in equal : x <= y
  <2>1. i \in equal
    <3>1. equal \subseteq Nat
      BY VxlLegacyAssumption DEF Slots
    <3> HIDE DEF equal
    <3> QED BY <1>4, <3>1, LeastNumber
  <2> HIDE DEF i
  <2>2. thread' = [thread EXCEPT ![t].slot = i, ![t].pc = "lock"]
    BY <1>4 DEF FindSourceComponentIndex, i
  <2>3. /\ thread'[t].slot = i /\ thread'[t].request = thread[t].request
        /\ \A u \in Threads \ {t} : thread'[u] = thread[u]
    BY <1>1, <2>2 DEF TypeInv, ThreadType, Calls
  <2>4. Header.components[i] = Request(t).component
    BY <2>1
  <2>5. ASSUME "race" \notin damage'
        PROVE  /\ orphans' = 0 => Names(file.header, Total(file.header))'
               /\ orphans' = 0 /\ writer'.pc = "open" => Names(Header, Len(written))'
    BY <1>2, <2>5 DEF SlotsInv, Names, Header
  <2>6. ASSUME "race" \notin damage', NEW u \in Threads, Holds(u)'
        PROVE  writer'.header.components[thread'[u].slot] = thread'[u].request.component
    BY <1>2, <2>3, <2>4, <2>6 DEF SlotsInv, Header, Holds, Request
  <2> QED BY <2>5, <2>6 DEF SlotsInv, Holds, Header, Request
<1> QED BY <1>3, <1>4

(* A slot that was not used is nobody's.                                   *)
LEMMA SlotsCopied ==
  ASSUME TypeInv, SlotsInv, NEW t \in Threads, CopyName(t)
  PROVE  SlotsInv'
<1> DEFINE slot == thread[t].slot
           name == Request(t).component
           new == IF name \in LongNames THEN [cut |-> name] ELSE name
<1>1. /\ thread[t] \in Calls /\ writer \in Writers /\ Header \in Headers /\ writer.pc = "open"
      /\ slot \in Slots
  BY CallType DEF CopyName, At, Calls
<1>2. /\ UNCHANGED <<file, written, orphans>>
      /\ writer' = [writer EXCEPT !.header.components[slot] = new]
      /\ thread' = [thread EXCEPT ![t].pc = IF name \in LongNames THEN "failed" ELSE "lock"]
      /\ damage \subseteq damage'
      /\ "race" \notin damage' => Header.components[slot] = NoName
  BY DEF CopyName, Goto
<1>3. writer'.header.components = [Header.components EXCEPT ![slot] = new] /\ writer'.pc = "open"
  BY <1>1, <1>2 DEF Writers, Headers, Header
<1>4. /\ thread'[t].slot = slot /\ thread'[t].request = thread[t].request
      /\ thread'[t].pc = IF name \in LongNames THEN "failed" ELSE "lock"
      /\ \A u \in Threads \ {t} : thread'[u] = thread[u]
  BY <1>1, <1>2 DEF TypeInv, ThreadType, Calls
<1> HIDE DEF slot, new
<1>5. ASSUME "race" \notin damage'
      PROVE  /\ "race" \notin damage
             /\ \A s \in Slots : Header.components[s] # NoName =>
                  writer'.header.components[s] = Header.components[s]
             /\ writer'.header.components[slot] = new
  BY <1>1, <1>2, <1>3, <1>5 DEF Headers
<1>6. ASSUME "race" \notin damage', orphans' = 0
      PROVE  Names(file.header, Total(file.header))' /\ Names(Header, Len(written))'
  <2>1. Names(file.header, Total(file.header))'
    BY <1>2, <1>5, <1>6 DEF SlotsInv, Names
  <2>2. ASSUME NEW k \in DOMAIN written, k \in 1 .. Len(written)
        PROVE  writer'.header.components[written[k].slot] = written[k].request.component
    BY <1>1, <1>2, <1>5, <1>6, <2>2, WrittenIs DEF SlotsInv, Names
  <2> QED BY <1>2, <2>1, <2>2 DEF Names, Header
<1>7. ASSUME "race" \notin damage', NEW u \in Threads, Holds(u)'
      PROVE  writer'.header.components[thread'[u].slot] = thread'[u].request.component
  <2>1. CASE u = t
    BY <1>4, <1>5, <1>7, <2>1 DEF new, Holds, Request
  <2>2. CASE u # t
    <3>1. Holds(u) /\ thread'[u] = thread[u]
      BY <1>4, <1>7, <2>2 DEF Holds
    <3>2. thread[u].request.component # NoName /\ thread[u].slot \in Slots
      BY <3>1, CallType, RequestType DEF Holds, Calls
    <3>3. Header.components[thread[u].slot] = thread[u].request.component
      BY <1>5, <1>7, <3>1 DEF SlotsInv, Holds, Request
    <3> QED BY <1>5, <1>7, <3>1, <3>2, <3>3
  <2> QED BY <2>1, <2>2
<1> QED BY <1>2, <1>6, <1>7 DEF SlotsInv, Holds, Header, Request

LEMMA SlotsWritten ==
  ASSUME TypeInv, CountInv, SlotsInv, NEW t \in Threads, At(t, "write"), NewEntry(t) \in Entry,
         writer \in Writers, writer.pc = "open", NEW n,
         file'.header = file.header, UNCHANGED <<orphans, damage>>,
         writer' = [writer EXCEPT !.position = n, !.header = Counted(@, Request(t).severity)],
         written' = Append(written, NewEntry(t)), thread' = [thread EXCEPT ![t].pc = "release"]
  PROVE  SlotsInv'
<1>1. /\ written \in Seq(Entry) /\ Len(written) \in Nat
      /\ Len(written') = Len(written) + 1 /\ DOMAIN written' = 1 .. (Len(written) + 1)
      /\ written'[Len(written) + 1] = NewEntry(t)
      /\ \A k \in 1 .. Len(written) : written'[k] = written[k]
      /\ DOMAIN written = 1 .. Len(written)
  BY DEF TypeInv, HistoryType
<1>2. writer'.header.components = Header.components
  BY DEF Writers, Headers, Header, Counted
<1>3. /\ thread'[t].pc = "release" /\ \A u \in Threads \ {t} : thread'[u] = thread[u]
  BY CallType DEF At, TypeInv, ThreadType, Calls
<1>4. Total(file.header) \in Nat /\ Total(file.header) <= Len(written)
  BY LagType DEF Lag
<1>5. ASSUME "race" \notin damage'
      PROVE  Header.components[NewEntry(t).slot] = NewEntry(t).request.component
  BY <1>5 DEF SlotsInv, NewEntry, Request, At
<1>6. ASSUME "race" \notin damage', orphans' = 0
      PROVE  Names(file.header, Total(file.header))' /\ Names(Header, Len(written))'
  <2>1. Names(file.header, Total(file.header)) /\ Names(Header, Len(written))
    BY <1>6 DEF SlotsInv
  <2>2. ASSUME NEW k \in 1 .. Total(file.header)
        PROVE  file'.header.components[written'[k].slot] = written'[k].request.component
    BY <1>1, <1>4, <2>1 DEF Names
  <2>3. ASSUME NEW k \in 1 .. (Len(written) + 1)
        PROVE  writer'.header.components[written'[k].slot] = written'[k].request.component
    BY <1>1, <1>2, <1>5, <1>6, <2>1 DEF Names
  <2> QED BY <1>1, <2>2, <2>3 DEF Names, Header
<1>7. ASSUME "race" \notin damage', NEW u \in Threads, Holds(u)'
      PROVE  writer'.header.components[thread'[u].slot] = thread'[u].request.component
  BY <1>2, <1>3, <1>7 DEF SlotsInv, Holds, Request
<1> QED BY <1>6, <1>7 DEF SlotsInv, Holds, Header, Request

LEMMA NextSlotsInv ==
  ASSUME TypeInv, CountInv, SlotsInv, [Next]_vars
  PROVE  SlotsInv'
<1>1. CASE CreateLogFile
  <2>1. /\ writer'.pc = "opening" /\ \A t \in Threads : thread'[t] = Idle
    BY <1>1, CreateStep, IdleThreads DEF NoWriter
  <2>2. \/ UNCHANGED <<file, written, orphans, damage>>
        \/ written' = <<>>
    BY <1>1, CreateStep
  <2>3. \A t \in Threads : ~Holds(t)'
    BY <2>1 DEF Holds, Idle
  <2>4. CASE UNCHANGED <<file, written, orphans, damage>>
    BY <2>1, <2>3, <2>4, SlotsKeep
  <2>5. CASE written' = <<>>
    <3>1. DOMAIN written' = {}
      BY <2>5
    <3>2. Names(file.header, Total(file.header))' /\ Names(Header, Len(written))'
      BY <3>1 DEF Names
    <3> QED BY <2>3, <3>2 DEF SlotsInv, Holds
  <2> QED BY <2>2, <2>4, <2>5
<1>2. CASE WriteFirstHeader \/ ReadLogFileHeader
  BY <1>2, SlotsBegun, SlotsOpened
<1>3. CASE CloseLogFile \/ Crash
  <2>1. /\ writer'.pc = "none" /\ UNCHANGED <<file, written>> /\ orphans' = Lag
        /\ thread' = [t \in Threads |-> Idle]
        /\ "race" \in damage => "race" \in damage'
    BY <1>3 DEF CloseLogFile, Crash, Leave, NoWriter, Lag
  <2>2. orphans' = 0 => orphans = 0
    BY <2>1, LagType DEF TypeInv, HistoryType
  <2>3. \A t \in Threads : ~Holds(t)'
    BY <2>1 DEF Holds, Idle
  <2> QED BY <2>1, <2>2, <2>3, SlotsKeep
<1>4. CASE \/ OpenFails \/ MapFails \/ OpenLogFileReadOnly \/ MapAndIndex \/ ExportLogToText
           \/ CloseReader \/ UNCHANGED vars
  <2>1. /\ UNCHANGED <<file, thread, written, orphans, damage>>
        /\ writer' = writer \/ (writer.pc = "opening" /\ writer'.pc = "none")
    <3>1. CASE ExportLogToText
      BY <3>1 DEF ExportLogToText
    <3>2. CASE ~ExportLogToText
      BY <1>4, <3>2
      DEF OpenFails, MapFails, OpenLogFileReadOnly, MapAndIndex, CloseReader, vars, NoWriter
    <3> QED BY <3>1, <3>2
  <2>2. \A t \in Threads : Holds(t)' => Holds(t)
    BY <2>1 DEF Holds
  <2>3. writer.pc = "opening" => \A t \in Threads : ~Holds(t)
    BY IdleThreads DEF Holds, Idle
  <2> QED BY <2>1, <2>2, <2>3, SlotsKeep
<1>5. ASSUME NEW t \in Threads, LogEx(t) \/ PickSlot(t) PROVE SlotsInv'
  <2>1. UNCHANGED <<file, writer, written, orphans>> /\ damage \subseteq damage'
    BY <1>5, BeforeLock DEF LogEx, PickSlot
  <2>2. thread'[t].pc \in {"find", "copy", "failed"}
    <3>1. CASE LogEx(t)
      BY <3>1 DEF LogEx, TypeInv, ThreadType
    <3>2. CASE PickSlot(t)
      <4>1. \/ thread' = [thread EXCEPT ![t].pc = "failed"]
            \/ \E i : thread' = [thread EXCEPT ![t].slot = i, ![t].pc = "copy"]
        BY <3>2 DEF PickSlot, Goto
      <4>2. thread[t] \in Calls
        BY <3>2, CallType DEF PickSlot, At
      <4> QED BY <4>1, <4>2 DEF TypeInv, ThreadType, Calls
    <3> QED BY <1>5, <3>1, <3>2
  <2>3. \A u \in Threads \ {t} : thread'[u] = thread[u]
    BY <1>5, ThreadStep DEF Thread
  <2>4. \A u \in Threads : Holds(u)' => Holds(u) /\ thread'[u] = thread[u]
    BY <2>2, <2>3 DEF Holds
  <2> QED BY <2>1, <2>4, SlotsKeep
<1>6. ASSUME NEW t \in Threads, FindSourceComponentIndex(t) PROVE SlotsInv'
  BY <1>6, SlotsFound
<1>7. ASSUME NEW t \in Threads, CopyName(t) PROVE SlotsInv'
  BY <1>7, SlotsCopied
<1>8. ASSUME NEW t \in Threads, AcquireFileLock(t) \/ QueryLogInformation(t) PROVE SlotsInv'
  <2>1. /\ UNCHANGED <<file, written, orphans, damage>> /\ writer'.header = writer.header
        /\ writer.pc = "open" /\ \A u \in Threads \ {t} : thread'[u] = thread[u]
    BY <1>8, AcquireStep, ThreadStep DEF Thread
  <2>2. Holds(t)' => Holds(t) /\ thread'[t].request = thread[t].request /\ thread'[t].slot = thread[t].slot
    <3>1. CASE AcquireFileLock(t)
      <4>1. thread[t] \in Calls /\ thread' = [thread EXCEPT ![t].pc = "seek"] /\ At(t, "lock")
        BY <3>1, CallType DEF AcquireFileLock, At, Goto
      <4> QED BY <4>1 DEF TypeInv, ThreadType, Calls, Holds, At
    <3>2. CASE QueryLogInformation(t)
      <4>1. thread' \in {[thread EXCEPT ![t] = [pc |-> "release"]], [thread EXCEPT ![t] = [pc |-> "loops"]]}
        BY <3>2 DEF QueryLogInformation
      <4>2. thread'[t].pc \in {"release", "loops"}
        BY <4>1 DEF TypeInv, ThreadType
      <4> QED BY <4>2 DEF Holds
    <3> QED BY <1>8, <3>1, <3>2
  <2>3. \A u \in Threads : Holds(u)' =>
          Holds(u) /\ thread'[u].request = thread[u].request /\ thread'[u].slot = thread[u].slot
    BY <2>1, <2>2 DEF Holds
  <2> QED BY <2>1, <2>3, SlotsKeep
<1>9. ASSUME NEW t \in Threads, SeekEnd(t) PROVE SlotsInv'
  <2>1. /\ UNCHANGED <<file, written, orphans, damage>> /\ writer'.header = writer.header
        /\ writer.pc = "open" /\ \A u \in Threads \ {t} : thread'[u] = thread[u]
        /\ thread'[t].request = thread[t].request /\ thread'[t].slot = thread[t].slot
        /\ At(t, "seek")
    BY <1>9, SeekStep, ThreadStep DEF Thread
  <2>2. \A u \in Threads : Holds(u)' =>
          Holds(u) /\ thread'[u].request = thread[u].request /\ thread'[u].slot = thread[u].slot
    BY <2>1 DEF Holds, At
  <2> QED BY <2>1, <2>2, SlotsKeep
<1>10. ASSUME NEW t \in Threads, WriteEntry(t) PROVE SlotsInv'
  <2>1. /\ At(t, "write") /\ NewEntry(t) \in Entry /\ UNCHANGED <<orphans, damage>>
        /\ \/ /\ \E c : file' = [file EXCEPT !.body = c]
              /\ \E n : writer' = [writer EXCEPT !.position = n,
                                                 !.header = Counted(@, Request(t).severity)]
              /\ written' = Append(written, NewEntry(t))
              /\ thread' = [thread EXCEPT ![t].pc = "release"]
           \/ /\ \E c : file' = [file EXCEPT !.body = c]
              /\ thread' = [thread EXCEPT ![t].pc = "failed"]
              /\ \E n : writer' = [writer EXCEPT !.position = n]
              /\ UNCHANGED written
    BY <1>10, WriteStep
  <2>2. file'.header = file.header /\ writer \in Writers /\ writer.pc = "open" /\ thread[t] \in Calls
    BY <2>1, CallType DEF TypeInv, FileType, At
  <2>3. CASE /\ \E n : writer' = [writer EXCEPT !.position = n,
                                                !.header = Counted(@, Request(t).severity)]
             /\ written' = Append(written, NewEntry(t))
             /\ thread' = [thread EXCEPT ![t].pc = "release"]
    BY <2>1, <2>2, <2>3, SlotsWritten
  <2>4. CASE /\ thread' = [thread EXCEPT ![t].pc = "failed"] /\ UNCHANGED written
             /\ \E n : writer' = [writer EXCEPT !.position = n]
    <3>0. writer'.header = writer.header /\ writer'.pc = "open"
      BY <2>2, <2>4 DEF Writers
    <3>1. thread'[t].pc = "failed" /\ \A u \in Threads \ {t} : thread'[u] = thread[u]
      BY <2>2, <2>4 DEF TypeInv, ThreadType, Calls
    <3>2. \A u \in Threads : Holds(u)' => Holds(u) /\ thread'[u] = thread[u]
      BY <3>1 DEF Holds
    <3> QED BY <2>1, <2>2, <2>4, <3>0, <3>2, SlotsKeep
  <2> QED BY <2>1, <2>3, <2>4
<1>11. ASSUME NEW t \in Threads, RollBack(t) PROVE SlotsInv'
  <2>1. /\ At(t, "failed") /\ UNCHANGED <<written, orphans>>
        /\ damage \subseteq damage' /\ thread' = [thread EXCEPT ![t].pc = "release"]
        /\ \E c, n : /\ file' = file \/ file' = [file EXCEPT !.body = c]
                     /\ writer' = [writer EXCEPT !.position = n]
    BY <1>11 DEF RollBack, Goto
  <2>2. writer \in Writers /\ thread[t] \in Calls /\ writer.pc = "open"
    BY <2>1, CallType DEF At
  <2>3. /\ file'.header = file.header /\ writer'.header = writer.header
        /\ thread'[t].pc = "release" /\ \A u \in Threads \ {t} : thread'[u] = thread[u]
    BY <2>1, <2>2 DEF TypeInv, FileType, Writers, ThreadType, Calls
  <2>4. \A u \in Threads : Holds(u)' => Holds(u) /\ thread'[u] = thread[u]
    BY <2>3 DEF Holds
  <2> QED BY <2>1, <2>2, <2>3, <2>4, SlotsKeep
<1>12. ASSUME NEW t \in Threads, ReleaseFileLock(t) PROVE SlotsInv'
  <2>1. /\ UNCHANGED <<written, orphans, damage>> /\ writer'.header = writer.header
        /\ writer.pc = "open" /\ \A u \in Threads \ {t} : thread'[u] = thread[u]
        /\ thread'[t] = Idle
        /\ file' = [file EXCEPT !.header = Header] \/ file' = file
    BY <1>12, ReleaseStep, ThreadStep DEF Thread
  <2>2. \A u \in Threads : Holds(u)' => Holds(u) /\ thread'[u] = thread[u]
    BY <2>1 DEF Holds, Idle
  <2>3. CASE file' = file
    BY <2>1, <2>2, <2>3, SlotsKeep
  <2>4. CASE file' = [file EXCEPT !.header = Header]
    <3>1. file'.header = Header
      BY <2>4 DEF TypeInv, FileType
    <3>2. orphans = 0 => Total(Header) = Len(written)
      BY <2>1, LagType DEF CountInv
    <3>3. ASSUME "race" \notin damage'
          PROVE  /\ orphans' = 0 => Names(file.header, Total(file.header))' /\ Names(Header, Len(written))'
                 /\ \A u \in Threads : Holds(u)' =>
                      writer'.header.components[thread'[u].slot] = thread'[u].request.component
      <4>1. orphans = 0 => Names(Header, Len(written))
        BY <2>1, <3>3 DEF SlotsInv
      <4>2. orphans' = 0 => Names(file.header, Total(file.header))' /\ Names(Header, Len(written))'
        BY <2>1, <3>1, <3>2, <4>1 DEF Names, Header
      <4>3. \A u \in Threads : Holds(u)' =>
                      writer'.header.components[thread'[u].slot] = thread'[u].request.component
        BY <2>1, <2>2, <3>3 DEF SlotsInv, Holds, Header, Request
      <4> QED BY <4>2, <4>3
    <3> QED BY <3>3 DEF SlotsInv, Holds, Header, Request
  <2> QED BY <2>1, <2>3, <2>4
<1> QED
  BY <1>1, <1>2, <1>3, <1>4, <1>5, <1>6, <1>7, <1>8, <1>9, <1>10, <1>11, <1>12 DEF Next, Thread

-----------------------------------------------------------------------------
(* The reader.                                                             *)

Told(entry, e, header) ==
  /\ entry.severity = e.request.severity
  /\ entry.component = header.components[e.slot]
  /\ IsSplit(e.request.text, entry.textHeader, entry.text)

Reads ==
  /\ Total(reader.header) <= Len(written)
  /\ "race" \notin damage /\ orphans = 0 => Names(reader.header, Total(reader.header))
  /\ reader.pc # "exported" => reader.entries = <<>> /\ reader.lines = <<>>
  /\ Mapped /\ Sound => reader.index = [k \in 1 .. Total(reader.header) |-> Begin(written, k)]
  /\ reader.pc = "fault" /\ Sound => Total(reader.header) = 0
  /\ reader.pc = "exported" =>
       /\ DOMAIN reader.entries \subseteq DOMAIN reader.index
       /\ reader.lines = [k \in DOMAIN reader.entries |-> ConvertLogEntryToText(reader.entries[k])]
  /\ reader.pc = "exported" /\ Sound =>
       \A k \in DOMAIN reader.entries : Told(reader.entries[k], written[k], reader.header)

LEMMA ReaderInvIs ==
  /\ ReaderInv <=> (reader # NoReader /\ ~reader.disturbed => Reads)
  /\ ReaderInv' <=> (reader' # NoReader /\ ~reader'.disturbed => Reads')
BY DEF ReaderInv, Reads, Told, Sound, NoReader

LEMMA ReaderTotal ==
  ASSUME TypeInv, reader # NoReader
  PROVE  /\ Total(reader.header) \in Nat
         /\ reader = [pc |-> reader.pc, header |-> reader.header, disturbed |-> reader.disturbed,
                      index |-> reader.index, entries |-> reader.entries, lines |-> reader.lines]
BY TotalType DEF TypeInv, ReaderType, Headers

(* What is written behind, or goes wrong, is not the reader's business.    *)
LEMMA ReadsKeep ==
  ASSUME TypeInv, IsPlaced(written), ReaderInv, reader' = reader,
         written' = written \/ \E e \in Entry : written' = Append(written, e),
         damage \subseteq damage', orphans' = 0 => orphans = 0
  PROVE  ReaderInv'
<1> SUFFICES ASSUME reader # NoReader, ~reader.disturbed PROVE Reads'
  BY ReaderInvIs
<1>1. Reads /\ Total(reader.header) \in Nat
  BY ReaderInvIs, ReaderTotal
<1>2. /\ written \in Seq(Entry) /\ Len(written) \in Nat /\ DOMAIN written = 1 .. Len(written)
  BY DEF TypeInv, HistoryType
<1>3. /\ Len(written) <= Len(written')
      /\ \A k \in 1 .. Len(written) : /\ k \in DOMAIN written' /\ written'[k] = written[k]
                                      /\ Begin(written', k) = Begin(written, k)
  <2>1. CASE written' = written
    BY <1>2, <2>1
  <2>2. ASSUME NEW e \in Entry, written' = Append(written, e)
        PROVE  /\ Len(written) <= Len(written')
               /\ \A k \in 1 .. Len(written) : /\ k \in DOMAIN written' /\ written'[k] = written[k]
                                               /\ Begin(written', k) = Begin(written, k)
    <3>1. \A k \in 1 .. Len(written) : Begin(written', k) = Begin(written, k)
      BY <1>2, <2>2, PlacedAppend
    <3> DEFINE v == Append(written, e)
    <3>2. /\ Len(v) = Len(written) + 1 /\ DOMAIN v = 1 .. (Len(written) + 1)
          /\ \A k \in 1 .. Len(written) : v[k] = written[k]
      BY <1>2
    <3>3. written' = v
      BY <2>2
    <3> HIDE DEF v
    <3> QED BY <1>2, <3>1, <3>2, <3>3
  <2> QED BY <2>1, <2>2
<1>4. Sound' => Sound
  BY DEF Sound
<1>5. \A k \in 1 .. Total(reader.header) :
        /\ k \in DOMAIN written /\ k \in DOMAIN written' /\ written'[k] = written[k]
        /\ Begin(written', k) = Begin(written, k)
  BY <1>1, <1>2, <1>3 DEF Reads
<1>6. Total(reader'.header) <= Len(written')
  BY <1>1, <1>2, <1>3 DEF Reads, TypeInv, HistoryType
<1>7. "race" \notin damage' /\ orphans' = 0 => Names(reader.header, Total(reader.header))'
  BY <1>1, <1>5 DEF Reads, Names
<1>8. Mapped' <=> Mapped
  BY DEF Mapped
<1>9. Mapped' /\ Sound' => reader'.index = [k \in 1 .. Total(reader'.header) |-> Begin(written', k)]
  BY <1>1, <1>4, <1>5, <1>8 DEF Reads
<1>10. ASSUME reader'.pc = "exported", Sound'
       PROVE  \A k \in DOMAIN reader'.entries : Told(reader'.entries[k], written'[k], reader'.header)
  <2>1. DOMAIN reader.entries \subseteq 1 .. Total(reader.header)
    BY <1>1, <1>4, <1>10 DEF Reads, Mapped
  <2> QED BY <1>1, <1>4, <1>5, <1>10, <2>1 DEF Reads
<1>11. /\ reader'.pc # "exported" => reader'.entries = <<>> /\ reader'.lines = <<>>
       /\ reader'.pc = "exported" =>
            /\ DOMAIN reader'.entries \subseteq DOMAIN reader'.index
            /\ reader'.lines = [k \in DOMAIN reader'.entries |-> ConvertLogEntryToText(reader'.entries[k])]
  BY <1>1 DEF Reads
<1>12. reader'.pc = "fault" /\ Sound' => Total(reader'.header) = 0
  BY <1>1, <1>4 DEF Reads
<1> QED BY <1>6, <1>7, <1>9, <1>10, <1>11, <1>12 DEF Reads

LEMMA ReadsMapped ==
  ASSUME TypeInv, BodyInv, ReaderInv, MapAndIndex
  PROVE  ReaderInv'
<1>0. reader # NoReader /\ reader'.disturbed = reader.disturbed
  <2>1. reader # NoReader
    BY DEF MapAndIndex, NoReader
  <2> QED BY <2>1, ReaderTotal DEF MapAndIndex
<1> SUFFICES ASSUME ~reader.disturbed PROVE Reads'
  BY <1>0, ReaderInvIs
<1> DEFINE n == Total(reader.header)
<1>1. /\ reader # NoReader /\ reader.pc = "header" /\ n \in Nat /\ Reads
  BY ReaderInvIs, ReaderTotal DEF MapAndIndex, NoReader
<1>2. /\ reader'.pc = "open" /\ reader'.header = reader.header /\ reader'.entries = reader.entries
      /\ reader'.lines = reader.lines
      /\ reader'.index = BuildIndex(file.body, n) /\ UNCHANGED <<written, orphans, damage>>
  BY <1>1, ReaderTotal DEF MapAndIndex
<1>3. Sound => BuildIndex(file.body, n) = [k \in 1 .. n |-> Begin(written, k)]
  <2>1. IsPlaced(written) /\ (Sound => Starts(file.body, written))
    BY BodyInvIs DEF BodyIs
  <2>2. n \in 0 .. Len(written) /\ written \in Seq(Entry) /\ file.body \in Seq(Cell)
    BY <1>1 DEF Reads, TypeInv, HistoryType, FileType
  <2> QED BY <2>1, <2>2, IndexIsBegin
<1>4. /\ Total(reader'.header) <= Len(written')
      /\ "race" \notin damage' /\ orphans' = 0 => Names(reader.header, Total(reader.header))'
      /\ reader'.entries = <<>> /\ reader'.lines = <<>>
  BY <1>1, <1>2 DEF Reads, Names
<1>5. Sound' => reader'.index = [k \in 1 .. Total(reader'.header) |-> Begin(written', k)]
  BY <1>2, <1>3 DEF Sound
<1> QED BY <1>2, <1>4, <1>5 DEF Reads

LEMMA ReadsExported ==
  ASSUME TypeInv, BodyInv, ReaderInv, ExportLogToText
  PROVE  ReaderInv'
<1>0. reader # NoReader /\ reader'.disturbed = reader.disturbed
  <2>1. reader.pc = "open"
    BY DEF ExportLogToText
  <2>2. reader # NoReader
    BY <2>1 DEF NoReader
  <2>3. \/ reader' = [reader EXCEPT !.pc = "fault"]
        \/ \E e, f : reader' = [reader EXCEPT !.pc = "exported", !.entries = e, !.lines = f]
    BY DEF ExportLogToText
  <2> QED BY <2>2, <2>3, ReaderTotal
<1> SUFFICES ASSUME ~reader.disturbed PROVE Reads'
  BY <1>0, ReaderInvIs
<1> DEFINE n == Total(reader.header)
           b(k) == Begin(written, k)
<1>1. /\ reader # NoReader /\ reader.pc = "open" /\ n \in Nat /\ Reads /\ Mapped
  <2>1. reader.pc = "open"
    BY DEF ExportLogToText
  <2> QED BY <1>0, <2>1, ReaderInvIs, ReaderTotal DEF Mapped
<1>2. UNCHANGED <<file, written, orphans, damage>>
  BY DEF ExportLogToText
<1>3. ASSUME Sound, NEW k \in 1 .. n
      PROVE  /\ written[k].request \in Requests /\ written[k].slot \in Slots
             /\ file.body \in Seq(Cell) /\ k \in DOMAIN reader.index
             /\ IsAt(file.body, reader.index[k], EntryCells(written[k].request, written[k].slot))
  <2>1. IsPlaced(written) /\ Starts(file.body, written)
    BY <1>3, BodyInvIs DEF BodyIs
  <2>2. k \in 1 .. Len(written) /\ written \in Seq(Entry) /\ file.body \in Seq(Cell)
    BY <1>1, <1>3 DEF Reads, TypeInv, HistoryType, FileType
  <2>3. IsAt(file.body, Begin(written, k), CellsOf(written[k]))
    BY <2>1, <2>2, StartsAt
  <2>4. k \in DOMAIN reader.index /\ reader.index[k] = Begin(written, k)
    BY <1>1, <1>3 DEF Reads
  <2>5. k \in DOMAIN written
    BY <2>2
  <2> QED BY <2>2, <2>3, <2>4, <2>5, WrittenIs DEF CellsOf
<1>4. Sound => DOMAIN reader.index = 1 .. n
  BY <1>1 DEF Reads
<1>5. CASE n = 0 \/ \E k \in DOMAIN reader.index : ~IsReadable(file.body, reader.index[k])
  <2>1. reader' = [reader EXCEPT !.pc = "fault"]
    BY <1>5 DEF ExportLogToText
  <2>2. /\ reader'.pc = "fault" /\ reader'.header = reader.header /\ reader'.index = reader.index
        /\ reader'.entries = reader.entries /\ reader'.lines = reader.lines
    BY <1>1, <2>1, ReaderTotal
  <2>3. Sound => n = 0
    <3>1. Sound => \A k \in 1 .. n : IsReadable(file.body, reader.index[k])
      BY <1>3, EntryIsReadable
    <3> QED BY <1>4, <1>5, <3>1
  <2>4. /\ Total(reader'.header) <= Len(written')
        /\ "race" \notin damage' /\ orphans' = 0 => Names(reader.header, Total(reader.header))'
        /\ reader'.entries = <<>> /\ reader'.lines = <<>>
    BY <1>1, <1>2, <2>2 DEF Reads, Names
  <2>5. Sound' => /\ reader'.index = [k \in 1 .. Total(reader'.header) |-> Begin(written', k)]
                  /\ Total(reader'.header) = 0
    BY <1>1, <1>2, <2>2, <2>3 DEF Reads, Sound
  <2> QED BY <2>2, <2>4, <2>5 DEF Reads
<1>6. CASE ~(n = 0 \/ \E k \in DOMAIN reader.index : ~IsReadable(file.body, reader.index[k]))
  <2>0. PICK lost \in SUBSET DOMAIN reader.index :
          LET entries == [k \in DOMAIN reader.index \ lost |->
                            LogEntry(file.body, reader.header, reader.index[k])]
          IN reader' = [reader EXCEPT !.pc = "exported", !.entries = entries,
                          !.lines = [k \in DOMAIN entries |-> ConvertLogEntryToText(entries[k])]]
    BY <1>6 DEF ExportLogToText
  <2> DEFINE told == DOMAIN reader.index \ lost
             entries == [k \in told |-> LogEntry(file.body, reader.header, reader.index[k])]
             lines == [k \in DOMAIN entries |-> ConvertLogEntryToText(entries[k])]
  <2>1. reader' = [reader EXCEPT !.pc = "exported", !.entries = entries, !.lines = lines]
    BY <2>0
  <2>2. DOMAIN entries \subseteq DOMAIN reader.index
    OBVIOUS
  <2>3. ASSUME Sound, NEW k \in DOMAIN entries
        PROVE  Told(entries[k], written[k], reader.header)
    <3>1. entries[k] = LogEntry(file.body, reader.header, reader.index[k]) /\ k \in 1 .. n
      BY <1>4, <2>3
    <3> HIDE DEF entries
    <3> QED BY <1>3, <2>3, <3>1, EntryIsTold DEF Told
  <2>4. lines = [k \in DOMAIN entries |-> ConvertLogEntryToText(entries[k])]
    OBVIOUS
  <2> HIDE DEF entries, lines
  <2>5. /\ reader'.pc = "exported" /\ reader'.header = reader.header /\ reader'.index = reader.index
        /\ reader'.entries = entries /\ reader'.lines = lines
    BY <1>1, <2>1, ReaderTotal
  <2>6. /\ Total(reader'.header) <= Len(written')
        /\ "race" \notin damage' /\ orphans' = 0 => Names(reader.header, Total(reader.header))'
    BY <1>1, <1>2, <2>5 DEF Reads, Names
  <2>7. /\ DOMAIN reader'.entries \subseteq DOMAIN reader'.index
        /\ reader'.lines = [k \in DOMAIN reader'.entries |-> ConvertLogEntryToText(reader'.entries[k])]
    BY <2>2, <2>4, <2>5
  <2>8. Sound' => reader'.index = [k \in 1 .. Total(reader'.header) |-> Begin(written', k)]
    BY <1>1, <1>2, <2>5 DEF Reads, Sound
  <2>9. Sound' => \A k \in DOMAIN reader'.entries : Told(reader'.entries[k], written'[k], reader'.header)
    BY <1>2, <2>3, <2>5 DEF Sound
  <2> QED BY <2>5, <2>6, <2>7, <2>8, <2>9 DEF Reads
<1> QED BY <1>5, <1>6

LEMMA NextReaderInv ==
  ASSUME TypeInv, BodyInv, CountInv, SlotsInv, ReaderInv, [Next]_vars
  PROVE  ReaderInv'
<1>0. IsPlaced(written)
  BY BodyInvIs
<1>1. CASE CreateLogFile
  <2>1. \/ UNCHANGED <<written, orphans, damage, reader>>
        \/ reader' = IF reader = NoReader THEN reader ELSE [reader EXCEPT !.disturbed = TRUE]
    BY <1>1, CreateStep
  <2>2. CASE UNCHANGED <<written, orphans, damage, reader>>
    BY <1>0, <2>2, ReadsKeep
  <2>3. CASE reader' = IF reader = NoReader THEN reader ELSE [reader EXCEPT !.disturbed = TRUE]
    <3>1. reader' = NoReader \/ reader'.disturbed
      BY <2>3, ReaderTotal
    <3> QED BY <3>1 DEF ReaderInv, NoReader
  <2> QED BY <2>1, <2>2, <2>3
<1>2. CASE OpenLogFileReadOnly
  <2>1. /\ reader'.pc = "header" /\ reader'.header = file.header
        /\ reader'.entries = <<>> /\ reader'.lines = <<>>
        /\ UNCHANGED <<written, orphans, damage>>
    BY <1>2 DEF OpenLogFileReadOnly
  <2>2. Total(file.header) <= Len(written)
    BY LagType DEF TypeInv, HistoryType, Lag
  <2>3. "race" \notin damage /\ orphans = 0 => Names(file.header, Total(file.header))
    BY DEF SlotsInv
  <2>4. "race" \notin damage' /\ orphans' = 0 => Names(reader.header, Total(reader.header))'
    BY <2>1, <2>3 DEF Names
  <2>5. Reads'
    BY <2>1, <2>2, <2>4 DEF Reads, Mapped
  <2> QED BY <2>5, ReaderInvIs
<1>3. CASE MapAndIndex
  BY <1>3, ReadsMapped
<1>4. CASE ExportLogToText
  BY <1>4, ReadsExported
<1>5. CASE MapFails \/ CloseReader
  BY <1>5 DEF MapFails, CloseReader, ReaderInv
<1>6. CASE WriteFirstHeader \/ ReadLogFileHeader \/ OpenFails \/ UNCHANGED vars
  <2>1. UNCHANGED <<written, reader>> /\ damage \subseteq damage'
    BY <1>6 DEF WriteFirstHeader, ReadLogFileHeader, OpenFails, vars
  <2>2. orphans' = orphans \/ orphans' = Len(written)
    BY <1>6 DEF WriteFirstHeader, ReadLogFileHeader, OpenFails, vars
  <2>3. orphans' = 0 => orphans = 0
    BY <2>2, LagType DEF Lag, TypeInv, HistoryType
  <2> QED BY <1>0, <2>1, <2>3, ReadsKeep
<1>7. CASE CloseLogFile \/ Crash
  <2>1. UNCHANGED <<written, reader>> /\ orphans' = Lag /\ damage \subseteq damage'
    BY <1>7 DEF CloseLogFile, Crash, Leave, Lag
  <2>2. orphans' = 0 => orphans = 0
    BY <2>1, LagType DEF TypeInv, HistoryType
  <2> QED BY <1>0, <2>1, <2>2, ReadsKeep
<1>8. ASSUME NEW t \in Threads, Thread(t) PROVE ReaderInv'
  <2>1. reader' = reader /\ orphans' = orphans
    BY <1>8, ThreadStep
  <2>2. written' = written \/ \E e \in Entry : written' = Append(written, e)
    <3>1. CASE WriteEntry(t)
      BY <3>1, WriteStep
    <3>2. CASE ~WriteEntry(t)
      BY <1>8, <3>2 DEF Thread, LogEx, FindSourceComponentIndex, PickSlot, CopyName,
        AcquireFileLock, SeekEnd, RollBack, ReleaseFileLock, QueryLogInformation
    <3> QED BY <3>1, <3>2
  <2>3. damage \subseteq damage'
    BY <1>8 DEF Thread, LogEx, FindSourceComponentIndex, PickSlot, CopyName,
        AcquireFileLock, SeekEnd, WriteEntry, RollBack, ReleaseFileLock, QueryLogInformation
  <2> QED BY <1>0, <2>1, <2>2, <2>3, ReadsKeep
<1> QED
  BY <1>1, <1>2, <1>3, <1>4, <1>5, <1>6, <1>7, <1>8 DEF Next

-----------------------------------------------------------------------------
(* The invariant and what follows from it.                                 *)

LEMMA InitInv == Init => IInv
<1> SUFFICES ASSUME Init PROVE IInv
  OBVIOUS
<1>1. TypeInv
  BY InitType
<1>2. /\ written = <<>> /\ orphans = 0 /\ damage = {} /\ writer.pc = "none" /\ reader = NoReader
      /\ \A t \in Threads : thread[t] = Idle
      /\ file.body = <<>> /\ file.header = EmptyHeader
  BY DEF Init, NoWriter, File
<1>3. \A t \in Threads : ~HasLock(t) /\ ~Wrote(t) /\ ~At(t, "write") /\ ~At(t, "release") /\ ~Holds(t)
  BY <1>2, IdleThread DEF Holds, Idle
<1>4. LockInv
  BY <1>3 DEF LockInv
<1>5. BodyInv
  <2>1. Flat(written) = <<>> /\ IsPlaced(written)
    BY <1>2, FlatEmpty, EmptyIsPlaced
  <2>2. Starts(file.body, written)
    BY <1>2, <2>1 DEF Starts
  <2> QED BY <1>2, <1>3, <2>1, <2>2 DEF BodyInv
<1>6. CountInv
  <2>1. Lag = 0
    <3>1. Len(written) = 0
      BY <1>2
    <3>2. Total(file.header) = 0
      BY <1>2, EmptyHeaderType
    <3> QED BY <3>1, <3>2 DEF Lag
  <2>2. /\ Numbers(written).count = file.header.count /\ Numbers(written).count \in Counts
        /\ Total(Numbers(written)) = Len(written)
    BY <1>2, NumbersEmpty
  <2>3. Less(file.header, Numbers(written))
    BY <2>2 DEF Less, Counts
  <2> QED BY <1>1, <1>2, <2>1, <2>2, <2>3, BoundsType DEF CountInv
<1>7. SlotsInv
  <2>1. DOMAIN written = {}
    BY <1>2
  <2> QED BY <1>2, <1>3, <2>1 DEF SlotsInv, Names, Holds
<1>8. ReaderInv
  BY <1>2 DEF ReaderInv
<1> QED BY <1>1, <1>4, <1>5, <1>6, <1>7, <1>8 DEF IInv

LEMMA NextInv == IInv /\ [Next]_vars => IInv'
<1> SUFFICES ASSUME IInv, [Next]_vars PROVE IInv'
  OBVIOUS
<1>1. TypeInv /\ LockInv /\ BodyInv /\ CountInv /\ SlotsInv /\ ReaderInv
  BY DEF IInv
<1>2. TypeInv'
  BY <1>1, NextTypeInv
<1>3. LockInv'
  BY <1>1, NextLockInv
<1>4. BodyInv'
  BY <1>1, NextBodyInv
<1>5. CountInv'
  BY <1>1, <1>2, NextCountInv
<1>6. SlotsInv'
  BY <1>1, NextSlotsInv
<1>7. ReaderInv'
  BY <1>1, NextReaderInv
<1> QED BY <1>2, <1>3, <1>4, <1>5, <1>6, <1>7 DEF IInv

(* The variables keep their types, and the parts of the invariant hold, in *)
(* every state the program reaches.                                        *)
THEOREM AlwaysInv == Spec => []IInv
<1> QED BY InitInv, NextInv, PTL DEF Spec

LEMMA WrittenFollows == IInv => FileIsWhatWasWritten
<1> SUFFICES ASSUME IInv PROVE FileIsWhatWasWritten
  OBVIOUS
<1>1. TypeInv /\ LockInv /\ BodyInv /\ CountInv
  BY DEF IInv
<1>2. ASSUME Sound, \A t \in Threads : thread[t].pc # "failed"
      PROVE  file.body = Flat(written)
  <2>1. Starts(file.body, written) /\ Len(file.body) = Len(Flat(written))
    BY <1>1, <1>2, BodyInvIs DEF BodyIs, Wrote, At
  <2>2. file.body \in Seq(Cell) /\ Flat(written) \in Seq(Cell) /\ Len(Flat(written)) \in Nat
    BY <1>1, FlatIsType DEF TypeInv, FileType, HistoryType
  <2>3. \A i \in 1 .. Len(Flat(written)) : file.body[i] = Flat(written)[i]
    BY <2>1 DEF Starts
  <2> QED BY <2>1, <2>2, <2>3
<1>3. ASSUME writer.pc = "open", writer.lock = "free", "cut" \notin damage
      PROVE  /\ Total(Header) + orphans = Len(written)
             /\ "begun" \notin damage => orphans <= bounds.crashes + bounds.failed
             /\ orphans = 0 => \A s \in Severities : Header.count[s] = Number(s)
             /\ bounds.failed = 0 => file.header.count = Header.count
  <2>1. /\ Total(Header) + orphans = Len(written) /\ Less(Header, Numbers(written))
        /\ Numbers(written).count \in Counts /\ Total(Numbers(written)) = Len(written)
        /\ "begun" \notin damage => orphans <= bounds.crashes + bounds.failed
        /\ bounds.failed = 0 /\ ~Releasing => file.header.count = Header.count
    BY <1>1, <1>3 DEF CountInv
  <2>2. ~Releasing
    <3>1. \A t \in Threads : ~HasLock(t)
      BY <1>1, <1>3, VxlLegacyAssumption DEF LockInv
    <3> QED BY <3>1 DEF Releasing, HasLock, At
  <2>3. Header.count \in Counts /\ Total(Header) \in Nat
    BY <1>1, <1>3, LagType DEF TypeInv, WriterType, Writers, NoWriter, Header, Headers
  <2>4. ASSUME orphans = 0, NEW s \in Severities
        PROVE  Header.count[s] = Number(s)
    <3>1. Total(Header) = Total(Numbers(written))
      BY <2>1, <2>3, <2>4
    <3>2. Header.count = Numbers(written).count
      BY <2>1, <2>3, <3>1, TotalCompare DEF Less
    <3>3. Numbers(written).count[s] = NumberIn(written, s)
      BY DEF Numbers
    <3> QED BY <3>2, <3>3 DEF NumberIn, Number
  <2> QED BY <2>1, <2>2, <2>4
<1> QED BY <1>2, <1>3 DEF FileIsWhatWasWritten, Sound

(* The body of the file is what was written, in order and without gaps,    *)
(* and the headers count it, but for one entry for each crash or failure:  *)
(* however many threads call VxlLogEx and whatever fails or crashes.  The  *)
(* exceptions are those of FileIsWhatWasWritten: a file that was cut       *)
(* without need, left uncut, or was not known to be a log when it was      *)
(* opened, and the entries of a log whose header was begun anew.           *)
THEOREM FileIsAlwaysWhatWasWritten == Spec => []FileIsWhatWasWritten
<1> QED BY AlwaysInv, WrittenFollows, PTL

LEMMA ToldFollows == IInv => ReaderTellsWhatWasWritten
<1> SUFFICES ASSUME IInv, Mapped, ~reader.disturbed, Sound
    PROVE  /\ reader.pc = "fault" => Total(reader.header) = 0
           /\ Len(reader.index) <= Len(written)
           /\ DOMAIN reader.lines = DOMAIN reader.entries
           /\ \A k \in DOMAIN reader.entries :
                LET entry == reader.entries[k]
                    line == reader.lines[k]
                    r == written[k].request
                IN /\ {entry.severity, line.severity} = {r.severity}
                   /\ IsSplit(r.text, entry.textHeader, entry.text)
                   /\ IsSplit(r.text, entry.textHeader, line.text)
                   /\ orphans = 0 /\ "race" \notin damage =>
                        {entry.component, line.component} = {r.component}
  BY DEF ReaderTellsWhatWasWritten, Sound
<1> DEFINE n == Total(reader.header)
<1>1. TypeInv /\ ReaderInv /\ reader # NoReader
  BY DEF IInv, Mapped, NoReader
<1>2. Reads /\ n \in Nat /\ n <= Len(written)
  BY <1>1, ReaderInvIs, ReaderTotal DEF Reads
<1>3. reader.index = [k \in 1 .. n |-> Begin(written, k)]
  BY <1>2 DEF Reads
<1>4. Len(reader.index) = n /\ DOMAIN reader.index = 1 .. n
  <2> DEFINE b(k) == Begin(written, k)
  <2> HIDE DEF n, b
  <2>1. Len([k \in 1 .. n |-> b(k)]) = n
    BY <1>2
  <2> QED BY <1>3, <2>1 DEF b
<1>5. DOMAIN reader.lines = DOMAIN reader.entries
  BY <1>2 DEF Reads
<1>6. ASSUME NEW k \in DOMAIN reader.entries
      PROVE  /\ reader.pc = "exported" /\ k \in 1 .. n /\ k \in DOMAIN written
             /\ Told(reader.entries[k], written[k], reader.header)
             /\ reader.lines[k] = ConvertLogEntryToText(reader.entries[k])
  <2>1. reader.pc = "exported"
    BY <1>2, <1>6 DEF Reads
  <2>2. k \in 1 .. n
    BY <1>2, <1>4, <1>6, <2>1 DEF Reads
  <2>3. k \in DOMAIN written
    BY <1>1, <1>2, <2>2 DEF TypeInv, HistoryType
  <2>4. reader.lines[k] = ConvertLogEntryToText(reader.entries[k])
    BY <1>2, <1>6, <2>1 DEF Reads
  <2> QED BY <1>2, <1>6, <2>1, <2>2, <2>3, <2>4 DEF Reads
<1>7. ASSUME NEW k \in DOMAIN reader.entries, orphans = 0, "race" \notin damage
      PROVE  reader.entries[k].component = written[k].request.component
  BY <1>2, <1>6, <1>7 DEF Reads, Names, Told
<1>8. ASSUME NEW k \in DOMAIN reader.entries
      PROVE  /\ reader.lines[k].severity = reader.entries[k].severity
             /\ reader.lines[k].component = reader.entries[k].component
             /\ reader.lines[k].text = reader.entries[k].text
  <2> DEFINE entry == reader.entries[k]
  <2>1. reader.lines[k] = ConvertLogEntryToText(entry)
    BY <1>6, <1>8
  <2> HIDE DEF entry
  <2>2. /\ ConvertLogEntryToText(entry).severity = entry.severity
        /\ ConvertLogEntryToText(entry).component = entry.component
        /\ ConvertLogEntryToText(entry).text = entry.text
    BY DEF ConvertLogEntryToText
  <2> QED BY <2>1, <2>2 DEF entry
<1> QED BY <1>2, <1>4, <1>5, <1>6, <1>7, <1>8 DEF Reads, Told

(* The entries the reader reads are among the first that were written,     *)
(* each with its severity and with its text, kept whole or split at the    *)
(* first newline that has two characters before it and one behind it; an   *)
(* exported line has the part behind the first line, and no offset of the  *)
(* index leads elsewhere: for every text, and in whichever order the steps *)
(* of the reader and the writers come, in the files the property names.    *)
THEOREM ReaderAlwaysTellsWhatWasWritten == Spec => []ReaderTellsWhatWasWritten
<1> QED BY AlwaysInv, ToldFollows, PTL

-----------------------------------------------------------------------------
(* The flags.                                                              *)

LEMMA FlagsAre ==
  ASSUME NEW flags \in AllFlags
  PROVE  /\ {"read", "write"} \subseteq flags <=> "read" \in flags /\ "write" \in flags
         /\ {"append", "overwrite"} \subseteq flags <=> "append" \in flags /\ "overwrite" \in flags
         /\ {"create", "append"} \subseteq flags <=> "create" \in flags /\ "append" \in flags
         /\ {"create", "overwrite"} \subseteq flags <=> "create" \in flags /\ "overwrite" \in flags
         /\ flags \cap {"create", "append", "overwrite"} = {} <=>
              "create" \notin flags /\ "append" \notin flags /\ "overwrite" \notin flags
         /\ flags \cap {"create", "append", "overwrite"} = {"create"} <=>
              "create" \in flags /\ "append" \notin flags /\ "overwrite" \notin flags
         /\ flags \cap {"read", "append"} = {} <=> "read" \notin flags /\ "append" \notin flags
         /\ flags \ {"ignore"} = {"read"} <=>
              /\ "read" \in flags /\ "write" \notin flags
              /\ "create" \notin flags /\ "append" \notin flags /\ "overwrite" \notin flags
<1>1. flags \subseteq {"write", "read", "create", "append", "overwrite", "ignore"}
  BY DEF AllFlags
<1>2. /\ {"read", "write"} \subseteq flags <=> "read" \in flags /\ "write" \in flags
      /\ {"append", "overwrite"} \subseteq flags <=> "append" \in flags /\ "overwrite" \in flags
      /\ {"create", "append"} \subseteq flags <=> "create" \in flags /\ "append" \in flags
      /\ {"create", "overwrite"} \subseteq flags <=> "create" \in flags /\ "overwrite" \in flags
  OBVIOUS
<1>3. /\ flags \cap {"create", "append", "overwrite"} = {} <=>
           "create" \notin flags /\ "append" \notin flags /\ "overwrite" \notin flags
      /\ flags \cap {"create", "append", "overwrite"} = {"create"} <=>
           "create" \in flags /\ "append" \notin flags /\ "overwrite" \notin flags
      /\ flags \cap {"read", "append"} = {} <=> "read" \notin flags /\ "append" \notin flags
  OBVIOUS
<1>4. flags \ {"ignore"} = {"read"} <=>
              /\ "read" \in flags /\ "write" \notin flags
              /\ "create" \notin flags /\ "append" \notin flags /\ "overwrite" \notin flags
  <2> DEFINE rest == flags \ {"ignore"}
  <2>1. /\ rest \subseteq {"write", "read", "create", "append", "overwrite"}
        /\ \A x \in {"write", "read", "create", "append", "overwrite"} : x \in rest <=> x \in flags
    BY <1>1
  <2> HIDE DEF rest
  <2>2. rest = {"read"} <=> /\ "read" \in rest /\ "write" \notin rest /\ "create" \notin rest
                            /\ "append" \notin rest /\ "overwrite" \notin rest
    BY <2>1
  <2> QED BY <2>1, <2>2 DEF rest
<1> QED BY <1>2, <1>3, <1>4

LEMMA WhatIs ==
  ASSUME NEW flags \in AllFlags, "read" \notin flags
  PROVE  (\E what \in {{"create"}, {"append"}, {"overwrite"},
                       {"create", "append"}, {"create", "overwrite"}} :
            flags \ {"write", "ignore"} = what)
         <=> /\ ~("append" \in flags /\ "overwrite" \in flags)
             /\ "create" \in flags \/ "append" \in flags \/ "overwrite" \in flags
<1> DEFINE rest == flags \ {"write", "ignore"}
<1>1. rest \subseteq {"create", "append", "overwrite"}
  BY DEF AllFlags
<1>2. \A x \in {"create", "append", "overwrite"} : x \in rest <=> x \in flags
  OBVIOUS
<1> HIDE DEF rest
<1>3. /\ rest = {"create"} <=> "create" \in rest /\ "append" \notin rest /\ "overwrite" \notin rest
      /\ rest = {"append"} <=> "create" \notin rest /\ "append" \in rest /\ "overwrite" \notin rest
      /\ rest = {"overwrite"} <=> "create" \notin rest /\ "append" \notin rest /\ "overwrite" \in rest
      /\ rest = {"create", "append"} <=>
           "create" \in rest /\ "append" \in rest /\ "overwrite" \notin rest
      /\ rest = {"create", "overwrite"} <=>
           "create" \in rest /\ "append" \notin rest /\ "overwrite" \in rest
  BY <1>1
<1>4. (\E what \in {{"create"}, {"append"}, {"overwrite"},
                    {"create", "append"}, {"create", "overwrite"}} : rest = what)
      <=> \/ rest = {"create"} \/ rest = {"append"} \/ rest = {"overwrite"}
          \/ rest = {"create", "append"} \/ rest = {"create", "overwrite"}
  OBVIOUS
<1> QED BY <1>2, <1>3, <1>4 DEF rest

LEMMA FlagsFollow ==
  ASSUME NEW flags \in AllFlags
  PROVE  /\ ValidateFileOpenFlags(flags) <=>
              IF "write" \in flags
              THEN "read" \notin flags /\ \E what \in {{"create"}, {"append"}, {"overwrite"},
                     {"create", "append"}, {"create", "overwrite"}} : flags \ {"write", "ignore"} = what
              ELSE flags \ {"ignore"} = {"read"}
         /\ ValidateFileOpenFlags(flags) => \A exists, mapped \in BOOLEAN :
              LET how == TranslateFileOpenFlags(flags)
                  old == [File(exists, "log") EXCEPT !.body = IF exists THEN <<NUL>> ELSE <<>>]
              IN /\ Refuses(how, exists, mapped) <=>
                      IF exists THEN /\ flags \cap {"read", "append"} = {}
                                     /\ "overwrite" \in flags => mapped
                      ELSE "create" \notin flags
                 /\ ~Refuses(how, exists, mapped) =>
                      (CreateFile(old, how) = old <=> exists /\ "overwrite" \notin flags)
<1> DEFINE r == "read" \in flags
           w == "write" \in flags
           c == "create" \in flags
           a == "append" \in flags
           o == "overwrite" \in flags
           how == TranslateFileOpenFlags(flags)
<1>1. ValidateFileOpenFlags(flags) <=>
        (r /\ ~w /\ ~c /\ ~a /\ ~o) \/ (w /\ ~r /\ ~(a /\ o) /\ (c \/ a \/ o))
  BY FlagsAre DEF ValidateFileOpenFlags
<1>2. ASSUME ValidateFileOpenFlags(flags)
      PROVE  /\ r \/ (~c /\ a) => how = "OPEN_EXISTING"
             /\ ~r /\ c /\ a => how = "OPEN_ALWAYS"
             /\ ~r /\ ~a /\ c /\ o => how = "CREATE_ALWAYS"
             /\ ~r /\ c /\ ~a /\ ~o => how = "CREATE_NEW"
             /\ ~r /\ ~c /\ ~a => how = "TRUNCATE_EXISTING"
  BY <1>1, <1>2, FlagsAre DEF TranslateFileOpenFlags
<1>3. ASSUME ValidateFileOpenFlags(flags), NEW exists \in BOOLEAN, NEW mapped \in BOOLEAN
      PROVE  Refuses(how, exists, mapped) <=>
               IF exists THEN ~r /\ ~a /\ (o => mapped) ELSE ~c
  BY <1>1, <1>2, <1>3 DEF Refuses
<1>4. ASSUME NEW exists \in BOOLEAN
      PROVE  LET old == [File(exists, "log") EXCEPT !.body = IF exists THEN <<NUL>> ELSE <<>>]
             IN  CreateFile(old, how) = old <=> exists /\ how \in {"OPEN_EXISTING", "OPEN_ALWAYS"}
  BY DEF CreateFile, File
<1>5. ASSUME ValidateFileOpenFlags(flags), NEW exists \in BOOLEAN, NEW mapped \in BOOLEAN,
             ~Refuses(how, exists, mapped)
      PROVE  exists /\ how \in {"OPEN_EXISTING", "OPEN_ALWAYS"} <=> exists /\ ~o
  BY <1>1, <1>2, <1>3, <1>5
<1>6. ValidateFileOpenFlags(flags) <=>
        IF w
        THEN ~r /\ \E what \in {{"create"}, {"append"}, {"overwrite"},
                    {"create", "append"}, {"create", "overwrite"}} : flags \ {"write", "ignore"} = what
        ELSE flags \ {"ignore"} = {"read"}
  BY <1>1, FlagsAre, WhatIs
<1> HIDE DEF how
<1>7. ASSUME ValidateFileOpenFlags(flags), NEW exists \in BOOLEAN, NEW mapped \in BOOLEAN
      PROVE  LET old == [File(exists, "log") EXCEPT !.body = IF exists THEN <<NUL>> ELSE <<>>]
             IN /\ Refuses(how, exists, mapped) <=>
                     IF exists THEN flags \cap {"read", "append"} = {} /\ (o => mapped) ELSE ~c
                /\ ~Refuses(how, exists, mapped) => (CreateFile(old, how) = old <=> exists /\ ~o)
  BY <1>3, <1>4, <1>5, <1>7, FlagsAre
<1> QED BY <1>6, <1>7 DEF how

(* For every set of flags, VxlOpenLogFileEx accepts it if it is a purpose  *)
(* with a possible way to treat the file, and then does what it says.      *)
THEOREM FlagsAreAlwaysObeyed == Spec => []OpensAsAsked
<1>1. OpensAsAsked
  BY FlagsFollow DEF OpensAsAsked
<1> QED BY <1>1, PTL
=============================================================================
