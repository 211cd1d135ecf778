-------------------------- MODULE RewritingProofs --------------------------
(***************************************************************************)
(* Proofs about Rewriting: the mapper has what the registry says, and the  *)
(* imports of every image become what the registry says of them.           *)
(*                                                                         *)
(* The key is compared with what was read of it so far: as long as nothing *)
(* changed or failed, the mapper has the strings among the first values.   *)
(***************************************************************************)
EXTENDS Rewriting, SequenceTheorems, WellFoundedInduction, FiniteSetTheorems, TLAPS

-----------------------------------------------------------------------------
(* What the lookup of the string mapper finds, for mappers of every length *)
(* and every hash function.  The walk along a chain is a recursive         *)
(* function; what is shown of it rests on the fact that every set of       *)
(* numbers has a least element.                                            *)

LEMMA LeastNumber ==
  ASSUME NEW T, T \subseteq Nat, T # {}
  PROVE  \E x \in T : \A y \in T : x <= y
<1> DEFINE R == OpToRel(<, Nat)
<1>1. R = {ss \in Nat \X Nat : ss[1] < ss[2]}
  BY DEF OpToRel
<1>2. IsWellFoundedOn(R, Nat)
  BY NatLessThanWellFounded, Zenon
<1>3. PICK x \in T : \A y \in T : ~(<<y, x>> \in R)
  BY <1>2, WFMin
<1>4. \A y \in T : <<y, x>> \in Nat \X Nat
  OBVIOUS
<1>5. \A y \in T : ~(y < x)
  BY <1>1, <1>3, <1>4
<1> QED BY <1>5

(* A mapper whose entries have the signatures of their keys.               *)
IsMapper(m, S) ==
  /\ m.entries \in Seq(S)
  /\ \A e \in S : e.sig = Signature(m, e.key)

(* The next entry with a signature, or none if there is none.              *)
LEMMA NextIsNext ==
  ASSUME NEW m, NEW S, m.entries \in Seq(S), NEW sig, NEW i \in Nat
  PROVE  LET n == NextWith(m, sig, i)
         IN \/ /\ n = None
               /\ \A j \in (i + 1) .. Len(m.entries) : m.entries[j].sig # sig
            \/ /\ n \in (i + 1) .. Len(m.entries) /\ n # None
               /\ m.entries[n].sig = sig
               /\ \A j \in (i + 1) .. (n - 1) : m.entries[j].sig # sig
<1> DEFINE next == {j \in (i + 1) .. Len(m.entries) : m.entries[j].sig = sig}
<1>1. CASE next = {}
  BY <1>1 DEF NextWith
<1>2. CASE next # {}
  <2>1. PICK x \in next : \A k \in next : x <= k
    <3>1. next \subseteq Nat
      OBVIOUS
    <3> QED BY <1>2, <3>1, LeastNumber
  <2>2. NextWith(m, sig, i) = CHOOSE j \in next : \A k \in next : j <= k
    BY <1>2 DEF NextWith
  <2>3. /\ NextWith(m, sig, i) \in next
        /\ \A k \in next : NextWith(m, sig, i) <= k
    BY <2>1, <2>2
  <2> HIDE DEF next
  <2> DEFINE n == NextWith(m, sig, i)
  <2>4. n \in (i + 1) .. Len(m.entries) /\ m.entries[n].sig = sig
    BY <2>3 DEF next
  <2>5. n \in Int /\ n # None
    BY <2>4 DEF None
  <2>6. \A j \in (i + 1) .. (n - 1) : m.entries[j].sig # sig
    <3> SUFFICES ASSUME NEW j \in (i + 1) .. (n - 1), m.entries[j].sig = sig
                 PROVE  FALSE
      OBVIOUS
    <3>1. j \in next
      BY <2>4 DEF next
    <3> QED BY <2>3, <2>5, <3>1
  <2> QED BY <2>4, <2>5, <2>6
<1> QED BY <1>1, <1>2

-----------------------------------------------------------------------------
(* The walk of KexRtlpLookupRawEntryStringMapper.                          *)

Matches(m, key, j) == Form(m, m.entries[j].key) = Form(m, key)
IsWalk(w, m, key) ==
  w = [i \in 0 .. Len(m.entries) |->
         IF i = None \/ Matches(m, key, i) THEN i
         ELSE w[NextWith(m, Signature(m, key), i)]]

(* The entries that the walk may end at, and the first behind entry i.     *)
Ends(m, key, i) ==
  {j \in (i + 1) .. Len(m.entries) :
     m.entries[j].sig = Signature(m, key) /\ Matches(m, key, j)}
FirstEnd(m, key, i) ==
  IF Ends(m, key, i) = {} THEN None
  ELSE CHOOSE j \in Ends(m, key, i) : \A k \in Ends(m, key, i) : j <= k

LEMMA FirstEndIsFirst ==
  ASSUME NEW m, NEW S, m.entries \in Seq(S), NEW key, NEW i \in Nat, Ends(m, key, i) # {}
  PROVE  /\ FirstEnd(m, key, i) \in Ends(m, key, i)
         /\ \A k \in Ends(m, key, i) : FirstEnd(m, key, i) <= k
<1>1. Ends(m, key, i) \subseteq Nat
  BY DEF Ends
<1>2. PICK n \in Ends(m, key, i) : \A k \in Ends(m, key, i) : n <= k
  BY <1>1, LeastNumber
<1> QED BY <1>2 DEF FirstEnd

LEMMA WalkExists ==
  ASSUME NEW m, NEW S, m.entries \in Seq(S), NEW key
  PROVE  \E w : IsWalk(w, m, key)
<1> DEFINE sig == Signature(m, key)
           I == 0 .. Len(m.entries)
           w == [i \in I |-> IF i = None \/ Matches(m, key, i) THEN i
                             ELSE FirstEnd(m, key, i)]
<1>1. ASSUME NEW i \in I, i # None, ~Matches(m, key, i)
      PROVE  w[i] = w[NextWith(m, sig, i)]
  <2> DEFINE n == NextWith(m, sig, i)
  <2>0. i \in Nat
    OBVIOUS
  <2>1. w[i] = FirstEnd(m, key, i)
    BY <1>1
  <2>2. CASE n = None /\ \A j \in (i + 1) .. Len(m.entries) : m.entries[j].sig # sig
    <3>1. Ends(m, key, i) = {}
      BY <2>2 DEF Ends
    <3>2. w[n] = None
      BY <2>2 DEF None
    <3> QED BY <2>1, <3>1, <3>2 DEF FirstEnd
  <2>3. CASE /\ n \in (i + 1) .. Len(m.entries) /\ n # None
             /\ m.entries[n].sig = sig
             /\ \A j \in (i + 1) .. (n - 1) : m.entries[j].sig # sig
    <3> HIDE DEF n
    <3>1. n \in I /\ n \in Nat
      BY <2>3
    <3>2. CASE Matches(m, key, n)
      <4>1. n \in Ends(m, key, i)
        BY <2>3, <3>2 DEF Ends
      <4>2. \A k \in Ends(m, key, i) : n <= k
        BY <2>3 DEF Ends
      <4>3. FirstEnd(m, key, i) = n
        <5>1. /\ FirstEnd(m, key, i) \in Ends(m, key, i)
              /\ FirstEnd(m, key, i) <= n
          BY <4>1, FirstEndIsFirst
        <5>2. FirstEnd(m, key, i) \in Nat
          BY <5>1 DEF Ends
        <5> QED BY <4>2, <5>1, <5>2, <3>1
      <4>4. w[n] = n
        BY <3>1, <3>2
      <4> QED BY <2>1, <4>3, <4>4 DEF n
    <3>3. CASE ~Matches(m, key, n)
      <4>1. Ends(m, key, i) = Ends(m, key, n)
        BY <2>3, <3>1, <3>3, <2>0 DEF Ends
      <4>2. w[n] = FirstEnd(m, key, n)
        BY <3>1, <3>3, <2>3
      <4> QED BY <2>1, <4>1, <4>2 DEF FirstEnd, n
    <3> QED BY <3>2, <3>3
  <2> QED BY <2>0, <2>2, <2>3, NextIsNext
<1>2. w = [i \in I |-> IF i = None \/ Matches(m, key, i) THEN i
                        ELSE w[NextWith(m, sig, i)]]
  BY <1>1
<1>3. IsWalk(w, m, key)
  BY <1>2 DEF IsWalk
<1> QED BY <1>3

(* Every walk from an entry ends at the first matching entry behind it.    *)
LEMMA WalkEnds ==
  ASSUME NEW m, NEW S, m.entries \in Seq(S), NEW key, NEW w, IsWalk(w, m, key),
         NEW i \in 1 .. Len(m.entries)
  PROVE  w[i] = IF Matches(m, key, i) THEN i ELSE FirstEnd(m, key, i)
<1> DEFINE L == Len(m.entries)
           sig == Signature(m, key)
           Bad == {d \in 0 .. L : \E j \in 1 .. L :
                     d = L - j /\ w[j] # IF Matches(m, key, j) THEN j ELSE FirstEnd(m, key, j)}
<1>0. L \in Nat
  OBVIOUS
<1>1. SUFFICES ASSUME Bad # {} PROVE FALSE
  <2>1. L - i \in 0 .. L
    OBVIOUS
  <2> QED BY <2>1, <1>0
<1>2. PICK d \in Bad : \A e \in Bad : d <= e
  <2>1. Bad \subseteq Nat
    OBVIOUS
  <2> QED BY <1>1, <2>1, LeastNumber
<1>3. PICK j \in 1 .. L :
        d = L - j /\ w[j] # IF Matches(m, key, j) THEN j ELSE FirstEnd(m, key, j)
  OBVIOUS
<1> DEFINE n == NextWith(m, sig, j)
<1>4. j \in Nat /\ j \in 0 .. L /\ j # None
  BY DEF None
<1>5. ~Matches(m, key, j) /\ w[j] = w[n]
  BY <1>3, <1>4 DEF IsWalk
<1>6. w[j] # FirstEnd(m, key, j)
  BY <1>3, <1>5
<1> HIDE DEF Bad
<1>7. CASE n = None /\ \A k \in (j + 1) .. L : m.entries[k].sig # sig
  <2>1. Ends(m, key, j) = {}
    BY <1>7 DEF Ends
  <2>2. w[n] = None
    BY <1>7, <1>0 DEF IsWalk, None
  <2> QED BY <1>5, <1>6, <2>1, <2>2 DEF FirstEnd
<1>8. CASE /\ n \in (j + 1) .. L /\ n # None
           /\ m.entries[n].sig = sig
           /\ \A k \in (j + 1) .. (n - 1) : m.entries[k].sig # sig
  <2> HIDE DEF n
  <2>1. n \in 1 .. L /\ L - n \in 0 .. L /\ L - n < d
    BY <1>8, <1>3, <1>4, <1>0
  <2>2. w[n] = IF Matches(m, key, n) THEN n ELSE FirstEnd(m, key, n)
    <3> DEFINE e == L - n
    <3>1. e < d /\ e \in Int /\ d \in Int
      BY <2>1, <1>0, <1>3, <1>4
    <3> HIDE DEF e
    <3>2. e \notin Bad
      BY <1>2, <3>1
    <3> QED BY <2>1, <3>2 DEF Bad, e
  <2>3. CASE Matches(m, key, n)
    <3>1. n \in Ends(m, key, j)
      BY <1>8, <2>3 DEF Ends
    <3>2. \A k \in Ends(m, key, j) : n <= k
      BY <1>8, <1>4 DEF Ends
    <3>3. /\ FirstEnd(m, key, j) \in Ends(m, key, j)
          /\ FirstEnd(m, key, j) <= n
      BY <3>1, <1>4, FirstEndIsFirst
    <3>4. FirstEnd(m, key, j) \in Nat
      BY <3>3, <1>4 DEF Ends
    <3>5. FirstEnd(m, key, j) = n
      BY <3>2, <3>3, <3>4, <2>1
    <3> QED BY <1>5, <1>6, <2>2, <2>3, <3>5
  <2>4. CASE ~Matches(m, key, n)
    <3>1. Ends(m, key, j) = Ends(m, key, n)
      BY <1>8, <2>1, <2>4, <1>4, <1>0 DEF Ends
    <3> QED BY <1>5, <1>6, <2>2, <2>4, <3>1 DEF FirstEnd
  <2> QED BY <2>3, <2>4
<1> QED BY <1>4, <1>7, <1>8, NextIsNext

(* A lookup finds the newest entry that has the key, or none if no entry   *)
(* has it.                                                                 *)
THEOREM LookupFindsKey ==
  ASSUME NEW m, NEW S, IsMapper(m, S), NEW key
  PROVE  LET i == LookupRawEntry(m, key)
         IN \/ /\ i = None
               /\ \A j \in 1 .. Len(m.entries) : ~Matches(m, key, j)
            \/ /\ i \in 1 .. Len(m.entries) /\ i # None
               /\ Matches(m, key, i)
               /\ \A j \in 1 .. (i - 1) : ~Matches(m, key, j)
<1> DEFINE L == Len(m.entries)
           sig == Signature(m, key)
           n == NextWith(m, sig, 0)
           w == CHOOSE f : f = [i \in 0 .. L |->
                  IF i = None \/ Form(m, m.entries[i].key) = Form(m, key) THEN i
                  ELSE f[NextWith(m, sig, i)]]
<1>1. LookupRawEntry(m, key) = w[n]
  BY DEF LookupRawEntry
<1>2. m.entries \in Seq(S) /\ L \in Nat
  BY DEF IsMapper
<1>3. IsWalk(w, m, key)
  <2>1. \E f : f = [i \in 0 .. L |->
                  IF i = None \/ Form(m, m.entries[i].key) = Form(m, key) THEN i
                  ELSE f[NextWith(m, sig, i)]]
    <3>1. PICK f : IsWalk(f, m, key)
      BY <1>2, WalkExists
    <3>2. f = [i \in 0 .. L |->
                 IF i = None \/ Form(m, m.entries[i].key) = Form(m, key) THEN i
                 ELSE f[NextWith(m, sig, i)]]
      BY <3>1 DEF IsWalk, Matches
    <3> QED BY <3>2
  <2>2. w = [i \in 0 .. L |->
                  IF i = None \/ Form(m, m.entries[i].key) = Form(m, key) THEN i
                  ELSE w[NextWith(m, sig, i)]]
    BY <2>1
  <2> HIDE DEF w
  <2> QED BY <2>2 DEF IsWalk, Matches
<1> HIDE DEF w
<1>4. ASSUME NEW j \in 1 .. L, Matches(m, key, j)
      PROVE  m.entries[j].sig = sig
  BY <1>2, <1>4 DEF IsMapper, Matches, Signature
<1>5. CASE n = None /\ \A k \in (0 + 1) .. L : m.entries[k].sig # sig
  <2>1. w[n] = None
    BY <1>5, <1>3, <1>2 DEF IsWalk, None
  <2> QED BY <1>1, <1>4, <1>5, <2>1
<1>6. CASE /\ n \in (0 + 1) .. L /\ n # None
           /\ m.entries[n].sig = sig
           /\ \A k \in (0 + 1) .. (n - 1) : m.entries[k].sig # sig
  <2> HIDE DEF n
  <2>1. n \in 1 .. L
    BY <1>6, <1>2
  <2>2. w[n] = IF Matches(m, key, n) THEN n ELSE FirstEnd(m, key, n)
    BY <1>2, <1>3, <2>1, WalkEnds
  <2>3. \A k \in 1 .. (n - 1) : ~Matches(m, key, k)
    BY <1>4, <1>6, <2>1, <1>2
  <2>4. CASE Matches(m, key, n)
    BY <1>1, <1>6, <2>1, <2>2, <2>3, <2>4 DEF n
  <2>5. CASE ~Matches(m, key, n) /\ Ends(m, key, n) = {}
    <3>1. \A k \in 1 .. L : ~Matches(m, key, k)
      <4> SUFFICES ASSUME NEW k \in 1 .. L, Matches(m, key, k) PROVE FALSE
        OBVIOUS
      <4>1. k \in (n + 1) .. L
        BY <2>1, <2>3, <2>5, <1>2
      <4> QED BY <4>1, <1>4, <2>5 DEF Ends
    <3> QED BY <1>1, <2>2, <2>5, <3>1 DEF FirstEnd, n
  <2>6. CASE ~Matches(m, key, n) /\ Ends(m, key, n) # {}
    <3> DEFINE i == FirstEnd(m, key, n)
    <3>1. i \in Ends(m, key, n) /\ \A k \in Ends(m, key, n) : i <= k
      BY <1>2, <2>1, <2>6, FirstEndIsFirst
    <3> HIDE DEF i
    <3>2. i \in (n + 1) .. L /\ Matches(m, key, i)
      BY <3>1 DEF Ends
    <3>3. \A k \in 1 .. (i - 1) : ~Matches(m, key, k)
      <4> SUFFICES ASSUME NEW k \in 1 .. (i - 1), Matches(m, key, k) PROVE FALSE
        OBVIOUS
      <4>1. k \in (n + 1) .. L /\ k < i
        BY <2>1, <2>3, <2>6, <1>2, <3>2
      <4> QED BY <4>1, <1>4, <3>1, <3>2, <2>1, <1>2 DEF Ends
    <3>4. i \in 1 .. L /\ i # None
      BY <3>2, <2>1, <1>2 DEF None
    <3> QED BY <1>1, <2>2, <2>6, <3>2, <3>3, <3>4 DEF i, n
  <2> QED BY <2>4, <2>5, <2>6
<1> QED BY <1>2, <1>5, <1>6, NextIsNext

-----------------------------------------------------------------------------
(* The mapper as a map: what it answers after insertions and removals.     *)

MapperStates(S) == {m \in [insensitive : BOOLEAN, entries : Seq(S)] : IsMapper(m, S)}

(* A lookup depends only on the first entry that has the key.              *)
LEMMA LookupOfFirst ==
  ASSUME NEW m, NEW S, IsMapper(m, S), NEW key,
         NEW i \in 1 .. Len(m.entries), Matches(m, key, i),
         \A j \in 1 .. (i - 1) : ~Matches(m, key, j)
  PROVE  LookupRawEntry(m, key) = i /\ LookupEntry(m, key) = m.entries[i].value
<1> DEFINE r == LookupRawEntry(m, key)
<1>1. Len(m.entries) \in Nat /\ i \in Nat /\ i # None
  BY DEF IsMapper, None
<1>2. /\ r \in 1 .. Len(m.entries) /\ r # None
      /\ Matches(m, key, r) /\ \A j \in 1 .. (r - 1) : ~Matches(m, key, j)
  BY LookupFindsKey
<1> HIDE DEF r
<1>3. ~(r < i) /\ ~(i < r)
  BY <1>1, <1>2
<1>4. r = i
  BY <1>1, <1>2, <1>3
<1> QED BY <1>2, <1>4 DEF LookupEntry, r

LEMMA LookupOfNone ==
  ASSUME NEW m, NEW S, IsMapper(m, S), NEW key,
         \A j \in 1 .. Len(m.entries) : ~Matches(m, key, j)
  PROVE  LookupRawEntry(m, key) = None /\ LookupEntry(m, key) = NotFound
BY LookupFindsKey DEF LookupEntry

EntryOf(m, key, value) == [sig |-> Signature(m, key), key |-> key, value |-> value]

LEMMA InsertedIs ==
  ASSUME NEW S, NEW m \in MapperStates(S), NEW key, NEW value
  PROVE  InsertEntry(m, key, value) =
           [insensitive |-> m.insensitive, entries |-> <<EntryOf(m, key, value)>> \o m.entries]
<1> DEFINE e == EntryOf(m, key, value)
<1>1. m \in [insensitive : BOOLEAN, entries : Seq(S)]
  BY DEF MapperStates
<1>2. InsertEntry(m, key, value) = [m EXCEPT !.entries = <<e>> \o m.entries]
  BY <1>1 DEF InsertEntry, EntryOf
<1> HIDE DEF e
<1>3. InsertEntry(m, key, value) = [insensitive |-> m.insensitive, entries |-> <<e>> \o m.entries]
  BY <1>1, <1>2
<1> QED BY <1>3 DEF e

LEMMA InsertIsMapper ==
  ASSUME NEW S, NEW m \in MapperStates(S), NEW key, NEW value
  PROVE  InsertEntry(m, key, value) \in MapperStates(S \cup {EntryOf(m, key, value)})
<1> DEFINE e == EntryOf(m, key, value)
           T == S \cup {e}
           n == InsertEntry(m, key, value)
<1>1. m \in [insensitive : BOOLEAN, entries : Seq(S)] /\ \A x \in S : x.sig = Signature(m, x.key)
  BY DEF MapperStates, IsMapper
<1>2. n = [insensitive |-> m.insensitive, entries |-> <<e>> \o m.entries]
  BY InsertedIs
<1>3. e.sig = Signature(m, e.key)
  BY DEF EntryOf
<1> HIDE DEF e, n
<1>5. m.entries \in Seq(T) /\ <<e>> \in Seq(T)
  BY <1>1
<1>6. <<e>> \o m.entries \in Seq(T)
  BY <1>5, ConcatProperties
<1>7. n.entries = <<e>> \o m.entries /\ n.insensitive = m.insensitive
  BY <1>2
<1>8. \A k : Signature(n, k) = Signature(m, k)
  BY <1>7 DEF Signature, Form
<1>9. \A x \in T : x.sig = Signature(n, x.key)
  BY <1>1, <1>3, <1>8
<1>10. n \in [insensitive : BOOLEAN, entries : Seq(T)]
  BY <1>1, <1>2, <1>6
<1>11. n \in MapperStates(T)
  BY <1>6, <1>7, <1>9, <1>10 DEF MapperStates, IsMapper
<1> QED BY <1>11 DEF e, n

(* A key that was inserted last has its value, whichever entries of equal  *)
(* or colliding keys there are; other keys keep theirs.                    *)
THEOREM InsertedKeyIsFound ==
  ASSUME NEW S, NEW m \in MapperStates(S), NEW key, NEW value, NEW other
  PROVE  LookupEntry(InsertEntry(m, key, value), other) =
           IF Form(m, other) = Form(m, key) THEN value ELSE LookupEntry(m, other)
<1> DEFINE e == EntryOf(m, key, value)
           T == S \cup {e}
           n == InsertEntry(m, key, value)
<1>1. /\ n \in MapperStates(T) /\ n.entries = <<e>> \o m.entries
      /\ n.insensitive = m.insensitive
  <2>1. n \in MapperStates(T)
    BY InsertIsMapper
  <2>2. n = [insensitive |-> m.insensitive, entries |-> <<e>> \o m.entries]
    BY InsertedIs
  <2> HIDE DEF e, n, T
  <2> QED BY <2>1, <2>2
<1>2. IsMapper(n, T) /\ IsMapper(m, S) /\ m.entries \in Seq(S)
  BY <1>1 DEF MapperStates, IsMapper
<1>3. e.key = key /\ e.value = value
  BY DEF EntryOf
<1> HIDE DEF e, n
<1>4. \A k : Form(n, k) = Form(m, k)
  BY <1>1 DEF Form
<1>5. /\ Len(n.entries) = 1 + Len(m.entries) /\ Len(m.entries) \in Nat
      /\ n.entries[1] = e
      /\ \A j \in 1 .. Len(m.entries) : n.entries[j + 1] = m.entries[j]
  BY <1>1, <1>2
<1>6. Matches(n, other, 1) <=> Form(m, key) = Form(m, other)
  BY <1>3, <1>4, <1>5 DEF Matches
<1>7. \A j \in 1 .. Len(m.entries) : Matches(n, other, j + 1) <=> Matches(m, other, j)
  BY <1>4, <1>5 DEF Matches
<1>8. CASE Form(m, other) = Form(m, key)
  BY <1>2, <1>3, <1>5, <1>6, <1>8, LookupOfFirst DEF n
<1>9. CASE Form(m, other) # Form(m, key)
  <2>0. ~Matches(n, other, 1)
    BY <1>6, <1>9
  <2>1. CASE \A j \in 1 .. Len(m.entries) : ~Matches(m, other, j)
    <3>1. ASSUME NEW j \in 1 .. Len(n.entries) PROVE ~Matches(n, other, j)
      <4>1. CASE j = 1
        BY <2>0, <4>1
      <4>2. CASE j # 1
        <5>1. j - 1 \in 1 .. Len(m.entries) /\ (j - 1) + 1 = j
          BY <1>5, <4>2
        <5> QED BY <1>7, <2>1, <5>1
      <4> QED BY <4>1, <4>2
    <3>2. LookupEntry(n, other) = NotFound
      BY <1>2, <3>1, LookupOfNone
    <3>3. LookupEntry(m, other) = NotFound
      BY <1>2, <2>1, LookupOfNone
    <3> QED BY <1>9, <3>2, <3>3 DEF n
  <2>2. CASE \E j \in 1 .. Len(m.entries) : Matches(m, other, j)
    <3>1. PICK i \in 1 .. Len(m.entries) :
            Matches(m, other, i) /\ \A j \in 1 .. (i - 1) : ~Matches(m, other, j)
      BY <1>2, <2>2, LookupFindsKey
    <3>2. i + 1 \in 1 .. Len(n.entries) /\ Matches(n, other, i + 1)
      BY <1>5, <1>7, <3>1
    <3>3. ASSUME NEW j \in 1 .. ((i + 1) - 1) PROVE ~Matches(n, other, j)
      <4>1. CASE j = 1
        BY <2>0, <4>1
      <4>2. CASE j # 1
        <5>1. j - 1 \in 1 .. (i - 1) /\ j - 1 \in 1 .. Len(m.entries) /\ (j - 1) + 1 = j
          BY <1>5, <4>2
        <5> QED BY <1>7, <3>1, <5>1
      <4> QED BY <4>1, <4>2
    <3>4. LookupEntry(n, other) = n.entries[i + 1].value
      BY <1>2, <3>2, <3>3, LookupOfFirst
    <3>5. LookupEntry(m, other) = m.entries[i].value
      BY <1>2, <3>1, LookupOfFirst
    <3> QED BY <1>5, <1>9, <3>4, <3>5 DEF n
  <2> QED BY <2>1, <2>2
<1> QED BY <1>8, <1>9

(* A removal takes away one entry of the key, the newest, and what other   *)
(* keys have stays, also if they collide with it.                          *)
THEOREM RemovalKeepsOthers ==
  ASSUME NEW S, NEW m \in MapperStates(S), NEW key
  PROVE  LET r == RemoveEntry(m, key)
         IN /\ r \in MapperStates(S)
            /\ Len(r.entries) = Len(m.entries) -
                 (IF LookupRawEntry(m, key) = None THEN 0 ELSE 1)
            /\ \A other : Form(m, other) # Form(m, key) =>
                 LookupEntry(r, other) = LookupEntry(m, other)
<1> DEFINE r == RemoveEntry(m, key)
           i == LookupRawEntry(m, key)
           L == Len(m.entries)
<1>1. /\ m \in [insensitive : BOOLEAN, entries : Seq(S)] /\ IsMapper(m, S)
      /\ m.entries \in Seq(S) /\ L \in Nat
  BY DEF MapperStates, IsMapper
<1>2. CASE i = None
  BY <1>1, <1>2 DEF RemoveEntry
<1>3. CASE i # None
  <2>1. i \in 1 .. L /\ Matches(m, key, i)
    BY <1>1, <1>3, LookupFindsKey
  <2> HIDE DEF i
  <2>2. r = [insensitive |-> m.insensitive, entries |-> RemoveAt(m.entries, i)]
    BY <1>1, <1>3 DEF RemoveEntry, i
  <2> DEFINE a == SubSeq(m.entries, 1, i - 1)
             b == SubSeq(m.entries, i + 1, L)
  <2>3. /\ a \in Seq(S) /\ Len(a) = i - 1 /\ \A j \in 1 .. (i - 1) : a[j] = m.entries[j]
        /\ b \in Seq(S) /\ Len(b) = L - i /\ \A j \in 1 .. (L - i) : b[j] = m.entries[i + j]
    <3>1. i - 1 \in Nat /\ i + 1 \in Nat /\ i \in Int
      BY <2>1
    <3>2. \A j \in 1 .. (i - 1) : j \in 1 .. L
      BY <2>1, <1>1
    <3>3. \A j \in (i + 1) .. L : j \in 1 .. L
      BY <2>1, <1>1
    <3>4. \A j \in 1 .. L : m.entries[j] \in S
      BY <1>1
    <3>5. a \in Seq(S) /\ Len(a) = i - 1 /\ \A j \in 1 .. (i - 1) : a[j] = m.entries[j]
      BY <1>1, <2>1, <3>1, <3>2, <3>4, SubSeqProperties
    <3>6. b \in Seq(S) /\ Len(b) = L - i /\ \A j \in 1 .. (L - i) : b[j] = m.entries[i + j]
      BY <1>1, <2>1, <3>1, <3>3, <3>4, SubSeqProperties
    <3> QED BY <3>5, <3>6
  <2>4. r.entries = a \o b /\ r.insensitive = m.insensitive
    <3>1. RemoveAt(m.entries, i) = a \o b
      BY DEF RemoveAt
    <3> HIDE DEF a, b, r
    <3> QED BY <2>2, <3>1
  <2> HIDE DEF a, b
  <2>5. /\ r.entries \in Seq(S) /\ Len(r.entries) = L - 1
        /\ \A j \in 1 .. (i - 1) : r.entries[j] = m.entries[j]
        /\ \A j \in i .. (L - 1) : r.entries[j] = m.entries[j + 1]
    <3>1. /\ a \o b \in Seq(S) /\ Len(a \o b) = Len(a) + Len(b)
          /\ \A j \in 1 .. Len(a) + Len(b) :
               (a \o b)[j] = IF j <= Len(a) THEN a[j] ELSE b[j - Len(a)]
      BY <2>3, ConcatProperties
    <3>2. \A j \in 1 .. (i - 1) : (a \o b)[j] = m.entries[j]
      BY <1>1, <2>1, <2>3, <3>1
    <3>3. ASSUME NEW j \in i .. (L - 1) PROVE (a \o b)[j] = m.entries[j + 1]
      <4>1. j - (i - 1) \in 1 .. (L - i) /\ j \in 1 .. (L - 1) /\ ~(j <= i - 1)
            /\ i + (j - (i - 1)) = j + 1
        BY <1>1, <2>1
      <4>2. (a \o b)[j] = b[j - (i - 1)]
        BY <1>1, <2>1, <2>3, <3>1, <4>1
      <4> QED BY <2>3, <4>1, <4>2
    <3> QED BY <1>1, <2>1, <2>3, <2>4, <3>1, <3>2, <3>3
  <2>6. \A k : Form(r, k) = Form(m, k) /\ Signature(r, k) = Signature(m, k)
    BY <2>4 DEF Form, Signature
  <2>7. r \in [insensitive : BOOLEAN, entries : Seq(S)]
    BY <1>1, <2>2, <2>4, <2>5
  <2> HIDE DEF r
  <2>8. IsMapper(r, S) /\ r \in MapperStates(S)
    BY <1>1, <2>5, <2>6, <2>7 DEF IsMapper, MapperStates
  <2>9. ASSUME NEW other, Form(m, other) # Form(m, key)
        PROVE  LookupEntry(r, other) = LookupEntry(m, other)
    <3>1. ~Matches(m, other, i)
      BY <2>1, <2>9 DEF Matches
    <3>2. /\ \A j \in 1 .. (i - 1) : Matches(r, other, j) <=> Matches(m, other, j)
          /\ \A j \in i .. (L - 1) : Matches(r, other, j) <=> Matches(m, other, j + 1)
      BY <2>5, <2>6 DEF Matches
    <3>3. CASE \A j \in 1 .. L : ~Matches(m, other, j)
      <4>1. \A j \in 1 .. Len(r.entries) : ~Matches(r, other, j)
        BY <1>1, <2>1, <2>5, <3>2, <3>3
      <4>2. LookupEntry(r, other) = NotFound
        BY <2>8, <4>1, LookupOfNone
      <4>3. LookupEntry(m, other) = NotFound
        BY <1>1, <3>3, LookupOfNone
      <4> QED BY <4>2, <4>3
    <3>4. CASE \E j \in 1 .. L : Matches(m, other, j)
      <4>1. PICK p \in 1 .. L :
              Matches(m, other, p) /\ \A j \in 1 .. (p - 1) : ~Matches(m, other, j)
        BY <1>1, <3>4, LookupFindsKey
      <4>2. LookupEntry(m, other) = m.entries[p].value
        BY <1>1, <4>1, LookupOfFirst
      <4> DEFINE q == IF p < i THEN p ELSE p - 1
      <4>3. p # i
        BY <3>1, <4>1
      <4>4. /\ q \in 1 .. Len(r.entries) /\ r.entries[q] = m.entries[p] /\ Matches(r, other, q)
        <5>1. CASE p < i
          BY <1>1, <2>1, <2>5, <3>2, <4>1, <5>1
        <5>2. CASE ~(p < i)
          <6>1. p - 1 \in i .. (L - 1) /\ (p - 1) + 1 = p
            BY <1>1, <2>1, <4>3, <5>2
          <6> QED BY <1>1, <2>1, <2>5, <3>2, <4>1, <5>2, <6>1
        <5> QED BY <5>1, <5>2
      <4>5. ASSUME NEW j \in 1 .. (q - 1) PROVE ~Matches(r, other, j)
        <5>1. CASE j < i
          <6>1. j \in 1 .. (i - 1) /\ j \in 1 .. (p - 1)
            BY <2>1, <4>1, <4>3, <5>1
          <6> QED BY <3>2, <4>1, <6>1
        <5>2. CASE ~(j < i)
          <6>1. j \in i .. (L - 1) /\ j + 1 \in 1 .. (p - 1)
            BY <1>1, <2>1, <4>1, <4>3, <5>2
          <6> QED BY <3>2, <4>1, <6>1
        <5> QED BY <2>1, <5>1, <5>2
      <4> HIDE DEF q
      <4>6. LookupEntry(r, other) = r.entries[q].value
        BY <2>8, <4>4, <4>5, LookupOfFirst
      <4> QED BY <4>2, <4>4, <4>6
    <3> QED BY <3>3, <3>4
  <2> QED BY <1>3, <2>5, <2>8, <2>9 DEF r, i
<1> QED BY <1>2, <1>3

-----------------------------------------------------------------------------
(* KexRtlInsertMultipleEntriesStringMapper, a fold over the indices from   *)
(* the last one to the first.  After.. is the mapper after the insertions  *)
(* of a set of indices.                                                    *)

InsertOne(pairs, noMemory, i, acc) ==
  IF i \in noMemory THEN acc ELSE InsertEntry(acc, pairs[i].key, pairs[i].value)
FirstIn(s) == CHOOSE x \in s : \A y \in s : x <= y
Index(pairs) == [i \in DOMAIN pairs |-> i]
AfterStep(m, pairs, noMemory, g, s) ==
  IF s = {} THEN m
  ELSE InsertOne(pairs, noMemory, Index(pairs)[FirstIn(s)], g[s \ {FirstIn(s)}])
IsAfter(g, m, pairs, noMemory) ==
  g = [s \in SUBSET DOMAIN Index(pairs) |-> AfterStep(m, pairs, noMemory, g, s)]

LEMMA FirstInIs ==
  ASSUME NEW n \in Nat, NEW s \in SUBSET (1 .. n), s # {}
  PROVE  /\ FirstIn(s) \in s /\ \A y \in s : FirstIn(s) <= y
         /\ s \ {FirstIn(s)} \in SUBSET (1 .. n)
         /\ IsFiniteSet(s) /\ Cardinality(s) \in Nat
         /\ Cardinality(s \ {FirstIn(s)}) = Cardinality(s) - 1
<1>1. s \subseteq Nat
  OBVIOUS
<1>2. PICK x \in s : \A y \in s : x <= y
  BY <1>1, LeastNumber
<1>3. FirstIn(s) \in s /\ \A y \in s : FirstIn(s) <= y
  BY <1>2 DEF FirstIn
<1>4. IsFiniteSet(1 .. n)
  BY FS_Interval
<1>5. IsFiniteSet(s) /\ Cardinality(s) \in Nat
  BY <1>4, FS_Subset, FS_CardinalityType
<1>6. Cardinality(s \ {FirstIn(s)}) = Cardinality(s) - 1
  BY <1>3, <1>5, FS_RemoveElement
<1> QED BY <1>3, <1>5, <1>6

LEMMA AfterExists ==
  ASSUME NEW m, NEW n \in Nat, NEW pairs, DOMAIN pairs = 1 .. n, NEW noMemory
  PROVE  \E g : IsAfter(g, m, pairs, noMemory)
<1> DEFINE Small(k) == {s \in SUBSET (1 .. n) : Cardinality(s) <= k}
           Suits(g, k) == g = [s \in Small(k) |-> AfterStep(m, pairs, noMemory, g, s)]
           Missing == {k \in Nat : ~ \E g : Suits(g, k)}
<1>0. ASSUME NEW s \in SUBSET (1 .. n) PROVE IsFiniteSet(s) /\ Cardinality(s) \in Nat
  <2>1. CASE s = {}
    BY <2>1, FS_EmptySet
  <2> QED BY <2>1, FirstInIs
<1>1. Missing = {}
  <2> SUFFICES ASSUME Missing # {} PROVE FALSE
    OBVIOUS
  <2>1. PICK k \in Missing : \A j \in Missing : k <= j
    BY LeastNumber
  <2>2. CASE k = 0
    <3> DEFINE g == [s \in Small(0) |-> m]
    <3>1. ASSUME NEW s \in Small(0) PROVE s = {}
      <4>1. IsFiniteSet(s) /\ Cardinality(s) \in Nat /\ Cardinality(s) <= 0
        BY <1>0
      <4>2. Cardinality(s) = 0
        BY <4>1
      <4> QED BY <4>1, <4>2, FS_EmptySet
    <3>2. Suits(g, 0)
      BY <3>1 DEF AfterStep
    <3> QED BY <2>1, <2>2, <3>2
  <2>3. CASE k # 0
    <3>1. k \in Nat /\ k - 1 \in Nat /\ k - 1 \notin Missing
      <4> HIDE DEF Missing
      <4>1. k \in Nat
        BY <2>1 DEF Missing
      <4> QED BY <2>1, <2>3, <4>1
    <3>2. PICK g : Suits(g, k - 1)
      BY <3>1
    <3> DEFINE h == [s \in Small(k) |-> AfterStep(m, pairs, noMemory, g, s)]
    <3>3. ASSUME NEW s \in Small(k) PROVE h[s] = AfterStep(m, pairs, noMemory, h, s)
      <4>1. CASE s = {}
        BY <4>1 DEF AfterStep
      <4>2. CASE s # {}
        <5> DEFINE r == s \ {FirstIn(s)}
        <5>1. r \in Small(k - 1) /\ r \in Small(k)
          <6>1. s \in SUBSET (1 .. n) /\ Cardinality(s) <= k
            OBVIOUS
          <6>2. r \in SUBSET (1 .. n) /\ Cardinality(r) = Cardinality(s) - 1 /\ Cardinality(s) \in Nat
            BY <4>2, <6>1, FirstInIs
          <6> QED BY <3>1, <6>1, <6>2
        <5>2. g[r] = AfterStep(m, pairs, noMemory, g, r) /\ h[r] = AfterStep(m, pairs, noMemory, g, r)
          BY <3>2, <5>1
        <5>3. h[r] = g[r]
          BY <5>2
        <5>4. h[s] = AfterStep(m, pairs, noMemory, g, s)
          OBVIOUS
        <5> HIDE DEF h
        <5> QED BY <5>3, <5>4 DEF AfterStep
      <4> QED BY <4>1, <4>2
    <3>4. Suits(h, k)
      BY <3>3
    <3> QED BY <2>1, <3>4
  <2> QED BY <2>2, <2>3
<1>2. ASSUME NEW s \in SUBSET (1 .. n) PROVE s \in Small(n)
  <2>1. IsFiniteSet(1 .. n) /\ Cardinality(1 .. n) = n
    BY FS_Interval
  <2>2. Cardinality(s) <= Cardinality(1 .. n)
    BY <2>1, FS_Subset, Zenon
  <2> QED BY <2>1, <2>2
<1>3. SUBSET (1 .. n) = Small(n)
  BY <1>2
<1>4. PICK g : Suits(g, n)
  BY <1>1
<1>5. DOMAIN Index(pairs) = 1 .. n
  BY DEF Index
<1> QED BY <1>3, <1>4, <1>5 DEF IsAfter

LEMMA InsertIsAfter ==
  ASSUME NEW m, NEW P, NEW pairs \in Seq(P), NEW noMemory
  PROVE  \E g : /\ IsAfter(g, m, pairs, noMemory)
                /\ InsertMultipleEntries(m, pairs, noMemory) = g[1 .. Len(pairs)]
<1>0. Len(pairs) \in Nat /\ DOMAIN pairs = 1 .. Len(pairs)
  OBVIOUS
<1> DEFINE g == CHOOSE g : g = [s \in SUBSET DOMAIN Index(pairs) |-> AfterStep(m, pairs, noMemory, g, s)]
<1>1. g = [s \in SUBSET DOMAIN Index(pairs) |-> AfterStep(m, pairs, noMemory, g, s)]
  BY <1>0, AfterExists DEF IsAfter
<1>2. InsertMultipleEntries(m, pairs, noMemory) = g[1 .. Len(pairs)]
  BY <1>0 DEF InsertMultipleEntries, FoldRight, MapThenFoldSet, AfterStep, InsertOne, FirstIn, Min, Index
<1> QED BY <1>1, <1>2 DEF IsAfter

(* The entry of pair i has the key and was not left out for lack of memory. *)
Answers(pairs, noMemory, m, key, i) == i \notin noMemory /\ Form(m, pairs[i].key) = Form(m, key)
AnswersFrom(pairs, noMemory, m, key, from) ==
  \/ /\ LookupEntry(m, key) = NotFound
     /\ \A i \in from .. Len(pairs) : ~Answers(pairs, noMemory, m, key, i)
  \/ \E i \in from .. Len(pairs) :
       /\ Answers(pairs, noMemory, m, key, i) /\ LookupEntry(m, key) = pairs[i].value
       /\ \A j \in from .. (i - 1) : ~Answers(pairs, noMemory, m, key, j)

LEMMA EmptyMapper ==
  ASSUME NEW insensitive \in BOOLEAN
  PROVE  LET m == CreateStringMapper(insensitive)
         IN /\ m \in MapperStates({}) /\ m.insensitive = insensitive
            /\ \A key : LookupEntry(m, key) = NotFound
<1> DEFINE m == CreateStringMapper(insensitive)
<1>1. m = [insensitive |-> insensitive, entries |-> <<>>]
  BY DEF CreateStringMapper
<1> HIDE DEF m
<1>2. m \in [insensitive : BOOLEAN, entries : Seq({})] /\ IsMapper(m, {})
  BY <1>1 DEF IsMapper
<1>3. m \in MapperStates({})
  BY <1>2 DEF MapperStates
<1>4. ASSUME NEW key PROVE LookupEntry(m, key) = NotFound
  <2>1. \A j \in 1 .. Len(m.entries) : ~Matches(m, key, j)
    BY <1>1
  <2> QED BY <1>2, <2>1, LookupOfNone
<1> QED BY <1>1, <1>3, <1>4 DEF m

(* A batch insertion that goes through the pairs from the last to the first *)
(* and does not stop at a failure: the mapper answers with the first of the *)
(* pairs that have the key and got memory, and with none if there is none.  *)
THEOREM InsertedPairsAreFound ==
  ASSUME NEW insensitive \in BOOLEAN, NEW P, NEW pairs \in Seq(P), NEW noMemory
  PROVE  LET m == InsertMultipleEntries(CreateStringMapper(insensitive), pairs, noMemory)
         IN /\ \E S : m \in MapperStates(S)
            /\ m.insensitive = insensitive
            /\ \A key : AnswersFrom(pairs, noMemory, m, key, 1)
<1> DEFINE m0 == CreateStringMapper(insensitive)
           n == Len(pairs)
           Good(m, from) == /\ \E S : m \in MapperStates(S)
                            /\ m.insensitive = insensitive
                            /\ \A key : AnswersFrom(pairs, noMemory, m, key, from)
<1>1. n \in Nat /\ DOMAIN pairs = 1 .. n
  OBVIOUS
<1>2. PICK g : /\ IsAfter(g, m0, pairs, noMemory)
               /\ InsertMultipleEntries(m0, pairs, noMemory) = g[1 .. n]
  <2> HIDE DEF m0
  <2> QED BY InsertIsAfter
<1>3. Good(m0, n + 1)
  <2>1. \A i : i \notin (n + 1) .. n
    BY <1>1
  <2> HIDE DEF n
  <2>2. \A key : AnswersFrom(pairs, noMemory, m0, key, n + 1)
    BY <2>1, EmptyMapper DEF AnswersFrom, n
  <2> QED BY <2>2, EmptyMapper
<1> HIDE DEF m0
<1>4. g[{}] = m0
  <2>1. {} \in SUBSET DOMAIN Index(pairs)
    OBVIOUS
  <2>2. g[{}] = AfterStep(m0, pairs, noMemory, g, {})
    BY <1>2, <2>1 DEF IsAfter
  <2> QED BY <2>2 DEF AfterStep
<1>5. ASSUME NEW i \in 1 .. n, Good(g[(i + 1) .. n], i + 1)
      PROVE  Good(g[i .. n], i)
  <2> DEFINE old == g[(i + 1) .. n]
             new == g[i .. n]
  <2>1. new = InsertOne(pairs, noMemory, i, old)
    <3>1. i .. n \in SUBSET (1 .. n) /\ i .. n # {} /\ i \in i .. n
      BY <1>1
    <3>2. FirstIn(i .. n) = i
      <4>1. /\ FirstIn(i .. n) \in i .. n
            /\ \A y \in i .. n : FirstIn(i .. n) <= y
        BY <1>1, <3>1, FirstInIs
      <4> QED BY <1>1, <3>1, <4>1
    <3>3. (i .. n) \ {i} = (i + 1) .. n
      BY <1>1
    <3>4. Index(pairs)[i] = i /\ DOMAIN Index(pairs) = 1 .. n
      BY <1>1 DEF Index
    <3>5. new = AfterStep(m0, pairs, noMemory, g, i .. n)
      BY <1>2, <3>1, <3>4 DEF IsAfter
    <3> QED BY <3>1, <3>2, <3>3, <3>4, <3>5 DEF AfterStep
  <2> HIDE DEF old, new
  <2>2. PICK S : old \in MapperStates(S)
    BY <1>5 DEF old
  <2>3. old.insensitive = insensitive /\ \A key : AnswersFrom(pairs, noMemory, old, key, i + 1)
    BY <1>5 DEF old
  <2>4. i \in i .. n /\ i \in Int /\ n \in Int /\ \A k : k \in i .. n <=> k = i \/ k \in (i + 1) .. n
    BY <1>1
  <2>5. CASE i \in noMemory
    <3>1. new = old
      BY <2>1, <2>5 DEF InsertOne
    <3>2. ASSUME NEW key PROVE AnswersFrom(pairs, noMemory, old, key, i)
      <4>1. ~Answers(pairs, noMemory, old, key, i)
        BY <2>5 DEF Answers
      <4>2. CASE /\ LookupEntry(old, key) = NotFound
                 /\ \A k \in (i + 1) .. n : ~Answers(pairs, noMemory, old, key, k)
        BY <2>4, <4>1, <4>2 DEF AnswersFrom
      <4>3. CASE \E k \in (i + 1) .. n :
                   /\ Answers(pairs, noMemory, old, key, k) /\ LookupEntry(old, key) = pairs[k].value
                   /\ \A j \in (i + 1) .. (k - 1) : ~Answers(pairs, noMemory, old, key, j)
        <5>1. PICK k \in (i + 1) .. n :
                   /\ Answers(pairs, noMemory, old, key, k) /\ LookupEntry(old, key) = pairs[k].value
                   /\ \A j \in (i + 1) .. (k - 1) : ~Answers(pairs, noMemory, old, key, j)
          BY <4>3
        <5>2. \A j \in i .. (k - 1) : j = i \/ j \in (i + 1) .. (k - 1)
          BY <2>4
        <5>3. \A j \in i .. (k - 1) : ~Answers(pairs, noMemory, old, key, j)
          BY <4>1, <5>1, <5>2
        <5> QED BY <2>4, <5>1, <5>3 DEF AnswersFrom
      <4> QED BY <2>3, <4>2, <4>3 DEF AnswersFrom
    <3> QED BY <2>2, <2>3, <3>1, <3>2 DEF new
  <2>6. CASE i \notin noMemory
    <3> DEFINE k0 == pairs[i].key
               v0 == pairs[i].value
    <3>1. new = InsertEntry(old, k0, v0)
      BY <2>1, <2>6 DEF InsertOne
    <3> HIDE DEF k0, v0
    <3>2. /\ new \in MapperStates(S \cup {EntryOf(old, k0, v0)}) /\ new.insensitive = insensitive
      <4>1. new \in MapperStates(S \cup {EntryOf(old, k0, v0)})
        BY <2>2, <3>1, InsertIsMapper
      <4>2. new.insensitive = old.insensitive
        <5>1. InsertEntry(old, k0, v0) =
                [insensitive |-> old.insensitive, entries |-> <<EntryOf(old, k0, v0)>> \o old.entries]
          BY <2>2, InsertedIs
        <5> QED BY <3>1, <5>1
      <4> QED BY <2>3, <4>1, <4>2
    <3>3. \A key : LookupEntry(new, key) = IF Form(old, key) = Form(old, k0) THEN v0
                                           ELSE LookupEntry(old, key)
      BY <2>2, <3>1, InsertedKeyIsFound
    <3>4. \A key : Form(new, key) = Form(old, key)
      BY <2>3, <3>2 DEF Form
    <3>5. \A key, j : Answers(pairs, noMemory, new, key, j) <=> Answers(pairs, noMemory, old, key, j)
      BY <3>4 DEF Answers
    <3>6. ASSUME NEW key PROVE AnswersFrom(pairs, noMemory, new, key, i)
      <4>1. Answers(pairs, noMemory, new, key, i) <=> Form(old, key) = Form(old, k0)
        BY <2>6, <3>4 DEF Answers, k0
      <4>2. CASE Form(old, key) = Form(old, k0)
        <5>1. \A j \in i .. (i - 1) : FALSE
          BY <2>4
        <5>2. LookupEntry(new, key) = pairs[i].value
          BY <3>3, <4>2 DEF v0
        <5> QED BY <2>4, <4>1, <4>2, <5>1, <5>2 DEF AnswersFrom
      <4>3. CASE Form(old, key) # Form(old, k0)
        <5>1. LookupEntry(new, key) = LookupEntry(old, key) /\ ~Answers(pairs, noMemory, new, key, i)
          BY <3>3, <4>1, <4>3
        <5>2. CASE /\ LookupEntry(old, key) = NotFound
                   /\ \A k \in (i + 1) .. n : ~Answers(pairs, noMemory, old, key, k)
          BY <2>4, <3>5, <5>1, <5>2 DEF AnswersFrom
        <5>3. CASE \E k \in (i + 1) .. n :
                   /\ Answers(pairs, noMemory, old, key, k) /\ LookupEntry(old, key) = pairs[k].value
                   /\ \A j \in (i + 1) .. (k - 1) : ~Answers(pairs, noMemory, old, key, j)
          <6>1. PICK k \in (i + 1) .. n :
                   /\ Answers(pairs, noMemory, old, key, k) /\ LookupEntry(old, key) = pairs[k].value
                   /\ \A j \in (i + 1) .. (k - 1) : ~Answers(pairs, noMemory, old, key, j)
            BY <5>3
          <6>2. \A j \in i .. (k - 1) : j = i \/ j \in (i + 1) .. (k - 1)
            BY <2>4
          <6>3. \A j \in i .. (k - 1) : ~Answers(pairs, noMemory, new, key, j)
            BY <3>5, <5>1, <6>1, <6>2
          <6> QED BY <2>4, <3>5, <5>1, <6>1, <6>3 DEF AnswersFrom
        <5> QED BY <2>3, <5>2, <5>3 DEF AnswersFrom
      <4> QED BY <4>2, <4>3
    <3> QED BY <3>2, <3>6 DEF new
  <2> QED BY <2>5, <2>6
<1> DEFINE Bad == {d \in 0 .. n : ~Good(g[((n + 1) - d) .. n], (n + 1) - d)}
<1>6. Bad = {}
  <2> SUFFICES ASSUME Bad # {} PROVE FALSE
    OBVIOUS
  <2>1. Bad \subseteq Nat
    BY <1>1
  <2>2. PICK d \in Bad : \A e \in Bad : d <= e
    BY <2>1, LeastNumber
  <2>3. CASE d = 0
    <3>1. ((n + 1) - 0) .. n = {} /\ (n + 1) - 0 = n + 1
      BY <1>1
    <3> HIDE DEF Good
    <3> QED BY <1>3, <1>4, <2>2, <2>3, <3>1
  <2>4. CASE d # 0
    <3> HIDE DEF Good
    <3>1. d \in 0 .. n /\ ~Good(g[((n + 1) - d) .. n], (n + 1) - d)
      BY <2>2
    <3> HIDE DEF Bad
    <3> DEFINE i == (n + 1) - d
    <3>2. i \in 1 .. n /\ (n + 1) - (d - 1) = i + 1 /\ d - 1 \in 0 .. n /\ d - 1 < d
      BY <1>1, <2>4, <3>1
    <3>3. d - 1 \notin Bad
      BY <1>1, <2>2, <3>1, <3>2
    <3>4. Good(g[(i + 1) .. n], i + 1)
      BY <3>2, <3>3 DEF Bad
    <3> HIDE DEF i
    <3>5. Good(g[i .. n], i)
      BY <1>5, <3>2, <3>4
    <3> QED BY <3>1, <3>5 DEF i
  <2> QED BY <2>3, <2>4
<1>7. Good(g[1 .. n], 1)
  <2> HIDE DEF Good
  <2>1. n \in 0 .. n /\ (n + 1) - n = 1
    BY <1>1
  <2>2. n \notin Bad
    BY <1>6
  <2> HIDE DEF n
  <2> QED BY <2>1, <2>2
<1> QED BY <1>2, <1>7 DEF m0

-----------------------------------------------------------------------------
(* Lookups in loaded images.                                               *)

CONSTANT NUL
Ldr == INSTANCE KexLdr

(* What the search from a downwards finds: the base of the highest native  *)
(* mapping above the lowest address.                                       *)
Natives(space, lowest, a) ==
  {b \in DOMAIN space : b <= a /\ b > lowest /\ Ldr!IsNativeImage(space, b)}
Highest(space, lowest, a) ==
  CHOOSE b \in Natives(space, lowest, a) : \A c \in Natives(space, lowest, a) : c <= b
FoundFrom(space, lowest, a) ==
  IF Natives(space, lowest, a) = {} THEN Ldr!None ELSE space[Highest(space, lowest, a)].base
From(space, a) == IF space[a].file THEN space[a].base ELSE a
SearchStep(space, lowest, w, a) ==
  CASE a <= lowest -> Ldr!None
    [] a > lowest /\ Ldr!IsNativeImage(space, a) -> From(space, a)
    [] OTHER -> IF From(space, a) - 1 \in DOMAIN space THEN w[From(space, a) - 1] ELSE Ldr!None

LEMMA GreatestNumber ==
  ASSUME NEW n \in Nat, NEW T, T \subseteq 0 .. n, T # {}
  PROVE  \E x \in T : \A y \in T : y <= x
<1> DEFINE D == {n - x : x \in T}
<1>1. D \subseteq Nat /\ D # {}
  <2>1. \A x \in T : x \in 0 .. n /\ n - x \in Nat
    OBVIOUS
  <2>2. PICK x \in T : TRUE
    OBVIOUS
  <2>3. n - x \in D
    OBVIOUS
  <2> QED BY <2>1, <2>3
<1>2. PICK d \in D : \A e \in D : d <= e
  BY <1>1, LeastNumber
<1>3. PICK x \in T : d = n - x
  OBVIOUS
<1>4. ASSUME NEW y \in T PROVE y <= x
  <2>1. n - y \in D
    OBVIOUS
  <2> QED BY <1>2, <1>3, <2>1
<1> QED BY <1>4

LEMMA HighestIs ==
  ASSUME NEW n \in Nat, NEW space, DOMAIN space = 1 .. n, NEW lowest \in Nat, NEW a \in Nat,
         Natives(space, lowest, a) # {}
  PROVE  /\ Highest(space, lowest, a) \in Natives(space, lowest, a)
         /\ \A c \in Natives(space, lowest, a) : c <= Highest(space, lowest, a)
<1>1. Natives(space, lowest, a) \subseteq 0 .. n
  BY DEF Natives
<1>2. PICK b \in Natives(space, lowest, a) : \A c \in Natives(space, lowest, a) : c <= b
  BY <1>1, GreatestNumber
<1> QED BY <1>2 DEF Highest

(* One step of the search: what it goes past has no native mapping.        *)
LEMMA FoundFromSteps ==
  ASSUME NEW n \in Nat, NEW space, DOMAIN space = 1 .. n, Ldr!IsAddressSpace(space),
         NEW lowest \in Nat, NEW a \in 1 .. n,
         NEW w, \A b \in 1 .. n : b < a => w[b] = FoundFrom(space, lowest, b)
  PROVE  SearchStep(space, lowest, w, a) = FoundFrom(space, lowest, a)
<1> DEFINE from == From(space, a)
<1>1. /\ from \in 1 .. a
      /\ \A b \in from .. a : space[b] = space[a]
  BY DEF Ldr!IsAddressSpace, From
<1>2. CASE a <= lowest
  <2>1. Natives(space, lowest, a) = {}
    BY <1>2 DEF Natives
  <2> QED BY <1>2, <2>1 DEF FoundFrom, SearchStep
<1>3. CASE a > lowest /\ Ldr!IsNativeImage(space, a)
  <2>1. a \in Natives(space, lowest, a) /\ \A c \in Natives(space, lowest, a) : c <= a
    BY <1>3 DEF Natives
  <2>2. Highest(space, lowest, a) = a
    <3>1. /\ Highest(space, lowest, a) \in Natives(space, lowest, a)
          /\ a <= Highest(space, lowest, a)
      BY <2>1, HighestIs
    <3>2. Highest(space, lowest, a) \in Nat /\ Highest(space, lowest, a) <= a
      BY <3>1 DEF Natives
    <3> QED BY <3>1, <3>2
  <2>3. space[a].file
    BY <1>3 DEF Ldr!IsNativeImage
  <2>4. FoundFrom(space, lowest, a) = space[a].base
    BY <2>1, <2>2 DEF FoundFrom
  <2>5. SearchStep(space, lowest, w, a) = space[a].base
    BY <1>3, <2>3 DEF SearchStep, From
  <2> QED BY <2>4, <2>5
<1>4. CASE a > lowest /\ ~Ldr!IsNativeImage(space, a)
  <2>1. SearchStep(space, lowest, w, a) =
          IF from - 1 \in 1 .. n THEN w[from - 1] ELSE Ldr!None
    BY <1>4 DEF SearchStep
  <2> HIDE DEF from
  <2>2. \A b \in from .. a : ~Ldr!IsNativeImage(space, b)
    BY <1>1, <1>4 DEF Ldr!IsNativeImage
  <2>3. Natives(space, lowest, a) = Natives(space, lowest, from - 1)
    BY <1>1, <2>2 DEF Natives
  <2>4. CASE from - 1 \in 1 .. n
    <3>1. w[from - 1] = FoundFrom(space, lowest, from - 1)
      BY <1>1, <2>4
    <3> QED BY <2>1, <2>3, <2>4, <3>1 DEF FoundFrom, Highest
  <2>5. CASE from - 1 \notin 1 .. n
    <3>1. from - 1 = 0
      BY <1>1, <2>5
    <3>2. Natives(space, lowest, from - 1) = {}
      BY <3>1 DEF Natives
    <3> QED BY <2>1, <2>3, <2>5, <3>2 DEF FoundFrom
  <2> QED BY <2>4, <2>5
<1> QED BY <1>2, <1>3, <1>4

LEMMA SearchFinds ==
  ASSUME NEW n \in Nat \ {0}, NEW space, DOMAIN space = 1 .. n, Ldr!IsAddressSpace(space),
         NEW lowest \in Nat
  PROVE  Ldr!GetNativeSystemDllBase(space, lowest) = FoundFrom(space, lowest, n)
<1> DEFINE w == CHOOSE w : w = [a \in DOMAIN space |-> SearchStep(space, lowest, w, a)]
           v == [a \in 1 .. n |-> FoundFrom(space, lowest, a)]
           top == CHOOSE a \in DOMAIN space : \A b \in DOMAIN space : b <= a
<1>1. v = [a \in DOMAIN space |-> SearchStep(space, lowest, v, a)]
  <2>1. ASSUME NEW a \in 1 .. n PROVE v[a] = SearchStep(space, lowest, v, a)
    <3>1. \A b \in 1 .. n : b < a => v[b] = FoundFrom(space, lowest, b)
      OBVIOUS
    <3>2. v[a] = FoundFrom(space, lowest, a)
      OBVIOUS
    <3> HIDE DEF v
    <3> QED BY <3>1, <3>2, FoundFromSteps
  <2> QED BY <2>1
<1>2. w = [a \in DOMAIN space |-> SearchStep(space, lowest, w, a)]
  BY <1>1
<1>3. Ldr!GetNativeSystemDllBase(space, lowest) = w[top]
  BY DEF Ldr!GetNativeSystemDllBase, SearchStep, From
<1> HIDE DEF w, v
<1> DEFINE Bad == {a \in 1 .. n : w[a] # FoundFrom(space, lowest, a)}
<1>4. Bad = {}
  <2> SUFFICES ASSUME Bad # {} PROVE FALSE
    OBVIOUS
  <2>1. Bad \subseteq Nat
    OBVIOUS
  <2>2. PICK a \in Bad : \A b \in Bad : a <= b
    BY <2>1, LeastNumber
  <2>3. a \in 1 .. n /\ w[a] = SearchStep(space, lowest, w, a)
    BY <1>2
  <2>4. \A b \in 1 .. n : b < a => w[b] = FoundFrom(space, lowest, b)
    BY <2>2, <2>3
  <2>5. SearchStep(space, lowest, w, a) = FoundFrom(space, lowest, a)
    BY <2>3, <2>4, FoundFromSteps
  <2> QED BY <2>3, <2>5
<1>5. top = n
  <2>1. n \in DOMAIN space /\ \A b \in DOMAIN space : b <= n
    OBVIOUS
  <2>2. top \in DOMAIN space /\ \A b \in DOMAIN space : b <= top
    BY <2>1
  <2> HIDE DEF top
  <2> QED BY <2>1, <2>2
<1> QED BY <1>3, <1>4, <1>5

(* Whatever is mapped where, the walk through the address space returns    *)
(* the native ntdll.dll and no other mapping, although it goes past every  *)
(* mapping in one step and never looks at its lower units.                 *)
THEOREM NativeIsAlwaysFound ==
  ASSUME NEW n \in Nat \ {0}, NEW space, DOMAIN space = 1 .. n, Ldr!IsAddressSpace(space),
         NEW lowest \in Nat
  PROVE  Ldr!NativeIsFound(space, lowest)
<1> DEFINE natives == {a \in DOMAIN space : a > lowest /\ space[a].file /\ space[a].image
                                                       /\ space[a].native}
           bases == {space[a].base : a \in natives}
           h == Highest(space, lowest, n)
           found == Ldr!GetNativeSystemDllBase(space, lowest)
<1>1. natives = Natives(space, lowest, n)
  BY DEF Natives, Ldr!IsNativeImage
<1>2. found = FoundFrom(space, lowest, n)
  BY SearchFinds
<1>3. CASE natives = {}
  BY <1>1, <1>2, <1>3 DEF FoundFrom, Ldr!NativeIsFound
<1>4. CASE natives # {}
  <2>1. h \in natives /\ \A a \in natives : a <= h
    BY <1>1, <1>4, HighestIs
  <2>2. found = space[h].base
    BY <1>1, <1>2, <1>4 DEF FoundFrom
  <2> HIDE DEF h, found
  <2>3. ASSUME NEW a \in natives PROVE space[a].base <= space[h].base
    <3>1. /\ a \in 1 .. n /\ a > lowest /\ space[a].base \in 1 .. a
          /\ h \in 1 .. n /\ space[h].base \in 1 .. h /\ a <= h
          /\ \A b \in space[h].base .. h : space[b] = space[h]
      BY <2>1 DEF Ldr!IsAddressSpace
    <3>2. CASE a < space[h].base
      BY <3>1, <3>2
    <3>3. CASE ~(a < space[h].base)
      <4>1. space[a] = space[h]
        BY <3>1, <3>3
      <4> QED BY <3>1, <4>1
    <3> QED BY <3>2, <3>3
  <2>4. found \in bases /\ \A b \in bases : b <= found
    BY <2>1, <2>2, <2>3
  <2> QED BY <1>4, <2>4 DEF Ldr!NativeIsFound, found
<1> QED BY <1>3, <1>4

(* Comparing up to the shorter length and one character further, where a   *)
(* string that has ended has NUL, is comparing whole strings.              *)
LEMMA SameStrings ==
  ASSUME NEW C, NUL \notin C, NEW s \in Seq(C), NEW t \in Seq(C)
  PROVE  Ldr!StringEqual(s, t, FALSE) <=> s = t
<1> DEFINE mem == Append(s, NUL) \o Append(t, NUL)
           n == Len(s) + 2
           limit == IF Len(s) <= Len(t) THEN Len(s) ELSE Len(t)
           Same(k) == Ldr!Cell(mem, 1 + k) = Ldr!Cell(mem, n + k)
           Stops(k) == (\A j \in 0 .. (k - 1) : Same(j)) /\ (k = limit \/ ~Same(k))
           stop == CHOOSE k \in 0 .. limit : Stops(k)
<1>1. /\ Len(s) \in Nat /\ Len(t) \in Nat /\ limit \in Nat
      /\ limit <= Len(s) /\ limit <= Len(t) /\ (limit = Len(s) \/ limit = Len(t))
  OBVIOUS
<1>2. \A k \in 0 .. limit :
        /\ Ldr!Cell(mem, 1 + k) = IF k < Len(s) THEN s[k + 1] ELSE NUL
        /\ Ldr!Cell(mem, n + k) = IF k < Len(t) THEN t[k + 1] ELSE NUL
  <2> DEFINE x == Append(s, NUL)
             y == Append(t, NUL)
  <2>1. /\ x \in Seq(C \cup {NUL}) /\ Len(x) = Len(s) + 1
        /\ \A i \in 1 .. (Len(s) + 1) : x[i] = IF i <= Len(s) THEN s[i] ELSE NUL
    <3>1. s \in Seq(C \cup {NUL})
      OBVIOUS
    <3> QED BY <3>1, AppendProperties
  <2>2. /\ y \in Seq(C \cup {NUL}) /\ Len(y) = Len(t) + 1
        /\ \A i \in 1 .. (Len(t) + 1) : y[i] = IF i <= Len(t) THEN t[i] ELSE NUL
    <3>1. t \in Seq(C \cup {NUL})
      OBVIOUS
    <3> QED BY <3>1, AppendProperties
  <2> HIDE DEF x, y
  <2>3. /\ x \o y \in Seq(C \cup {NUL}) /\ Len(x \o y) = Len(x) + Len(y)
        /\ \A i \in 1 .. Len(x) + Len(y) : (x \o y)[i] = IF i <= Len(x) THEN x[i] ELSE y[i - Len(x)]
    BY <2>1, <2>2, ConcatProperties
  <2>4. DOMAIN (x \o y) = 1 .. (Len(s) + Len(t) + 2)
    BY <1>1, <2>1, <2>2, <2>3
  <2>5. mem = x \o y
    BY DEF x, y
  <2> HIDE DEF mem, limit
  <2>6. ASSUME NEW k \in 0 .. limit
        PROVE  /\ Ldr!Cell(mem, 1 + k) = IF k < Len(s) THEN s[k + 1] ELSE NUL
               /\ Ldr!Cell(mem, n + k) = IF k < Len(t) THEN t[k + 1] ELSE NUL
    <3>1. /\ 1 + k \in 1 .. (Len(s) + 1) /\ 1 + k \in 1 .. (Len(s) + Len(t) + 2)
          /\ n + k \in 1 .. (Len(s) + Len(t) + 2) /\ (n + k) - (Len(s) + 1) = k + 1
          /\ k + 1 \in 1 .. (Len(t) + 1) /\ ~(n + k <= Len(s) + 1)
      BY <1>1
    <3>2. Ldr!Cell(mem, 1 + k) = x[k + 1]
      BY <1>1, <2>1, <2>2, <2>3, <2>4, <2>5, <3>1 DEF Ldr!Cell
    <3>3. Ldr!Cell(mem, n + k) = y[k + 1]
      BY <1>1, <2>1, <2>2, <2>3, <2>4, <2>5, <3>1 DEF Ldr!Cell
    <3> QED BY <1>1, <2>1, <2>2, <3>1, <3>2, <3>3
  <2> QED BY <2>6
<1>3. Ldr!StringEqual(s, t, FALSE) <=> Same(stop)
  BY DEF Ldr!StringEqual, Ldr!EqualFrom, Ldr!Case
<1> HIDE DEF mem, n, limit
<1>4. stop \in 0 .. limit /\ Stops(stop)
  <2> DEFINE T == {k \in 0 .. limit : k = limit \/ ~Same(k)}
  <2>1. T \subseteq Nat /\ limit \in T
    BY <1>1
  <2>2. PICK k \in T : \A j \in T : k <= j
    BY <2>1, LeastNumber
  <2>3. \A j \in 0 .. (k - 1) : j \notin T /\ j \in 0 .. limit
    BY <1>1, <2>2
  <2>4. k \in 0 .. limit /\ Stops(k)
    BY <2>2, <2>3
  <2> HIDE DEF Stops
  <2> QED BY <2>4
<1> HIDE DEF stop
<1>5. ASSUME s = t PROVE Same(stop)
  BY <1>1, <1>2, <1>4, <1>5
<1>6. ASSUME Same(stop) PROVE s = t
  <2>1. stop = limit /\ \A j \in 0 .. (limit - 1) : Same(j)
    BY <1>4, <1>6
  <2>2. \A i \in 1 .. Len(s) : s[i] # NUL
    BY <1>1
  <2>3. \A i \in 1 .. Len(t) : t[i] # NUL
    BY <1>1
  <2>4. Len(s) = limit /\ Len(t) = limit
    <3>1. limit \in 0 .. limit /\ limit + 1 \in Nat
      BY <1>1
    <3>2. (IF limit < Len(s) THEN s[limit + 1] ELSE NUL) = (IF limit < Len(t) THEN t[limit + 1] ELSE NUL)
      BY <1>2, <1>6, <2>1, <3>1
    <3>3. CASE limit < Len(s)
      <4>1. limit = Len(t) /\ limit + 1 \in 1 .. Len(s)
        BY <1>1, <3>3
      <4> QED BY <1>1, <2>2, <3>2, <3>3, <4>1
    <3>4. CASE limit < Len(t)
      <4>1. limit = Len(s) /\ limit + 1 \in 1 .. Len(t)
        BY <1>1, <3>4
      <4> QED BY <1>1, <2>3, <3>2, <3>4, <4>1
    <3> QED BY <1>1, <3>3, <3>4
  <2>5. ASSUME NEW i \in 1 .. limit PROVE s[i] = t[i]
    <3>1. i - 1 \in 0 .. (limit - 1) /\ i - 1 \in 0 .. limit /\ (i - 1) + 1 = i /\ i - 1 < limit
      BY <1>1
    <3>2. Same(i - 1)
      BY <2>1, <3>1
    <3>3. /\ Ldr!Cell(mem, 1 + (i - 1)) = s[i]
          /\ Ldr!Cell(mem, n + (i - 1)) = t[i]
      BY <1>2, <2>4, <3>1
    <3> QED BY <3>2, <3>3
  <2> QED BY <2>4, <2>5, SeqEqual
<1> QED BY <1>3, <1>5, <1>6

(* A procedure is found by exactly its name, whatever other names the      *)
(* module exports: also those that begin with it, or that it begins with.  *)
THEOREM ProcedureIsAlwaysFound ==
  ASSUME NEW C, NUL \notin C, NEW base, NEW exports, exports.names \in Seq(Seq(C)),
         NEW name \in Seq(C)
  PROVE  Ldr!ProcedureIsFound(base, exports, name)
<1> DEFINE same == {i \in DOMAIN exports.names : exports.names[i] = name}
           found == Ldr!MiniGetProcedureAddress(base, exports, name)
<1>1. same = {i \in DOMAIN exports.names : Ldr!StringEqual(name, exports.names[i], FALSE)}
  <2>1. ASSUME NEW i \in DOMAIN exports.names
        PROVE  Ldr!StringEqual(name, exports.names[i], FALSE) <=> exports.names[i] = name
    <3>1. exports.names[i] \in Seq(C)
      OBVIOUS
    <3>2. Ldr!StringEqual(name, exports.names[i], FALSE) <=> name = exports.names[i]
      BY <3>1, SameStrings
    <3> QED BY <3>2
  <2> QED BY <2>1
<1>2. CASE same = {}
  BY <1>1, <1>2 DEF Ldr!ProcedureIsFound, Ldr!MiniGetProcedureAddress
<1>3. CASE same # {}
  <2> DEFINE i == CHOOSE i \in same : \A j \in same : i <= j
  <2>1. found = base + exports.functions[exports.ordinals[i]]
    BY <1>1, <1>3 DEF Ldr!MiniGetProcedureAddress
  <2>2. same \subseteq Nat
    OBVIOUS
  <2> HIDE DEF same, found
  <2>3. i \in same /\ \A j \in same : i <= j
    BY <1>3, <2>2, LeastNumber
  <2> HIDE DEF i
  <2>4. \E k \in same : (\A j \in same : k <= j)
                        /\ found = base + exports.functions[exports.ordinals[k]]
    BY <2>1, <2>3
  <2> QED BY <1>3, <2>4 DEF Ldr!ProcedureIsFound, same, found
<1> QED BY <1>2, <1>3

-----------------------------------------------------------------------------
(* The key.                                                                *)

Distinct ==
  \A i, j \in DOMAIN registry : i # j => UpCase[registry[i].name] # UpCase[registry[j].name]

(* As long as nothing was changed, the key has what was ever in it, and no *)
(* name twice.                                                             *)
RegistryInv ==
  /\ seen \subseteq Values
  /\ registry # Deleted => registry \in Seq(seen)
  /\ changes \in Nat /\ failures \in Nat /\ index \in Nat
  /\ changes = 0 => registry # Deleted /\ seen = ToSet(registry) /\ Distinct

LEMMA RegistryInit == Init => RegistryInv
<1> SUFFICES ASSUME Init PROVE RegistryInv
  OBVIOUS
<1>1. PICK n \in 0 .. MaxValues : registry \in [1 .. n -> Values]
  BY DEF Init
<1>2. n \in Nat
  BY <1>1, RewritingAssumption
<1>3. registry \in Seq(Values) /\ DOMAIN registry = 1 .. n
  BY <1>1, <1>2
<1>4. seen = {registry[i] : i \in DOMAIN registry}
  BY DEF Init, ToSet
<1>5. seen \subseteq Values /\ registry \in [1 .. n -> seen]
  BY <1>1, <1>4
<1>6. registry \in Seq(seen)
  BY <1>2, <1>5
<1>7. registry # Deleted
  BY <1>3, RewritingAssumption
<1>8. Distinct /\ changes = 0 /\ failures = 0 /\ index = 0 /\ seen = ToSet(registry)
  BY DEF Init, Distinct
<1> QED BY <1>5, <1>6, <1>7, <1>8 DEF RegistryInv

(* The initialisation, the loading and the unloading leave the key alone.  *)
LEMMA ProcessLeavesKey ==
  ASSUME RegistryInv, Initialize \/ \E i \in Images : LoadDll(i) \/ UnloadDll(i)
  PROVE  /\ UNCHANGED <<registry, seen, changes, debug>>
         /\ failures' \in {failures, failures + 1}
         /\ index' \in {index, index + 1}
<1> USE DEF Step, Fails, GoOn
<1>1. CASE Initialize
  <2>1. CASE CreateMapper \/ CreateMapperFails \/ OpenKey \/ OpenKeyFails
    BY <2>1 DEF CreateMapper, CreateMapperFails, OpenKey, OpenKeyFails
  <2>2. CASE NoMoreEntries \/ EnumerationFails \/ OutOfMemory
    BY <2>2 DEF NoMoreEntries, EnumerationFails, OutOfMemory
  <2>3. CASE WrongType \/ InsertValue \/ InsertFails
    BY <2>3 DEF WrongType, InsertValue, InsertFails
  <2>4. CASE \/ AddToDllPath \/ AddToDllPathFails
             \/ RegisterDllNotification \/ RegisterDllNotificationFails
    BY <2>4 DEF AddToDllPath, AddToDllPathFails, RegisterDllNotification,
                RegisterDllNotificationFails
  <2>5. CASE RewriteExe
    BY <2>5 DEF RewriteExe
  <2> QED BY <1>1, <2>1, <2>2, <2>3, <2>4, <2>5 DEF Initialize
<1>2. CASE \E i \in Images : LoadDll(i) \/ UnloadDll(i)
  BY <1>2 DEF LoadDll, UnloadDll
<1> QED BY <1>1, <1>2

LEMMA RegistryStep == RegistryInv /\ [Next]_vars => RegistryInv'
<1> SUFFICES ASSUME RegistryInv, [Next]_vars PROVE RegistryInv'
  OBVIOUS
<1>1. CASE Initialize \/ \E i \in Images : LoadDll(i) \/ UnloadDll(i)
  <2>1. UNCHANGED <<registry, seen, changes>> /\ failures' \in Nat /\ index' \in Nat
    BY <1>1, ProcessLeavesKey DEF RegistryInv
  <2> QED BY <2>1 DEF RegistryInv, Distinct
<1>2. ASSUME NEW r, Changed(r), registry # Deleted, seen' \subseteq Values, r \in Seq(seen') \cup {Deleted}
      PROVE  RegistryInv'
  <2>1. changes' \in Nat /\ changes' # 0 /\ failures' = failures /\ index' = index /\ registry' = r
    BY <1>2 DEF Changed, RegistryInv
  <2> QED BY <1>2, <2>1 DEF RegistryInv
<1>3. registry # Deleted => registry \in Seq(seen) /\ seen \subseteq Values
  BY DEF RegistryInv
<1>4. CASE \E v \in Values : SetValue(v)
  <2>1. PICK v \in Values : SetValue(v)
    BY <1>4
  <2>2. registry # Deleted /\ seen' = seen \cup {v}
    BY <2>1 DEF SetValue
  <2>3. registry \in Seq(seen') /\ v \in seen'
    BY <1>3, <2>2
  <2>4. CASE \E i \in SameName(v) : Changed([registry EXCEPT ![i] = v])
    <3>1. PICK i \in SameName(v) : Changed([registry EXCEPT ![i] = v])
      BY <2>4
    <3>2. i \in 1 .. Len(registry)
      BY <2>3 DEF SameName
    <3>3. [registry EXCEPT ![i] = v] \in Seq(seen')
      BY <2>3, <3>2, ExceptSeq
    <3> QED BY <1>2, <1>3, <2>2, <3>1, <3>3
  <2>5. CASE Changed(Append(registry, v))
    <3>1. Append(registry, v) \in Seq(seen')
      BY <2>3
    <3> QED BY <1>2, <1>3, <2>2, <2>5, <3>1
  <2> QED BY <2>1, <2>4, <2>5 DEF SetValue
<1>5. CASE DeleteValue
  <2>1. PICK i \in DOMAIN registry : Changed(RemoveAt(registry, i))
    BY <1>5 DEF DeleteValue
  <2>2. registry # Deleted /\ seen' = seen
    BY <1>5 DEF DeleteValue
  <2>3. RemoveAt(registry, i) \in Seq(seen)
    <3>1. registry \in Seq(seen) /\ i \in 1 .. Len(registry) /\ Len(registry) \in Nat
      BY <1>3, <2>1, <2>2, LenProperties
    <3>2. \A j \in 1 .. Len(registry) : registry[j] \in seen
      BY <3>1, ElementOfSeq
    <3>3. /\ \A j \in 1 .. (i - 1) : registry[j] \in seen
          /\ \A j \in (i + 1) .. Len(registry) : registry[j] \in seen
      BY <3>1, <3>2
    <3>4. SubSeq(registry, 1, i - 1) \in Seq(seen) /\ SubSeq(registry, i + 1, Len(registry)) \in Seq(seen)
      BY <3>1, <3>3, SubSeqProperties
    <3> QED BY <3>4, ConcatProperties DEF RemoveAt
  <2> QED BY <1>2, <1>3, <2>1, <2>2, <2>3
<1>6. CASE DeleteKey
  BY <1>2, <1>3, <1>6 DEF DeleteKey
<1>7. CASE UNCHANGED vars
  BY <1>7 DEF vars, RegistryInv, Distinct
<1> QED BY <1>1, <1>4, <1>5, <1>6, <1>7 DEF Next

-----------------------------------------------------------------------------
(* The mapper.                                                             *)

Sources(vs) ==
  {[sig |-> Hash[UpCase[v.name]], key |-> v.name, value |-> v.target] : v \in Strings(vs)}
Mappers(vs) == [insensitive : {TRUE}, entries : Seq(Sources(vs))]
PairsIn(m) == {<<m.entries[j].key, m.entries[j].value>> : j \in 1 .. Len(m.entries)}

LEMMA SourcesAreMapper ==
  ASSUME NEW vs, NEW m \in Mappers(vs)
  PROVE  /\ IsMapper(m, Sources(vs)) /\ m.entries \in Seq(Sources(vs)) /\ Len(m.entries) \in Nat
         /\ \A key : Form(m, key) = UpCase[key]
         /\ \A j \in 1 .. Len(m.entries) : \E v \in Strings(vs) :
              m.entries[j] = [sig |-> Hash[UpCase[v.name]], key |-> v.name, value |-> v.target]
         /\ PairsIn(m) \subseteq Pairs(vs)
<1>1. m.entries \in Seq(Sources(vs)) /\ m.insensitive = TRUE /\ Len(m.entries) \in Nat
  BY LenProperties DEF Mappers
<1>2. \A key : Form(m, key) = UpCase[key] /\ Signature(m, key) = Hash[UpCase[key]]
  BY <1>1 DEF Signature, Form
<1>3. \A e \in Sources(vs) : e.sig = Hash[UpCase[e.key]]
  BY DEF Sources
<1>4. \A j \in 1 .. Len(m.entries) : \E v \in Strings(vs) :
        m.entries[j] = [sig |-> Hash[UpCase[v.name]], key |-> v.name, value |-> v.target]
  <2> SUFFICES ASSUME NEW j \in 1 .. Len(m.entries)
               PROVE  m.entries[j] \in Sources(vs)
    BY DEF Sources
  <2> QED BY <1>1, ElementOfSeq
<1>5. PairsIn(m) \subseteq Pairs(vs)
  <2> SUFFICES ASSUME NEW j \in 1 .. Len(m.entries)
               PROVE  <<m.entries[j].key, m.entries[j].value>> \in Pairs(vs)
    BY DEF PairsIn
  <2>1. PICK v \in Strings(vs) :
          m.entries[j] = [sig |-> Hash[UpCase[v.name]], key |-> v.name, value |-> v.target]
    BY <1>4
  <2>2. m.entries[j].key = v.name /\ m.entries[j].value = v.target
    BY <2>1
  <2> QED BY <2>2 DEF Pairs
<1> QED BY <1>1, <1>2, <1>3, <1>4, <1>5 DEF IsMapper

LEMMA MoreSources ==
  ASSUME NEW vs, NEW ws, vs \subseteq ws, NEW m \in Mappers(vs)
  PROVE  m \in Mappers(ws)
<1>1. Sources(vs) \subseteq Sources(ws)
  BY DEF Sources, Strings
<1>2. m.entries \in Seq(Sources(ws))
  BY <1>1, SeqMonotonic DEF Mappers
<1> QED BY <1>2 DEF Mappers

LEMMA InsertString ==
  ASSUME NEW vs, NEW m \in Mappers(vs), NEW v \in Strings(vs)
  PROVE  LET n == InsertEntry(m, v.name, v.target)
         IN /\ n \in Mappers(vs)
            /\ Len(n.entries) = Len(m.entries) + 1
            /\ PairsIn(n) = PairsIn(m) \cup {<<v.name, v.target>>}
<1> DEFINE e == [sig |-> Hash[UpCase[v.name]], key |-> v.name, value |-> v.target]
           n == InsertEntry(m, v.name, v.target)
<1>1. /\ e \in Sources(vs) /\ m.entries \in Seq(Sources(vs)) /\ m.insensitive = TRUE
      /\ Len(m.entries) \in Nat
  BY LenProperties DEF Sources, Mappers
<1>2. n = [insensitive |-> TRUE, entries |-> <<e>> \o m.entries]
  <2>1. Signature(m, v.name) = Hash[UpCase[v.name]]
    BY <1>1 DEF Signature, Form
  <2>2. n = [m EXCEPT !.entries = <<e>> \o @]
    BY <2>1 DEF InsertEntry
  <2> QED BY <2>2 DEF Mappers
<1>3. e.key = v.name /\ e.value = v.target
  OBVIOUS
<1> HIDE DEF e
<1>4. <<e>> \o m.entries \in Seq(Sources(vs))
  BY <1>1
<1>5. /\ Len(n.entries) = Len(m.entries) + 1 /\ n.entries[1] = e
      /\ \A j \in 1 .. Len(m.entries) : n.entries[j + 1] = m.entries[j]
  BY <1>1, <1>2
<1> HIDE DEF n
<1>6. n \in Mappers(vs)
  BY <1>2, <1>4 DEF Mappers
<1>7. \A j \in 1 .. Len(m.entries) : j + 1 \in 1 .. Len(n.entries)
  BY <1>1, <1>5
<1>8. 1 \in 1 .. Len(n.entries)
  BY <1>1, <1>5
<1>9. \A j \in 1 .. Len(n.entries) : j = 1 \/ \E k \in 1 .. Len(m.entries) : j = k + 1
  <2> SUFFICES ASSUME NEW j \in 1 .. Len(n.entries), j # 1
               PROVE  \E k \in 1 .. Len(m.entries) : j = k + 1
    OBVIOUS
  <2>1. j - 1 \in 1 .. Len(m.entries) /\ j = (j - 1) + 1
    BY <1>1, <1>5
  <2> QED BY <2>1
<1>10. PairsIn(m) \cup {<<v.name, v.target>>} \subseteq PairsIn(n)
  BY <1>3, <1>5, <1>7, <1>8 DEF PairsIn
<1>11. PairsIn(n) \subseteq PairsIn(m) \cup {<<v.name, v.target>>}
  <2> SUFFICES ASSUME NEW j \in 1 .. Len(n.entries)
               PROVE  <<n.entries[j].key, n.entries[j].value>>
                        \in PairsIn(m) \cup {<<v.name, v.target>>}
    BY DEF PairsIn
  <2>1. CASE j = 1
    BY <1>3, <1>5, <2>1
  <2>2. CASE \E k \in 1 .. Len(m.entries) : j = k + 1
    BY <1>5, <2>2 DEF PairsIn
  <2> QED BY <1>9, <2>1, <2>2
<1> QED BY <1>5, <1>6, <1>10, <1>11 DEF n

(* The first k values of the key.                                          *)
Upto(k) == {registry[j] : j \in 1 .. k}

LEMMA OneMore ==
  ASSUME registry \in Seq(seen), Distinct, NEW k \in Nat, k < Len(registry)
  PROVE  /\ Upto(k + 1) = Upto(k) \cup {registry[k + 1]}
         /\ registry[k + 1] \notin Upto(k)
         /\ registry[k + 1] \in seen
         /\ Upto(k) \subseteq seen
<1>1. Len(registry) \in Nat /\ DOMAIN registry = 1 .. Len(registry)
  BY LenProperties
<1>2. k + 1 \in 1 .. Len(registry) /\ (\A j \in 1 .. k : j \in 1 .. Len(registry) /\ j # k + 1)
  BY <1>1
<1>3. \A j \in 1 .. k : registry[j] # registry[k + 1]
  BY <1>1, <1>2 DEF Distinct
<1>4. \A j : j \in 1 .. (k + 1) <=> j \in 1 .. k \/ j = k + 1
  OBVIOUS
<1>5. Upto(k + 1) = Upto(k) \cup {registry[k + 1]}
  BY <1>4 DEF Upto
<1>6. registry[k + 1] \in seen /\ Upto(k) \subseteq seen
  BY <1>2, ElementOfSeq DEF Upto
<1> QED BY <1>3, <1>5, <1>6 DEF Upto

(* The mapper has exactly the strings among the first k values, each once. *)
Complete(k) ==
  /\ IsFiniteSet(Strings(Upto(k)))
  /\ PairsIn(mapper) = Pairs(Upto(k))
  /\ Len(mapper.entries) = Cardinality(Strings(Upto(k)))

Calm == failures = 0 /\ changes = 0 /\ (debug => \A v \in seen : v.type = "REG_SZ")

MapperInv ==
  /\ mapper # NoMapper \/ pc \notin {"create", "errorBox"} => mapper \in Mappers(seen)
  /\ pc \in {"create", "open"} => index = 0
  /\ pc = "open" => mapper.entries = <<>>
  /\ Calm /\ pc = "enumerate" => index <= Len(registry) /\ Complete(index)
  /\ Calm /\ pc \notin {"create", "open", "enumerate"} => Complete(Len(registry))

LEMMA NothingRead == ASSUME mapper.entries = <<>> PROVE Complete(0)
<1>1. Upto(0) = {}
  BY DEF Upto
<1>2. Strings(Upto(0)) = {} /\ Pairs(Upto(0)) = {}
  BY <1>1 DEF Strings, Pairs
<1>3. Len(mapper.entries) = 0
  OBVIOUS
<1>4. PairsIn(mapper) = {}
  BY <1>3 DEF PairsIn
<1> QED BY <1>2, <1>3, <1>4, FS_EmptySet DEF Complete

LEMMA OtherRead ==
  ASSUME registry \in Seq(seen), Distinct, NEW k \in Nat, k < Len(registry), Complete(k),
         registry[k + 1].type # "REG_SZ"
  PROVE  Complete(k + 1)
<1>1. Strings(Upto(k + 1)) = Strings(Upto(k))
  BY OneMore DEF Strings
<1> QED BY <1>1 DEF Complete, Pairs

LEMMA StringRead ==
  ASSUME registry \in Seq(seen), Distinct, NEW k \in Nat, k < Len(registry), Complete(k),
         mapper \in Mappers(seen), registry[k + 1].type = "REG_SZ", registry' = registry,
         mapper' = InsertEntry(mapper, registry[k + 1].name, registry[k + 1].target)
  PROVE  Complete(k + 1)'
<1> DEFINE v == registry[k + 1]
           old == Strings(Upto(k))
<1>1. v \in Strings(seen) /\ v \notin old /\ Strings(Upto(k + 1)) = old \cup {v}
  BY OneMore DEF Strings
<1>2. Pairs(Upto(k + 1)) = Pairs(Upto(k)) \cup {<<v.name, v.target>>}
  BY <1>1 DEF Pairs
<1>3. /\ Len(mapper'.entries) = Len(mapper.entries) + 1
      /\ PairsIn(mapper') = PairsIn(mapper) \cup {<<v.name, v.target>>}
  BY <1>1, InsertString
<1>4. /\ IsFiniteSet(old \cup {v})
      /\ Cardinality(old \cup {v}) = Cardinality(old) + 1
  BY <1>1, FS_AddElement DEF Complete
<1>5. Upto(k + 1)' = Upto(k + 1)
  BY DEF Upto
<1>6. Complete(k + 1)' <=>
        /\ IsFiniteSet(Strings(Upto(k + 1)))
        /\ PairsIn(mapper') = Pairs(Upto(k + 1))
        /\ Len(mapper'.entries) = Cardinality(Strings(Upto(k + 1)))
  BY <1>5 DEF Complete, PairsIn, Pairs, Strings
<1> QED BY <1>1, <1>2, <1>3, <1>4, <1>6 DEF Complete

LEMMA MapperInit == Init => MapperInv
BY DEF Init, MapperInv

(* What is read of the key stays what was read of it.                      *)
LEMMA CompleteStays ==
  ASSUME NEW k, UNCHANGED <<registry, mapper>>
  PROVE  Complete(k)' = Complete(k)
BY DEF Complete, Upto, PairsIn, Pairs, Strings

(* While the values are read.                                              *)
LEMMA EnumerationStep ==
  ASSUME RegistryInv, MapperInv, pc = "enumerate", Initialize
  PROVE  MapperInv'
<1>1. /\ UNCHANGED <<registry, seen, changes, debug>>
      /\ failures' \in {failures, failures + 1}
      /\ failures \in Nat /\ index \in Nat
  BY ProcessLeavesKey DEF RegistryInv
<1>2. mapper \in Mappers(seen)
  BY DEF MapperInv
<1>3. Calm' => Calm
  BY <1>1 DEF Calm
<1>4. Calm => /\ registry # Deleted /\ registry \in Seq(seen) /\ Distinct /\ Len(registry) \in Nat
              /\ index <= Len(registry) /\ Complete(index)
              /\ debug => \A v \in seen : v.type = "REG_SZ"
  BY LenProperties DEF Calm, RegistryInv, MapperInv
<1>5. CASE NoMoreEntries
  <2>1. pc' = "path" /\ UNCHANGED <<mapper, index>> /\ index >= Len(registry)
    BY <1>5 DEF NoMoreEntries, Step
  <2>2. Calm => index = Len(registry)
    BY <1>1, <1>4, <2>1
  <2>3. Calm => Complete(Len(registry))
    BY <1>4, <2>2
  <2> QED BY <1>1, <1>2, <1>3, <2>1, <2>3, CompleteStays DEF MapperInv
<1>6. CASE EnumerationFails \/ OutOfMemory \/ InsertFails
  <2>1. pc' \in {"path", "enumerate"} /\ UNCHANGED mapper
    BY <1>6 DEF EnumerationFails, OutOfMemory, InsertFails, GoOn, GiveUp, Fails, Step
  <2>2. failures' = failures + 1 \/ registry = Deleted
    BY <1>6 DEF EnumerationFails, OutOfMemory, InsertFails, Fails
  <2>3. ~Calm'
    BY <1>1, <1>3, <1>4, <2>2 DEF Calm
  <2> QED BY <1>1, <1>2, <2>1, <2>3 DEF MapperInv
<1>7. CASE WrongType
  <2>1. /\ pc' = GiveUp /\ UNCHANGED mapper /\ index' = index + 1
        /\ registry # Deleted /\ index < Len(registry) /\ registry[index + 1].type # "REG_SZ"
    BY <1>7 DEF WrongType, GoOn, Step, Current
  <2>2. Calm => Complete(index + 1) /\ index + 1 <= Len(registry) /\ ~debug
    <3> SUFFICES ASSUME Calm PROVE Complete(index + 1) /\ index + 1 <= Len(registry) /\ ~debug
      OBVIOUS
    <3>1. registry[index + 1] \in seen
      BY <1>1, <1>4, <2>1, OneMore
    <3> QED BY <1>1, <1>4, <2>1, <3>1, OtherRead
  <2>3. Calm => Complete(index)' /\ index' <= Len(registry') /\ pc' = "enumerate"
    <3>1. PICK k : k = index + 1
      OBVIOUS
    <3>2. Complete(k)' = Complete(k)
      BY <1>1, <2>1, CompleteStays
    <3> QED BY <1>1, <2>1, <2>2, <3>1, <3>2 DEF GiveUp
  <2>4. pc' \in {"path", "enumerate"}
    BY <2>1 DEF GiveUp
  <2> QED BY <1>1, <1>2, <1>3, <2>1, <2>3, <2>4 DEF MapperInv
<1>8. CASE InsertValue
  <2>1. /\ pc' = "enumerate" /\ index' = index + 1
        /\ registry # Deleted /\ index < Len(registry) /\ registry[index + 1].type = "REG_SZ"
        /\ mapper' = InsertEntry(mapper, registry[index + 1].name, registry[index + 1].target)
    BY <1>8 DEF InsertValue, Step, Current
  <2>2. mapper' \in Mappers(seen)
    <3>1. registry \in Seq(seen)
      BY <2>1 DEF RegistryInv
    <3>2. index + 1 \in 1 .. Len(registry)
      BY <1>1, <2>1, <3>1
    <3>3. registry[index + 1] \in Strings(seen)
      BY <2>1, <3>1, <3>2, ElementOfSeq DEF Strings
    <3> QED BY <1>2, <2>1, <3>3, InsertString
  <2>3. Calm => Complete(index)' /\ index' <= Len(registry)
    <3>1. PICK k \in Nat : k = index
      BY <1>1
    <3>2. Calm => Complete(k + 1)' /\ k + 1 <= Len(registry)
      BY <1>1, <1>2, <1>4, <2>1, <3>1, StringRead
    <3> QED BY <2>1, <3>1, <3>2
  <2> QED BY <1>1, <1>3, <2>1, <2>2, <2>3 DEF MapperInv
<1>9. NoMoreEntries \/ EnumerationFails \/ OutOfMemory \/ InsertFails \/ WrongType \/ InsertValue
  BY DEF Initialize, CreateMapper, CreateMapperFails, OpenKey, OpenKeyFails, AddToDllPath,
         AddToDllPathFails, RegisterDllNotification, RegisterDllNotificationFails, RewriteExe,
         Step, Fails
<1> QED BY <1>5, <1>6, <1>7, <1>8, <1>9

LEMMA MapperInitializeStep ==
  ASSUME RegistryInv, MapperInv, Initialize
  PROVE  MapperInv'
<1>1. /\ UNCHANGED <<registry, seen, changes, debug>>
      /\ failures' \in {failures, failures + 1}
      /\ failures \in Nat /\ index \in Nat
  BY ProcessLeavesKey DEF RegistryInv
<1>2. Calm' => Calm /\ failures' = failures
  BY <1>1 DEF Calm
<1>3. Calm => registry # Deleted /\ registry \in Seq(seen) /\ Len(registry) \in Nat
  BY LenProperties DEF Calm, RegistryInv
<1>4. CASE CreateMapper
  <2>1. pc' = "open" /\ index' = 0 /\ mapper' = [insensitive |-> TRUE, entries |-> <<>>]
    BY <1>4 DEF CreateMapper, Step, CreateStringMapper, MapperInv
  <2>2. mapper' \in Mappers(seen)
    BY <2>1 DEF Mappers
  <2> QED BY <1>1, <2>1, <2>2 DEF MapperInv
<1>5. CASE OpenKey
  <2>1. pc = "open" /\ pc' = "enumerate" /\ index' = index /\ index = 0 /\ mapper' = mapper
    BY <1>5 DEF OpenKey, Step, MapperInv
  <2>2. mapper.entries = <<>> /\ mapper \in Mappers(seen)
    BY <2>1 DEF MapperInv
  <2>3. Complete(0)'
    BY <1>1, <2>1, <2>2, NothingRead, CompleteStays
  <2> QED BY <1>1, <1>2, <1>3, <2>1, <2>2, <2>3 DEF MapperInv
<1>6. CASE CreateMapperFails \/ OpenKeyFails
  <2>1. /\ pc' = "errorBox" /\ mapper' \in {NoMapper, mapper}
        /\ failures' = failures + 1 \/ registry = Deleted
    BY <1>6 DEF CreateMapperFails, OpenKeyFails, Fails, Step
  <2>2. ~Calm'
    BY <1>1, <1>2, <1>3, <2>1
  <2> QED BY <1>1, <2>1, <2>2 DEF MapperInv
<1>7. CASE pc = "enumerate"
  BY <1>7, EnumerationStep
<1>8. CASE \/ AddToDllPath \/ AddToDllPathFails
           \/ RegisterDllNotification \/ RegisterDllNotificationFails \/ RewriteExe
  <2>1. /\ pc \in {"path", "register", "exe"} /\ mapper' = mapper
        /\ pc' \in {"register", "exe", "running", "errorBox"}
    BY <1>8 DEF AddToDllPath, AddToDllPathFails, RegisterDllNotification,
                RegisterDllNotificationFails, RewriteExe, Step, Fails
  <2>2. Complete(Len(registry))' = Complete(Len(registry))
    BY <1>1, <2>1, CompleteStays
  <2> QED BY <1>1, <1>2, <2>1, <2>2 DEF MapperInv
<1>9. \/ CreateMapper \/ OpenKey \/ CreateMapperFails \/ OpenKeyFails \/ pc = "enumerate"
      \/ AddToDllPath \/ AddToDllPathFails
      \/ RegisterDllNotification \/ RegisterDllNotificationFails \/ RewriteExe
  BY DEF Initialize, NoMoreEntries, EnumerationFails, OutOfMemory, WrongType, InsertValue,
         InsertFails, GoOn, Step, Fails
<1> QED BY <1>4, <1>5, <1>6, <1>7, <1>8, <1>9

(* The images do not change the mapper, and a change of the key only adds  *)
(* to what was ever in it.                                                 *)
LEMMA MapperOtherStep ==
  ASSUME RegistryInv, MapperInv,
         \/ \E i \in Images : LoadDll(i) \/ UnloadDll(i)
         \/ (\E v \in Values : SetValue(v)) \/ DeleteValue \/ DeleteKey
         \/ UNCHANGED vars
  PROVE  MapperInv'
<1>1. CASE \E i \in Images : LoadDll(i) \/ UnloadDll(i)
  <2>1. UNCHANGED <<registry, seen, changes, debug, mapper, pc, index>>
    BY <1>1 DEF LoadDll, UnloadDll
  <2>2. failures' \in {failures, failures + 1} /\ failures \in Nat
    BY <1>1, ProcessLeavesKey DEF RegistryInv
  <2>3. Calm' => Calm
    BY <2>1, <2>2 DEF Calm
  <2> QED BY <2>1, <2>3, CompleteStays DEF MapperInv
<1>2. CASE (\E v \in Values : SetValue(v)) \/ DeleteValue \/ DeleteKey
  <2>1. UNCHANGED <<mapper, pc, index>> /\ changes' = changes + 1 /\ seen \subseteq seen'
    BY <1>2 DEF SetValue, DeleteValue, DeleteKey, Changed
  <2>2. ~Calm'
    BY <2>1 DEF Calm, RegistryInv
  <2>3. mapper \in Mappers(seen) => mapper \in Mappers(seen')
    BY <2>1, MoreSources
  <2> QED BY <2>1, <2>2, <2>3 DEF MapperInv
<1>3. CASE UNCHANGED vars
  <2>1. UNCHANGED <<registry, seen, changes, debug, mapper, pc, index, failures>>
    BY <1>3 DEF vars
  <2> QED BY <2>1, CompleteStays DEF MapperInv, Calm
<1> QED BY <1>1, <1>2, <1>3

HoldsInv == RegistryInv /\ MapperInv

LEMMA HoldsStep == HoldsInv /\ [Next]_vars => HoldsInv'
<1> SUFFICES ASSUME HoldsInv, [Next]_vars PROVE HoldsInv'
  OBVIOUS
<1>1. RegistryInv'
  BY RegistryStep DEF HoldsInv
<1>2. MapperInv'
  BY MapperInitializeStep, MapperOtherStep DEF HoldsInv, Next
<1> QED BY <1>1, <1>2 DEF HoldsInv

LEMMA InsertedPairs ==
  ASSUME NEW vs, mapper \in Mappers(vs)
  PROVE  Inserted = PairsIn(mapper)
<1>1. DOMAIN mapper.entries = 1 .. Len(mapper.entries)
  BY SourcesAreMapper, LenProperties
<1> QED BY <1>1 DEF Inserted, PairsIn, ToSet

LEMMA AllUpto ==
  ASSUME RegistryInv, Calm
  PROVE  Upto(Len(registry)) = seen
<1>1. registry \in Seq(seen) /\ seen = ToSet(registry)
  BY DEF RegistryInv, Calm
<1>2. DOMAIN registry = 1 .. Len(registry)
  BY <1>1, LenProperties
<1> QED BY <1>1, <1>2 DEF Upto, ToSet

LEMMA MapperHolds == HoldsInv => MapperHoldsRegistry
<1> SUFFICES ASSUME HoldsInv, mapper # NoMapper PROVE MapperHoldsRegistry
  BY DEF MapperHoldsRegistry
<1>1. mapper \in Mappers(seen)
  BY DEF HoldsInv, MapperInv
<1>2. Inserted = PairsIn(mapper) /\ PairsIn(mapper) \subseteq Pairs(seen)
  BY <1>1, InsertedPairs, SourcesAreMapper
<1>3. ASSUME pc \notin {"create", "open", "enumerate"}, Calm
      PROVE  Inserted = Pairs(seen) /\ Len(mapper.entries) = Cardinality(Strings(seen))
  BY <1>2, <1>3, AllUpto DEF HoldsInv, MapperInv, Complete
<1> QED BY <1>2, <1>3 DEF MapperHoldsRegistry, Calm

(* The mapper holds only strings that were in the key, and each of them    *)
(* once when nothing changed or failed while the key was read by index,    *)
(* however long the key is and whatever an installer does meanwhile        *)
(* (dllrewrt.c 74-188).                                                    *)
THEOREM MapperAlwaysHoldsRegistry == Spec => []MapperHoldsRegistry
<1>1. Init => HoldsInv
  BY RegistryInit, MapperInit DEF HoldsInv
<1> QED BY <1>1, HoldsStep, MapperHolds, PTL DEF Spec

-----------------------------------------------------------------------------
(* What becomes of a name.                                                 *)

Base(n) == [n EXCEPT !.dll = FALSE]

(* What the lookup of a name returns.                                      *)
LEMMA TargetIsOf ==
  ASSUME mapper \in Mappers(seen), NEW n
  PROVE  \/ /\ Target(n) = NotFound
            /\ \A j \in 1 .. Len(mapper.entries) :
                 UpCase[mapper.entries[j].key] # UpCase[Base(n)]
         \/ \E v \in Strings(seen) : Target(n) = v.target /\ UpCase[v.name] = UpCase[Base(n)]
<1> DEFINE key == Base(n)
           i == LookupRawEntry(mapper, key)
<1>1. Target(n) = IF i = None THEN NotFound ELSE mapper.entries[i].value
  BY DEF Target, LookupEntry, Base
<1>2. \A j : Matches(mapper, key, j) <=> UpCase[mapper.entries[j].key] = UpCase[key]
  BY SourcesAreMapper DEF Matches
<1> HIDE DEF i
<1>3. CASE i = None /\ \A j \in 1 .. Len(mapper.entries) : ~Matches(mapper, key, j)
  BY <1>1, <1>2, <1>3
<1>4. CASE i \in 1 .. Len(mapper.entries) /\ i # None /\ Matches(mapper, key, i)
  <2>1. PICK v \in Strings(seen) :
          mapper.entries[i] = [sig |-> Hash[UpCase[v.name]], key |-> v.name, value |-> v.target]
    BY <1>4, SourcesAreMapper
  <2>2. mapper.entries[i].key = v.name /\ mapper.entries[i].value = v.target
    BY <2>1
  <2> QED BY <1>1, <1>2, <1>4, <2>2
<1>5. IsMapper(mapper, Sources(seen))
  BY SourcesAreMapper
<1> QED BY <1>3, <1>4, <1>5, LookupFindsKey DEF i

LEMMA StringsAreTyped ==
  ASSUME RegistryInv, NEW v \in Strings(seen)
  PROVE  v.name \in Names /\ v.target \in Targets /\ v.target # NotFound
<1>1. v \in Values
  BY DEF RegistryInv, Strings
<1> QED BY <1>1, RewritingAssumption

(* A name that is replaced becomes what the registry says, and no longer.  *)
LEMMA NewNameIsResult ==
  ASSUME HoldsInv, mapper \in Mappers(seen), NEW n \in Names, Fits(n)
  PROVE  NewName(n) \in Results(n) /\ NameCch(NewName(n)) <= NameCch(n)
<1>1. Target(n) # NotFound /\ TargetCch(Target(n)) <= NameCch(n)
  BY DEF Fits
<1>2. PICK v \in Strings(seen) : Target(n) = v.target /\ UpCase[v.name] = UpCase[Base(n)]
  BY <1>1, TargetIsOf
<1> DEFINE t == v.target
           new == [stem |-> t.stem, dll |-> t.dll]
<1>3. t \in Targets
  BY StringsAreTyped DEF HoldsInv
<1>4. NewName(n) = new
  BY <1>2 DEF NewName
<1>5. v \in Rules(n)
  BY <1>1, <1>2 DEF Rules, Base
<1>6. new \in Results(n)
  BY <1>5 DEF Results
<1>7. NameCch(new) <= TargetCch(t)
  <2>1. StemCch[t.stem] \in Nat /\ t.dll \in BOOLEAN
    BY <1>3, RewritingAssumption DEF Targets
  <2>2. new.stem = t.stem /\ new.dll = t.dll
    OBVIOUS
  <2> HIDE DEF t, new
  <2> QED BY <2>1, <2>2 DEF NameCch, TargetCch
<1>8. NameCch(new) \in Int /\ TargetCch(t) \in Int /\ NameCch(n) \in Int
  <2>1. StemCch[t.stem] \in Nat /\ StemCch[n.stem] \in Nat
    BY <1>3, RewritingAssumption DEF Targets, Names
  <2>2. new.stem = t.stem
    OBVIOUS
  <2> HIDE DEF t, new
  <2> QED BY <2>1, <2>2 DEF NameCch, TargetCch
<1> QED BY <1>1, <1>2, <1>4, <1>6, <1>7, <1>8

(* When nothing disturbed the initialisation, every name that the registry *)
(* says something about is replaced.                                       *)
LEMMA EveryRuleIsUsed ==
  ASSUME HoldsInv, Undisturbed, pc \in {"exe", "running"}, mapper \in Mappers(seen),
         NEW n \in Names, Results(n) # {}
  PROVE  Fits(n)
<1>1. PICK v \in Rules(n) : TRUE
  BY DEF Results
<1>2. v \in Strings(seen) /\ UpCase[v.name] = UpCase[Base(n)] /\ TargetCch(v.target) <= NameCch(n)
  BY DEF Rules, Base
<1>3. Calm
  BY DEF Undisturbed, Calm
<1>4. PairsIn(mapper) = Pairs(seen)
  <2>1. Complete(Len(registry))
    BY <1>3 DEF HoldsInv, MapperInv
  <2>2. Upto(Len(registry)) = seen
    BY <1>3, AllUpto DEF HoldsInv
  <2> QED BY <2>1, <2>2 DEF Complete
<1>5. PICK j \in 1 .. Len(mapper.entries) :
        <<v.name, v.target>> = <<mapper.entries[j].key, mapper.entries[j].value>>
  BY <1>2, <1>4 DEF Pairs, PairsIn
<1>6. mapper.entries[j].key = v.name
  BY <1>5
<1>7. PICK w \in Strings(seen) : Target(n) = w.target /\ UpCase[w.name] = UpCase[Base(n)]
  BY <1>2, <1>6, TargetIsOf
<1>8. w = v
  <2>1. seen = {registry[k] : k \in DOMAIN registry} /\ Distinct
    BY <1>3 DEF HoldsInv, RegistryInv, Calm, ToSet
  <2>2. PICK k, l \in DOMAIN registry : v = registry[k] /\ w = registry[l]
    BY <1>2, <1>7, <2>1 DEF Strings
  <2> QED BY <1>2, <1>7, <2>1, <2>2 DEF Distinct
<1>9. v.target # NotFound
  BY <1>2, StringsAreTyped DEF HoldsInv
<1> QED BY <1>2, <1>7, <1>8, <1>9 DEF Fits

-----------------------------------------------------------------------------
(* What becomes of the imports of an image.                                *)

IsMapped(i, r, calm) ==
  /\ \A k \in DOMAIN ImportsOf[i] :
       LET old == ImportsOf[i][k]
           new == r.imports[k]
       IN /\ new # old => new \in Results(old) /\ NameCch(new) <= NameCch(old)
          /\ calm /\ Kind[i] = "imports" /\ (Place[i] = "elsewhere" \/ i = Exe)
               => Results(old) = {} \/ new \in Results(old)
          /\ Place[i] # "elsewhere" /\ i # Exe => new = old
  /\ r.imports # ImportsOf[i] => ~r.bound \/ r.failed

LEMMA UntouchedIsMapped ==
  ASSUME NEW i, Kind[i] # "imports" \/ (Place[i] # "elsewhere" /\ i # Exe)
  PROVE  IsMapped(i, Untouched(i), Undisturbed)
<1>1. Untouched(i).imports = ImportsOf[i]
  BY DEF Untouched
<1> QED BY <1>1 DEF IsMapped

LEMMA RewrittenIsMapped ==
  ASSUME HoldsInv, pc \in {"exe", "running"}, NEW i \in Images,
         Place[i] = "elsewhere" \/ i = Exe, NEW failing, NEW unbound
  PROVE  LET r == Rewritten(ImportsOf[i], failing, unbound)
         IN IsMapped(i, r, Undisturbed /\ ~r.failed)
<1> DEFINE names == ImportsOf[i]
           r == Rewritten(names, failing, unbound)
           new(k) == IF k \in failing THEN names[k] ELSE NewName(names[k])
<1>1. /\ r.imports = [k \in DOMAIN names |-> new(k)]
      /\ r.bound = ~(unbound /\ AtLeastOneImportWasRewritten(names, failing))
      /\ r.failed = (failing # {} \/ ~unbound)
  BY DEF Rewritten
<1>2. names \in Seq(Names) /\ names = [k \in DOMAIN names |-> names[k]]
  BY RewritingAssumption
<1>3. mapper \in Mappers(seen)
  BY DEF HoldsInv, MapperInv
<1> HIDE DEF r
<1>4. ASSUME NEW k \in DOMAIN names
      PROVE  /\ r.imports[k] # names[k] =>
                  /\ r.imports[k] \in Results(names[k]) /\ NameCch(r.imports[k]) <= NameCch(names[k])
                  /\ k \notin failing /\ Fits(names[k])
             /\ Undisturbed /\ ~r.failed =>
                  Results(names[k]) = {} \/ r.imports[k] \in Results(names[k])
  <2>1. names[k] \in Names
    BY <1>2, ElementOfSeq
  <2>2. r.imports[k] = new(k)
    BY <1>1
  <2>3. r.imports[k] # names[k] => k \notin failing /\ Fits(names[k])
    BY <2>2 DEF NewName
  <2>4. ~r.failed => k \notin failing
    BY <1>1
  <2>5. k \notin failing => r.imports[k] = NewName(names[k])
    BY <2>2
  <2>6. Undisturbed /\ Results(names[k]) # {} => Fits(names[k])
    BY <1>3, <2>1, EveryRuleIsUsed
  <2>7. Fits(names[k]) =>
          NewName(names[k]) \in Results(names[k]) /\ NameCch(NewName(names[k])) <= NameCch(names[k])
    BY <1>3, <2>1, NewNameIsResult
  <2> QED BY <2>3, <2>4, <2>5, <2>6, <2>7
<1>5. r.imports # names => ~r.bound \/ r.failed
  <2> SUFFICES ASSUME r.imports # names PROVE ~r.bound \/ r.failed
    OBVIOUS
  <2>1. PICK k \in DOMAIN names : r.imports[k] # names[k]
    BY <1>1, <1>2
  <2>2. AtLeastOneImportWasRewritten(names, failing)
    BY <1>4, <2>1 DEF AtLeastOneImportWasRewritten
  <2> QED BY <1>1, <2>2
<1>6. IsMapped(i, r, Undisturbed /\ ~r.failed)
  BY <1>4, <1>5 DEF IsMapped
<1> QED BY <1>6 DEF r

(* No image is there before the program's imports were rewritten.          *)
ImagesInv ==
  /\ image = [i \in Images |-> image[i]]
  /\ \A i \in Images : image[i].loaded =>
       pc \in {"running", "errorBox"} /\ IsMapped(i, image[i], Undisturbed)

LEMMA ImagesInit == Init => ImagesInv
BY DEF Init, ImagesInv, NotLoaded

LEMMA LessIsMapped ==
  ASSUME NEW i, NEW r, NEW calm \in BOOLEAN, NEW less \in BOOLEAN, IsMapped(i, r, calm), less => calm
  PROVE  IsMapped(i, r, less)
BY DEF IsMapped

(* What the code says of an image's imports does not depend on anything    *)
(* that the loading of another image changes.                              *)
LEMMA SameRules ==
  ASSUME UNCHANGED seen, NEW i, NEW r, NEW calm \in BOOLEAN
  PROVE  IsMapped(i, r, calm)' = IsMapped(i, r, calm)
<1>1. \A n : Results(n)' = Results(n)
  BY DEF Results, Rules, Strings, TargetCch, NameCch
<1> QED BY <1>1 DEF IsMapped, NameCch

LEMMA MappedThen ==
  ASSUME UNCHANGED seen, NEW i, NEW r, NEW calm \in BOOLEAN, IsMapped(i, r, calm),
         image'[i] = r, Undisturbed' = calm
  PROVE  IsMapped(i, image[i], Undisturbed)'
<1>1. IsMapped(i, r, calm)'
  BY SameRules
<1> QED BY <1>1

(* The imports of one image are rewritten, or it is let alone.             *)
LEMMA ImageStep ==
  ASSUME HoldsInv, ImagesInv, pc \in {"exe", "running"}, NEW i \in Images,
         NEW r, r \in IF Place[i] = "elsewhere" \/ i = Exe THEN RewriteImageImportDirectory(i)
                      ELSE {Untouched(i)},
         image' = [image EXCEPT ![i] = r],
         failures' = IF r.failed THEN failures + 1 ELSE failures,
         UNCHANGED <<seen, changes, debug>>, pc' \in {"running", "errorBox"}
  PROVE  ImagesInv'
<1>1. failures \in Nat
  BY DEF HoldsInv, RegistryInv
<1>2. Undisturbed \in BOOLEAN /\ Undisturbed' \in BOOLEAN /\ (Undisturbed' => Undisturbed /\ ~r.failed)
  BY <1>1 DEF Undisturbed
<1>3. IsMapped(i, r, Undisturbed')
  <2>1. CASE r = Untouched(i) /\ (Kind[i] # "imports" \/ (Place[i] # "elsewhere" /\ i # Exe))
    BY <1>2, <2>1, UntouchedIsMapped, LessIsMapped
  <2>2. CASE /\ Place[i] = "elsewhere" \/ i = Exe
             /\ \E failing, unbound : r = Rewritten(ImportsOf[i], failing, unbound)
    <3>1. PICK failing, unbound : r = Rewritten(ImportsOf[i], failing, unbound)
      BY <2>2
    <3>2. IsMapped(i, r, Undisturbed /\ ~r.failed)
      BY <2>2, <3>1, RewrittenIsMapped
    <3>3. (Undisturbed /\ ~r.failed) \in BOOLEAN
      OBVIOUS
    <3> QED BY <1>2, <3>2, <3>3, LessIsMapped
  <2>3. CASE Place[i] = "elsewhere" \/ i = Exe
    <3>1. r \in RewriteImageImportDirectory(i)
      BY <2>3
    <3>2. CASE Kind[i] # "imports"
      BY <2>1, <3>1, <3>2 DEF RewriteImageImportDirectory
    <3>3. CASE Kind[i] = "imports"
      <4> DEFINE F == IF MayFail THEN SUBSET DOMAIN ImportsOf[i] ELSE {{}}
                 U == IF MayFail THEN BOOLEAN ELSE {TRUE}
                 R == {Rewritten(ImportsOf[i], failing, unbound) : failing \in F, unbound \in U}
      <4>0. RewriteImageImportDirectory(i) = IF Kind[i] # "imports" THEN {Untouched(i)} ELSE R
        BY DEF RewriteImageImportDirectory
      <4>1. \E failing, unbound : r = Rewritten(ImportsOf[i], failing, unbound)
        <5>1. r \in R
          <6> HIDE DEF R
          <6> QED BY <3>1, <3>3, <4>0
        <5> HIDE DEF F, U
        <5> QED BY <5>1
      <4> QED BY <2>2, <2>3, <4>1
    <3> QED BY <3>2, <3>3
  <2>4. CASE ~(Place[i] = "elsewhere" \/ i = Exe)
    BY <2>1, <2>4
  <2> QED BY <2>3, <2>4
<1>4. image' = [j \in Images |-> image'[j]]
  BY DEF ImagesInv
<1>5. ASSUME NEW j \in Images, image'[j].loaded
      PROVE  IsMapped(j, image[j], Undisturbed)'
  <2>1. CASE j = i
    <3>1. image'[j] = r
      BY <2>1 DEF ImagesInv
    <3> QED BY <1>2, <1>3, <2>1, <3>1, MappedThen
  <2>2. CASE j # i
    <3>1. image'[j] = image[j]
      BY <2>2 DEF ImagesInv
    <3>2. IsMapped(j, image[j], Undisturbed')
      BY <1>2, <1>5, <3>1, LessIsMapped DEF ImagesInv
    <3> QED BY <1>2, <3>1, <3>2, MappedThen
  <2> QED BY <2>1, <2>2
<1> QED BY <1>4, <1>5 DEF ImagesInv

LEMMA ImagesStep == HoldsInv /\ ImagesInv /\ [Next]_vars => ImagesInv'
<1> SUFFICES ASSUME HoldsInv, ImagesInv, [Next]_vars PROVE ImagesInv'
  OBVIOUS
<1>1. ASSUME image' = image, pc \notin {"running", "errorBox"} PROVE ImagesInv'
  BY <1>1 DEF ImagesInv
<1>2. CASE RewriteExe
  <2>1. /\ pc = "exe" /\ pc' \in {"running", "errorBox"}
        /\ UNCHANGED <<seen, changes, debug>>
    BY <1>2 DEF RewriteExe, Step
  <2>2. PICK r \in RewriteImageImportDirectory(Exe) :
          /\ image' = [image EXCEPT ![Exe] = r]
          /\ failures' = IF r.failed THEN failures + 1 ELSE failures
    BY <1>2 DEF RewriteExe
  <2>3. Exe \in Images
    BY RewritingAssumption
  <2> QED BY <2>1, <2>2, <2>3, ImageStep
<1>3. CASE Initialize /\ ~RewriteExe
  <2>1. image' = image /\ pc \notin {"running", "errorBox"}
    BY <1>3 DEF Initialize, CreateMapper, CreateMapperFails, OpenKey, OpenKeyFails,
                NoMoreEntries, EnumerationFails, OutOfMemory, WrongType, InsertValue, InsertFails,
                AddToDllPath, AddToDllPathFails, RegisterDllNotification,
                RegisterDllNotificationFails, GoOn, Step, Fails
  <2> QED BY <1>1, <2>1
<1>4. CASE \E i \in Images \ {Exe} : LoadDll(i)
  <2>1. PICK i \in Images \ {Exe} : LoadDll(i)
    BY <1>4
  <2>2. PICK r \in IF Place[i] = "elsewhere" THEN RewriteImageImportDirectory(i) ELSE {Untouched(i)} :
          /\ image' = [image EXCEPT ![i] = r]
          /\ failures' = IF r.failed THEN failures + 1 ELSE failures
    BY <2>1 DEF LoadDll, ShouldRewriteImportsOfDll
  <2>3. /\ pc = "running" /\ pc' \in {"running", "errorBox"}
        /\ UNCHANGED <<seen, changes, debug>>
    BY <2>1 DEF LoadDll
  <2> QED BY <2>1, <2>2, <2>3, ImageStep
<1>5. CASE \E i \in Images \ {Exe} : UnloadDll(i)
  <2>1. PICK i \in Images \ {Exe} : UnloadDll(i)
    BY <1>5
  <2>2. /\ image' = [image EXCEPT ![i] = NotLoaded]
        /\ UNCHANGED <<seen, changes, debug, failures, pc>>
    BY <2>1 DEF UnloadDll
  <2>3. Undisturbed' = Undisturbed /\ Undisturbed \in BOOLEAN
    BY <2>2 DEF Undisturbed
  <2>4. ASSUME NEW j \in Images, image'[j].loaded
        PROVE  pc' \in {"running", "errorBox"} /\ IsMapped(j, image[j], Undisturbed)'
    <3>1. image'[j] = image[j]
      BY <2>2, <2>4 DEF ImagesInv, NotLoaded
    <3>2. pc \in {"running", "errorBox"} /\ IsMapped(j, image[j], Undisturbed)
      BY <2>4, <3>1 DEF ImagesInv
    <3> QED BY <2>2, <2>3, <3>1, <3>2, MappedThen
  <2>5. image' = [j \in Images |-> image'[j]]
    BY <2>2 DEF ImagesInv
  <2> QED BY <2>4, <2>5 DEF ImagesInv
<1>6. CASE (\E v \in Values : SetValue(v)) \/ DeleteValue \/ DeleteKey
  <2>1. image' = image /\ pc \notin {"running", "errorBox"}
    BY <1>6 DEF SetValue, DeleteValue, DeleteKey, Changed
  <2> QED BY <1>1, <2>1
<1>7. CASE UNCHANGED vars
  <2>1. UNCHANGED <<image, pc, seen, failures, changes, debug>>
    BY <1>7 DEF vars
  <2>2. Undisturbed' = Undisturbed /\ Undisturbed \in BOOLEAN
    BY <2>1 DEF Undisturbed
  <2>3. ASSUME NEW j \in Images, image[j].loaded
        PROVE  IsMapped(j, image[j], Undisturbed)'
    BY <2>1, <2>2, <2>3, MappedThen DEF ImagesInv
  <2> QED BY <2>1, <2>3 DEF ImagesInv
<1> QED BY <1>2, <1>3, <1>4, <1>5, <1>6, <1>7 DEF Next

(* Every import of every loaded image is what the registry says of it, or  *)
(* as it was; none is left out when nothing failed, and the DLLs of        *)
(* Windows and of VxKex keep theirs, for all names, images and contents of *)
(* the key (dllrewrt.c 207-293, 401-468).                                  *)
THEOREM ImportsAreAlwaysMapped == Spec => []ImportsAreMapped
<1>1. Init => HoldsInv /\ ImagesInv
  BY RegistryInit, MapperInit, ImagesInit DEF HoldsInv
<1>2. ImagesInv => ImportsAreMapped
  BY DEF ImagesInv, ImportsAreMapped, IsMapped
<1>3. HoldsInv /\ ImagesInv /\ [Next]_vars => (HoldsInv /\ ImagesInv)'
  BY HoldsStep, ImagesStep
<1> QED BY <1>1, <1>2, <1>3, PTL DEF Spec

=============================================================================
