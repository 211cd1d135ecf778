--------------------------- MODULE DllPathProofs ---------------------------
(***************************************************************************)
(* Proofs about DllPath.                                                   *)
(*                                                                         *)
(* Wherever the duplicates are, the path only gets shorter until the new   *)
(* one is built, and a call that succeeds leaves its end where it was: the *)
(* new path does not fit only if the old one was shorter than what is      *)
(* prepended.                                                              *)
(*                                                                         *)
(* The directories keep their order because an entry is cut only if the    *)
(* same directory has one in front of it; that, in turn, needs to know     *)
(* that the search reports nothing but matches.                            *)
(***************************************************************************)
EXTENDS DllPath, SequenceTheorems, WellFoundedInduction, TLAPS

(* The buffer keeps its size and the NUL behind its last character.        *)
BufferInv ==
    /\ path0 \in Seq(ToSet(path0))
    /\ DOMAIN buf = 1 .. Len(path0) + 1
    /\ pc \in Steps \cup {"success"} => buf[Len(path0) + 1] = NUL

(* Until the new path is built, the path is no longer than before.         *)
LenInv ==
    /\ len \in Int
    /\ len <= Len(path0) + 1
    /\ pc \in Steps => len <= Len(path0)
    /\ pc = "success" => len = Len(path0)

(* The entry that is looked for and what is left of the path are strings.  *)
EntryInv ==
    /\ after.pos \in Int /\ after.len \in Int
    /\ cur.len \in Nat

Inv == BufferInv /\ LenInv /\ EntryInv

-----------------------------------------------------------------------------
LEMMA PathsAreSequences ==
    ASSUME NEW p \in Paths
    PROVE  p \in Seq(ToSet(p)) /\ Len(p) \in Nat
  <1>1. p \in Seq(ToSet(p))
    BY DllPathAssumption DEF DllPathAssumption
  <1> QED
    BY <1>1

LEMMA InitInv == Init => Inv
  <1> SUFFICES ASSUME Init PROVE Inv
    OBVIOUS
  <1>1. path0 \in Seq(ToSet(path0)) /\ Len(path0) \in Nat
    BY PathsAreSequences DEF Init
  <1>2. DOMAIN buf = 1 .. Len(path0) + 1 /\ buf[Len(path0) + 1] = NUL
    <2>1. path0 \in Seq(ToSet(path0) \cup {NUL})
      BY <1>1
    <2> QED
      BY <1>1, <2>1 DEF Init
  <1>3. BufferInv
    BY <1>1, <1>2 DEF BufferInv
  <1>4. LenInv
    BY <1>1 DEF Init, LenInv, Steps
  <1>5. EntryInv
    BY <1>1 DEF Init, EntryInv, Str
  <1> QED
    BY <1>3, <1>4, <1>5 DEF Inv

(* Steps that look at the path without changing it.                        *)
LEMMA LookingKeepsInv ==
    ASSUME Inv,
           Begin \/ BeginFails \/ ShortEnough \/ NoMoreEntries \/ NoDuplicate
    PROVE  Inv'
  <1>1. UNCHANGED <<path0, buf, len, after, cur>> /\ pc \in Steps
        /\ pc' \notin {"success"}
    BY DEF Begin, BeginFails, ShortEnough, NoMoreEntries, NoDuplicate, Steps
  <1>2. BufferInv'
    BY <1>1 DEF Inv, BufferInv
  <1>3. LenInv'
    BY <1>1 DEF Inv, LenInv
  <1>4. EntryInv'
    BY <1>1 DEF Inv, EntryInv
  <1> QED
    BY <1>2, <1>3, <1>4 DEF Inv

(* An entry ends before the semicolon, so it has no negative length.       *)
LEMMA NextEntryKeepsInv ==
    ASSUME Inv, NextEntry
    PROVE  Inv'
  <1>1. PICK n \in Semicolons : cur' = Str(after.pos, n - 1) /\ after' = Advance(after, n)
    BY DEF NextEntry
  <1>2. n \in Nat /\ n >= 1
    <2>1. n \in 1 .. after.len
      BY <1>1 DEF Semicolons
    <2> QED
      BY <2>1 DEF Inv, EntryInv
  <1>3. EntryInv'
    BY <1>1, <1>2 DEF Inv, EntryInv, Str, Advance
  <1>4. BufferInv' /\ LenInv'
    BY DEF NextEntry, Inv, BufferInv, LenInv, Steps
  <1> QED
    BY <1>3, <1>4 DEF Inv

(* Moving what follows a duplicate to the front writes no further than the *)
(* old end of the path, where there is a NUL already.                      *)
LEMMA CutDuplicateKeepsInv ==
    ASSUME Inv, CutDuplicate
    PROVE  Inv'
  <1>1. PICK found \in DOMAIN buf :
          /\ found + cur.len <= len + 1
          /\ buf' = Moved(found + cur.len, found, len + 1 - (found + cur.len))
    BY DEF CutDuplicate
  <1>2. /\ pc = "duplicate" /\ pc' = pc /\ len' = len - cur.len
        /\ UNCHANGED <<path0, after, cur>>
    BY DEF CutDuplicate
  <1>3. Len(path0) \in Nat
    BY DEF Inv, BufferInv
  <1>4. found \in Int /\ cur.len \in Nat /\ len \in Int /\ len <= Len(path0)
    BY <1>1, <1>2, <1>3 DEF Inv, BufferInv, LenInv, EntryInv, Steps
  <1>5. DOMAIN buf' = DOMAIN buf
    BY <1>1 DEF Moved
  <1>6. buf'[Len(path0) + 1] = NUL
    <2> DEFINE to == found
               n == len + 1 - (found + cur.len)
               last == Len(path0) + 1
    <2>1. last \in DOMAIN buf /\ buf[last] = NUL
      BY <1>2, <1>3 DEF Inv, BufferInv, Steps
    <2>2. last \notin to .. (to + n - 1)
      BY <1>3, <1>4
    <2> QED
      BY <1>1, <2>1, <2>2 DEF Moved
  <1>7. BufferInv'
    BY <1>2, <1>5, <1>6 DEF Inv, BufferInv
  <1>8. LenInv'
    BY <1>2, <1>3, <1>4 DEF Inv, LenInv, Steps
  <1>9. EntryInv'
    BY <1>2 DEF Inv, EntryInv
  <1> QED
    BY <1>7, <1>8, <1>9 DEF Inv

(* Cutting behind the end of the path makes it shorter too.                *)
LEMMA CutBehindTheEndKeepsInv ==
    ASSUME Inv, CutBehindTheEnd
    PROVE  Inv'
  <1>1. /\ pc = "duplicate" /\ pc' = "exception" /\ len' = len - cur.len
        /\ UNCHANGED <<path0, buf, after, cur>>
    BY DEF CutBehindTheEnd
  <1>2. Len(path0) \in Nat
    BY DEF Inv, BufferInv
  <1>3. BufferInv'
    BY <1>1 DEF Inv, BufferInv, Steps
  <1>4. LenInv'
    BY <1>1, <1>2 DEF Inv, LenInv, EntryInv, Steps
  <1>5. EntryInv'
    BY <1>1 DEF Inv, EntryInv
  <1> QED
    BY <1>3, <1>4, <1>5 DEF Inv

LEMMA NewDllPathHasALength ==
    ASSUME Inv
    PROVE  Len(NewDllPath) \in Nat
  <1> DEFINE S == ToSet(Prepend) \cup {Cell(buf, 1 + i - 1) : i \in 1 .. len}
  <1>1. Prepend \in Seq(S)
    <2>1. Prepend \in Seq(ToSet(Prepend))
      BY DllPathAssumption DEF DllPathAssumption
    <2> QED
      BY <2>1
  <1>2. Sub(buf, DllPathNow) \in Seq(S)
    <2>1. Sub(buf, DllPathNow) = [i \in 1 .. len |-> Cell(buf, 1 + i - 1)]
      BY DEF Sub, DllPathNow, Str
    <2>2. \E k \in Nat : 1 .. len = 1 .. k
      <3>1. CASE len \in Nat
        BY <3>1
      <3>2. CASE len \notin Nat
        <4>1. len \in Int /\ len < 0
          BY <3>2 DEF Inv, LenInv
        <4> QED
          BY <4>1
      <3> QED
        BY <3>1, <3>2
    <2>3. PICK k \in Nat : 1 .. len = 1 .. k
      BY <2>2
    <2>4. Sub(buf, DllPathNow) \in [1 .. k -> S]
      BY <2>1, <2>3
    <2> HIDE DEF S
    <2> QED
      BY <2>4
  <1> HIDE DEF S
  <1> QED
    BY <1>1, <1>2 DEF NewDllPath

(* The new path is cut off at the end of the buffer, or filled up to where *)
(* the old one ended.                                                      *)
LEMMA BuildKeepsInv ==
    ASSUME Inv, Build
    PROVE  Inv'
  <1>1. pc = "build" /\ UNCHANGED <<path0, after, cur>>
    BY DEF Build
  <1>2. Len(path0) \in Nat /\ MaximumLength = Len(path0) + 1
    BY DEF Inv, BufferInv, MaximumLength
  <1>3. PICK n \in Nat : n = Least(Len(NewDllPath), MaximumLength) /\ n <= Len(path0) + 1
    BY <1>2, NewDllPathHasALength DEF Least
  <1>4. CASE n > Len(path0)
    <2>1. len' = n /\ pc' = "internal error" /\ DOMAIN buf' = DOMAIN buf
      BY <1>3, <1>4 DEF Build
    <2>2. BufferInv'
      BY <1>1, <2>1 DEF Inv, BufferInv, Steps
    <2>3. LenInv'
      <3>1. path0' = path0 /\ len' = n /\ n <= Len(path0) + 1
        BY <1>1, <1>3, <2>1
      <3>2. pc' \notin Steps /\ pc' # "success"
        BY <2>1 DEF Steps
      <3> QED
        BY <1>2, <3>1, <3>2 DEF LenInv
    <2>4. EntryInv'
      BY <1>1 DEF Inv, EntryInv
    <2> QED
      BY <2>2, <2>3, <2>4 DEF Inv
  <1>5. CASE ~(n > Len(path0))
    <2> DEFINE last == Len(path0) + 1
               copied == [i \in DOMAIN buf |-> CASE i <= n -> NewDllPath[i]
                                                 [] i = n + 1 -> NUL
                                                 [] OTHER -> buf[i]]
    <2>1. /\ buf' = [i \in DOMAIN buf |-> IF i \in (n + 1) .. Len(path0) THEN Semicolon ELSE copied[i]]
          /\ len' = Len(path0)
          /\ pc' = "success"
      BY <1>3, <1>5 DEF Build
    <2>2. last \in DOMAIN buf /\ buf[last] = NUL
      BY <1>1, <1>2 DEF Inv, BufferInv, Steps
    <2>3. last \notin (n + 1) .. Len(path0) /\ ~(last <= n)
      BY <1>2, <1>3, <1>5
    <2>4. copied[last] = NUL
      BY <2>2, <2>3
    <2>5. buf'[last] = NUL /\ DOMAIN buf' = DOMAIN buf
      BY <2>1, <2>2, <2>3, <2>4
    <2> HIDE DEF last, copied
    <2>6. BufferInv'
      BY <1>1, <2>5 DEF Inv, BufferInv, last
    <2>7. LenInv'
      <3>1. path0' = path0 /\ len' = Len(path0) /\ pc' = "success"
        BY <1>1, <2>1
      <3> QED
        BY <1>2, <3>1 DEF LenInv, Steps
    <2>8. EntryInv'
      BY <1>1 DEF Inv, EntryInv
    <2> QED
      BY <2>6, <2>7, <2>8 DEF Inv
  <1> QED
    BY <1>4, <1>5

LEMMA NextKeepsInv == Inv /\ [Next]_vars => Inv'
  <1> SUFFICES ASSUME Inv, [Next]_vars PROVE Inv'
    OBVIOUS
  <1>1. CASE Begin \/ BeginFails \/ ShortEnough \/ NoMoreEntries \/ NoDuplicate
    BY <1>1, LookingKeepsInv
  <1>2. CASE NextEntry
    BY <1>2, NextEntryKeepsInv
  <1>3. CASE CutDuplicate
    BY <1>3, CutDuplicateKeepsInv
  <1>4. CASE CutBehindTheEnd
    BY <1>4, CutBehindTheEndKeepsInv
  <1>5. CASE Build
    BY <1>5, BuildKeepsInv
  <1>6. CASE UNCHANGED vars
    BY <1>6 DEF vars, Inv, BufferInv, LenInv, EntryInv
  <1> QED
    BY <1>1, <1>2, <1>3, <1>4, <1>5, <1>6 DEF Next

-----------------------------------------------------------------------------
(* What keeps the search order of a path.                                  *)

LEMMA EntryIsInside ==
  ASSUME NEW L \in Nat, NEW p, DOMAIN p = 1 .. L, NEW e \in Entries(p)
  PROVE  /\ e = Str(e.pos, e.len) /\ IsEntry(p, e)
         /\ e.pos \in 1 .. L /\ e.len \in 1 .. L
         /\ e.pos + e.len <= L + 1
<1>1. PICK i \in 1 .. L, n \in 1 .. L : e = Str(i, n)
  BY DEF Entries
<1>2. IsEntry(p, e)
  BY DEF Entries
<1>3. e.pos = i /\ e.len = n
  BY <1>1 DEF Str
<1>4. i + n - 1 \in DOMAIN p
  BY <1>2, <1>3 DEF IsEntry, EndOf
<1> QED BY <1>1, <1>2, <1>3, <1>4

LEMMA EntryInside ==
  ASSUME NEW L \in Nat, NEW p, DOMAIN p = 1 .. L, NEW i \in 1 .. L, NEW n \in 1 .. L,
         IsEntry(p, Str(i, n))
  PROVE  Str(i, n) \in Entries(p)
BY DEF Entries

(* The first directory is found before or where the second is.             *)
Ahead(p, d, e) ==
  \E i \in Entries(p) : /\ Directory(p, i) = d
                        /\ \A j \in Entries(p) : Directory(p, j) = e => i.pos <= j.pos

LEMMA OrderIsAhead ==
  ASSUME NEW p
  PROVE  SearchOrder(p)
           = {x \in Directories(p) \X Directories(p) : Ahead(p, x[1], x[2])}
<1> DEFINE FoundAt(d) == {e \in Entries(p) : Directory(p, e) = d}
           First(x) == \E i \in FoundAt(x[1]) : \A j \in FoundAt(x[2]) : i.pos <= j.pos
<1>1. ASSUME NEW x PROVE First(x) <=> Ahead(p, x[1], x[2])
  BY DEF Ahead
<1>2. SearchOrder(p) = {x \in Directories(p) \X Directories(p) : First(x)}
  BY DEF SearchOrder, Directories
<1> HIDE DEF First
<1> QED BY <1>1, <1>2

(* Two paths have the same search order when the entries of one are those  *)
(* of the other, in the same order, but for some that come again.          *)
LEMMA OrderOfPart ==
  ASSUME NEW p, NEW q, NEW E, E \subseteq Entries(p), NEW m \in [E -> Entries(q)],
         \A e \in Entries(p) : e.pos \in Int,
         \A x \in Entries(q) : \E e \in E : m[e] = x,
         \A e \in E : Directory(q, m[e]) = Directory(p, e),
         \A e, g \in E : e.pos <= g.pos <=> m[e].pos <= m[g].pos,
         \A g \in Entries(p) \ E :
           \E e \in E : Directory(p, e) = Directory(p, g) /\ e.pos <= g.pos
  PROVE  SearchOrder(q) = SearchOrder(p)
<1>1. Directories(q) = Directories(p)
  BY DEF Directories
<1>2. ASSUME NEW d, NEW e
      PROVE  Ahead(p, d, e) <=> Ahead(q, d, e)
  <2>1. ASSUME Ahead(p, d, e) PROVE Ahead(q, d, e)
    <3>1. PICK i \in Entries(p) :
            /\ Directory(p, i) = d
            /\ \A j \in Entries(p) : Directory(p, j) = e => i.pos <= j.pos
      BY <2>1 DEF Ahead
    <3>2. PICK g \in E : Directory(p, g) = d /\ g.pos <= i.pos
      BY <3>1
    <3>3. \A j \in E : Directory(p, j) = e => g.pos <= j.pos
      BY <3>1, <3>2
    <3>4. ASSUME NEW x \in Entries(q), Directory(q, x) = e
          PROVE  m[g].pos <= x.pos
      <4>1. PICK j \in E : m[j] = x
        OBVIOUS
      <4> QED BY <3>3, <3>4, <4>1
    <3> QED BY <3>2, <3>4 DEF Ahead
  <2>2. ASSUME Ahead(q, d, e) PROVE Ahead(p, d, e)
    <3>1. PICK x \in Entries(q) :
            /\ Directory(q, x) = d
            /\ \A y \in Entries(q) : Directory(q, y) = e => x.pos <= y.pos
      BY <2>2 DEF Ahead
    <3>2. PICK i \in E : m[i] = x
      OBVIOUS
    <3>3. ASSUME NEW j \in Entries(p), Directory(p, j) = e
          PROVE  i.pos <= j.pos
      <4>1. PICK g \in E : Directory(p, g) = e /\ g.pos <= j.pos
        BY <3>3
      <4>2. i.pos <= g.pos
        BY <3>1, <3>2, <4>1
      <4> QED BY <4>1, <4>2
    <3> QED BY <3>1, <3>2, <3>3 DEF Ahead
  <2> QED BY <2>1, <2>2
<1> QED BY <1>1, <1>2, OrderIsAhead

LEMMA MovedBack ==
  ASSUME NEW i \in Int, NEW k \in Int, NEW x \in Int, NEW n \in Int,
         i = (x - k) - 1 \/ i = (x - k) + n
  PROVE  i + k = x - 1 \/ i + k = x + n
OBVIOUS

LEMMA MovedInside ==
  ASSUME NEW i \in Int, NEW k \in Int, NEW x \in Int, NEW n \in Int, NEW f \in Int,
         NEW L \in Int, i \in 1 .. n, k >= 1, f >= 1, x >= f + k + 1, x + n <= L + 1
  PROVE  /\ (x - k) + i - 1 \in f .. (L - k) /\ x + i - 1 \in 1 .. L
         /\ ((x - k) + i - 1) + k = x + i - 1
OBVIOUS

(* An entry where it is after k characters from f on were cut out.         *)
Shifted(e, f, k) == IF e.pos < f THEN e ELSE Str(e.pos - k, e.len)

(* The path q is the path p without the k characters from f on, an entry   *)
(* that is there before at c.                                              *)
IsCut(p, q, L, f, k, c) ==
  /\ L \in Nat /\ DOMAIN p = 1 .. L
  /\ f \in Nat /\ k \in Nat /\ f >= 2 /\ k >= 1 /\ f + k <= L + 1
  /\ p[f - 1] = Semicolon
  /\ f + k <= L => p[f + k] = Semicolon
  /\ \A i \in f .. (f + k - 1) : p[i] # Semicolon
  /\ c \in Entries(p) /\ c.pos < f /\ Directory(p, c) = Directory(p, Str(f, k))
  /\ q = [i \in 1 .. (L - k) |-> IF i < f THEN p[i] ELSE p[i + k]]

LEMMA CutKeepsOrder ==
  ASSUME NEW p, NEW q, NEW L, NEW f, NEW k, NEW c, IsCut(p, q, L, f, k, c)
  PROVE  SearchOrder(q) = SearchOrder(p)
<1> USE DEF IsCut
<1> DEFINE d == Str(f, k)
           E == Entries(p) \ {d}
           m == [e \in E |-> Shifted(e, f, k)]
<1>q. DOMAIN q = 1 .. (L - k) /\ L - k \in Nat
  OBVIOUS
<1>1. ASSUME NEW e \in E, e.pos < f
      PROVE  /\ e \in Entries(q)
             /\ Directory(q, e) = Directory(p, e)
  <2>1. /\ e = Str(e.pos, e.len) /\ IsEntry(p, e)
        /\ e.pos \in 1 .. L /\ e.len \in 1 .. L
        /\ e.pos + e.len <= L + 1
    BY EntryIsInside
  <2>2. e.pos + e.len <= f - 1
    <3>1. ~(f - 1 \in e.pos .. (e.pos + e.len - 1))
      BY <2>1 DEF IsEntry, EndOf
    <3> QED BY <1>1, <2>1, <3>1
  <2>3. \A i \in 1 .. (f - 1) : q[i] = p[i]
    OBVIOUS
  <2>4. IsEntry(q, e)
    <3>1. \A i \in DOMAIN q \cap {e.pos - 1, EndOf(e)} : q[i] = Semicolon
      <4> SUFFICES ASSUME NEW i \in DOMAIN q, i = e.pos - 1 \/ i = e.pos + e.len
                   PROVE  q[i] = Semicolon
        BY DEF EndOf
      <4>1. i \in 1 .. (f - 1) /\ i \in DOMAIN p
        BY <1>q, <1>1, <2>1, <2>2
      <4> QED BY <2>1, <2>3, <4>1 DEF IsEntry, EndOf
    <3>2. ASSUME NEW i \in e.pos .. (EndOf(e) - 1)
          PROVE  i \in DOMAIN q /\ q[i] # Semicolon
      <4>1. i \in 1 .. (f - 1) /\ i \in DOMAIN q
        BY <1>q, <1>1, <2>1, <2>2 DEF EndOf
      <4> QED BY <2>1, <2>3, <4>1 DEF IsEntry
    <3> QED BY <3>1, <3>2 DEF IsEntry
  <2>5. e.pos \in 1 .. (L - k) /\ e.len \in 1 .. (L - k)
    BY <1>1, <2>1, <2>2
  <2>6. e \in Entries(q)
    BY <1>q, <2>1, <2>4, <2>5, EntryInside
  <2>7. Sub(q, e) = Sub(p, e)
    <3>1. \A i \in 1 .. e.len : Cell(q, e.pos + i - 1) = Cell(p, e.pos + i - 1)
      BY <1>q, <2>1, <2>2, <2>3 DEF Cell
    <3> QED BY <3>1 DEF Sub
  <2> QED BY <2>6, <2>7 DEF Directory
<1>2. ASSUME NEW e \in E, ~(e.pos < f)
      PROVE  /\ e.pos >= f + k + 1
             /\ Str(e.pos - k, e.len) \in Entries(q)
             /\ Directory(q, Str(e.pos - k, e.len)) = Directory(p, e)
  <2>1. /\ e = Str(e.pos, e.len) /\ IsEntry(p, e)
        /\ e.pos \in 1 .. L /\ e.len \in 1 .. L
        /\ e.pos + e.len <= L + 1
    BY EntryIsInside
  <2>2. e.pos # f
    <3> SUFFICES ASSUME e.pos = f PROVE FALSE
      OBVIOUS
    <3>1. e.len # k
      BY <2>1
    <3>2. CASE e.len < k
      <4>1. f + e.len \in DOMAIN p /\ p[f + e.len] # Semicolon
        BY <2>1, <3>2
      <4> QED BY <2>1, <4>1 DEF IsEntry, EndOf
    <3>3. CASE e.len > k
      <4>1. f + k \in e.pos .. (e.pos + e.len - 1) /\ f + k <= L
        BY <2>1, <3>3
      <4> QED BY <2>1, <4>1 DEF IsEntry, EndOf
    <3> QED BY <2>1, <3>1, <3>2, <3>3
  <2>3. ~(e.pos \in (f + 1) .. (f + k))
    <3> SUFFICES ASSUME e.pos \in (f + 1) .. (f + k) PROVE FALSE
      OBVIOUS
    <3>1. e.pos - 1 \in f .. (f + k - 1) /\ e.pos - 1 \in DOMAIN p
      BY <2>1
    <3> QED BY <2>1, <3>1 DEF IsEntry
  <2>4. e.pos >= f + k + 1
    BY <1>2, <2>1, <2>2, <2>3
  <2>5. \A i \in f .. (L - k) : q[i] = p[i + k]
    OBVIOUS
  <2> DEFINE g == Str(e.pos - k, e.len)
  <2>6. g.pos = e.pos - k /\ g.len = e.len
    BY DEF Str
  <2> HIDE DEF g
  <2>7. IsEntry(q, g)
    <3>1. \A i \in DOMAIN q \cap {g.pos - 1, EndOf(g)} : q[i] = Semicolon
      <4> SUFFICES ASSUME NEW i \in DOMAIN q, i = g.pos - 1 \/ i = g.pos + g.len
                   PROVE  q[i] = Semicolon
        BY DEF EndOf
      <4>1. i + k \in DOMAIN p /\ i \in f .. (L - k)
        BY <1>q, <2>1, <2>4, <2>6, SMTT(30)
      <4>2. i + k = e.pos - 1 \/ i + k = e.pos + e.len
        <5>1. i \in Int /\ k \in Int /\ e.pos \in Int /\ e.len \in Int
          BY <1>q, <2>1
        <5>2. i = (e.pos - k) - 1 \/ i = (e.pos - k) + e.len
          BY <2>6
        <5> DEFINE x == e.pos
                   n == e.len
        <5>3. x \in Int /\ n \in Int /\ (i = (x - k) - 1 \/ i = (x - k) + n)
          BY <5>1, <5>2
        <5> HIDE DEF x, n
        <5>4. i + k = x - 1 \/ i + k = x + n
          BY <5>1, <5>3, MovedBack
        <5> QED BY <5>4 DEF x, n
      <4>3. p[i + k] = Semicolon
        BY <2>1, <4>1, <4>2 DEF IsEntry, EndOf
      <4> QED BY <2>5, <4>1, <4>3
    <3>2. ASSUME NEW i \in g.pos .. (EndOf(g) - 1)
          PROVE  i \in DOMAIN q /\ q[i] # Semicolon
      <4>1. i \in f .. (L - k) /\ i + k \in e.pos .. (EndOf(e) - 1)
        BY <2>1, <2>4, <2>6 DEF EndOf
      <4> QED BY <1>q, <2>1, <2>5, <4>1 DEF IsEntry
    <3> QED BY <3>1, <3>2 DEF IsEntry
  <2>8. e.pos - k \in 1 .. (L - k) /\ e.len \in 1 .. (L - k)
    BY <2>1, <2>4
  <2>9. g \in Entries(q)
    BY <1>q, <2>7, <2>8, EntryInside DEF g
  <2>10. Sub(q, g) = Sub(p, e)
    <3>1. \A i \in 1 .. e.len : Cell(q, g.pos + i - 1) = Cell(p, e.pos + i - 1)
      <4> SUFFICES ASSUME NEW i \in 1 .. e.len
                   PROVE  Cell(q, g.pos + i - 1) = Cell(p, e.pos + i - 1)
        OBVIOUS
      <4>1. /\ g.pos + i - 1 \in f .. (L - k) /\ e.pos + i - 1 \in DOMAIN p
            /\ (g.pos + i - 1) + k = e.pos + i - 1
        <5>1. /\ i \in Int /\ k \in Int /\ e.pos \in Int /\ e.len \in Int /\ f \in Int /\ L \in Int
              /\ k >= 1 /\ f >= 1 /\ e.pos + e.len <= L + 1
          BY <2>1
        <5>2. /\ (e.pos - k) + i - 1 \in f .. (L - k) /\ e.pos + i - 1 \in 1 .. L
              /\ ((e.pos - k) + i - 1) + k = e.pos + i - 1
          BY <2>4, <5>1, MovedInside, SMTT(30)
        <5> QED BY <2>6, <5>2
      <4> QED BY <1>q, <2>5, <4>1 DEF Cell
    <3> QED BY <2>6, <3>1 DEF Sub
  <2> QED BY <2>4, <2>9, <2>10 DEF Directory, g
<1>3. ASSUME NEW x \in Entries(q)
      PROVE  \E e \in E : m[e] = x
  <2>1. /\ x = Str(x.pos, x.len) /\ IsEntry(q, x)
        /\ x.pos \in 1 .. (L - k) /\ x.len \in 1 .. (L - k)
        /\ x.pos + x.len <= (L - k) + 1
    BY <1>q, EntryIsInside
  <2>2. CASE x.pos < f
    <3>2. x.pos + x.len <= f - 1
      <4> SUFFICES ASSUME ~(x.pos + x.len <= f - 1) PROVE FALSE
        OBVIOUS
      <4>1. f - 1 \in x.pos .. (EndOf(x) - 1)
        BY <2>1, <2>2 DEF EndOf
      <4>2. f - 1 \in DOMAIN q /\ q[f - 1] # Semicolon
        BY <2>1, <4>1 DEF IsEntry
      <4>3. f - 1 <= L - k => q[f - 1] = Semicolon
        OBVIOUS
      <4> QED BY <1>q, <4>2, <4>3
    <3>3. \A i \in 1 .. (f - 1) : i \in DOMAIN p /\ (i \in DOMAIN q => q[i] = p[i])
      OBVIOUS
    <3>4. IsEntry(p, x)
      <4>1. \A i \in DOMAIN p \cap {x.pos - 1, EndOf(x)} : p[i] = Semicolon
        <5> SUFFICES ASSUME NEW i \in DOMAIN p, i = x.pos - 1 \/ i = x.pos + x.len
                     PROVE  p[i] = Semicolon
          BY DEF EndOf
        <5>1. i \in 1 .. (f - 1)
          BY <2>1, <2>2, <3>2
        <5>2. CASE i \in DOMAIN q
          BY <2>1, <3>3, <5>1, <5>2 DEF IsEntry, EndOf
        <5>3. CASE i \notin DOMAIN q
          <6>1. i = x.pos + x.len /\ i > L - k
            BY <1>q, <2>1, <5>1, <5>3
          <6>2. i = f - 1
            BY <6>1, <3>2, <2>1
          <6> QED BY <6>2
        <5> QED BY <5>2, <5>3
      <4>2. \A i \in x.pos .. (EndOf(x) - 1) : i \in DOMAIN p /\ p[i] # Semicolon
        <5> SUFFICES ASSUME NEW i \in x.pos .. (EndOf(x) - 1)
                     PROVE  i \in DOMAIN p /\ p[i] # Semicolon
          OBVIOUS
        <5>1. i \in DOMAIN q /\ q[i] # Semicolon
          BY <2>1 DEF IsEntry
        <5>2. i \in 1 .. (f - 1)
          BY <2>1, <3>2 DEF EndOf
        <5> QED BY <3>3, <5>1, <5>2
      <4> QED BY <4>1, <4>2 DEF IsEntry
    <3>5. x \in Entries(p)
      <4>1. x.pos \in 1 .. L /\ x.len \in 1 .. L
        BY <2>1
      <4> QED BY <2>1, <3>4, <4>1, EntryInside
    <3>6. x # d
      BY <2>2 DEF Str
    <3>7. m[x] = x
      BY <2>2, <3>5, <3>6 DEF Shifted
    <3> QED BY <3>5, <3>6, <3>7
  <2>3. CASE ~(x.pos < f)
    <3>1. \A i \in f .. (L - k) : q[i] = p[i + k]
      OBVIOUS
    <3>2. x.pos # f
      <4>1. x.pos = f => f + k <= L /\ q[x.pos] = p[f + k]
        BY <2>1, <3>1
      <4>2. q[x.pos] # Semicolon
        <5>1. x.pos \in x.pos .. (EndOf(x) - 1)
          BY <2>1 DEF EndOf
        <5> QED BY <2>1, <5>1 DEF IsEntry
      <4> QED BY <4>1, <4>2
    <3>3. x.pos >= f + 1
      BY <2>1, <2>3, <3>2
    <3> DEFINE e == Str(x.pos + k, x.len)
    <3>4. e.pos = x.pos + k /\ e.len = x.len
      BY DEF Str
    <3> HIDE DEF e
    <3>5. IsEntry(p, e)
      <4>1. \A i \in DOMAIN p \cap {e.pos - 1, EndOf(e)} : p[i] = Semicolon
        <5> SUFFICES ASSUME NEW i \in DOMAIN p, i = e.pos - 1 \/ i = e.pos + e.len
                     PROVE  p[i] = Semicolon
          BY DEF EndOf
        <5>1. i - k \in f .. (L - k)
          BY <2>1, <3>3, <3>4, SMTT(30)
        <5>2. i - k = x.pos - 1 \/ i - k = x.pos + x.len
          BY <2>1, <3>4
        <5>3. q[i - k] = Semicolon
          BY <1>q, <2>1, <5>1, <5>2 DEF IsEntry, EndOf
        <5>4. q[i - k] = p[(i - k) + k]
          BY <3>1, <5>1
        <5> QED BY <5>3, <5>4
      <4>2. ASSUME NEW i \in e.pos .. (EndOf(e) - 1)
            PROVE  i \in DOMAIN p /\ p[i] # Semicolon
        <5>1. i - k \in x.pos .. (EndOf(x) - 1) /\ i \in DOMAIN p /\ i - k \in f .. (L - k)
          BY <2>1, <3>3, <3>4 DEF EndOf
        <5>2. q[i - k] = p[(i - k) + k] /\ q[i - k] # Semicolon
          BY <2>1, <3>1, <5>1 DEF IsEntry
        <5> QED BY <5>1, <5>2
      <4> QED BY <4>1, <4>2 DEF IsEntry
    <3>6. e \in Entries(p)
      <4>1. x.pos + k \in 1 .. L /\ x.len \in 1 .. L
        BY <2>1
      <4> QED BY <3>5, <4>1, EntryInside DEF e
    <3>7. e # d
      <4>1. d.pos = f
        BY DEF Str
      <4> QED BY <2>1, <3>3, <3>4, <4>1
    <3>8. m[e] = x
      <4>1. m[e] = Shifted(e, f, k)
        BY <3>6, <3>7
      <4>2. ~(e.pos < f) /\ e.pos - k = x.pos
        BY <2>1, <3>3, <3>4
      <4> QED BY <2>1, <3>4, <4>1, <4>2 DEF Shifted
    <3> QED BY <3>6, <3>7, <3>8
  <2> QED BY <2>2, <2>3
<1>4. \A e \in Entries(p) : e.pos \in Int
  BY EntryIsInside
<1>5. m \in [E -> Entries(q)] /\ \A e \in E : Directory(q, m[e]) = Directory(p, e)
  BY <1>1, <1>2 DEF Shifted
<1>6. ASSUME NEW e \in E, NEW g \in E
      PROVE  e.pos <= g.pos <=> m[e].pos <= m[g].pos
  <2>1. ASSUME NEW x \in E
        PROVE  \/ x.pos < f /\ m[x].pos = x.pos
               \/ x.pos >= f + k + 1 /\ m[x].pos = x.pos - k
    <3>1. x.pos \in Int
      BY <1>4
    <3>2. CASE x.pos < f
      BY <3>2 DEF Shifted
    <3>3. CASE ~(x.pos < f)
      BY <1>2, <3>3 DEF Shifted, Str
    <3> QED BY <3>2, <3>3
  <2>2. e.pos \in Int /\ g.pos \in Int /\ f \in Nat /\ k \in Nat
    BY <1>4
  <2> HIDE DEF m, E, IsCut
  <2> QED BY <2>1, <2>2
<1>7. ASSUME NEW g \in Entries(p) \ E
      PROVE  \E e \in E : Directory(p, e) = Directory(p, g) /\ e.pos <= g.pos
  <2>1. g = d /\ d.pos = f /\ c \in E
    BY DEF Str
  <2>2. c.pos \in Int
    BY <1>4
  <2> QED BY <2>1, <2>2
<1> HIDE DEF m, E
<1>8. E \subseteq Entries(p)
  BY DEF E
<1> QED BY <1>3, <1>4, <1>5, <1>6, <1>7, <1>8, OrderOfPart, SMTT(30)

(* So does adding semicolons at its end.                                   *)
LEMMA PadKeepsOrder ==
  ASSUME NEW L \in Nat, NEW p, DOMAIN p = 1 .. L, NEW R \in Nat, L <= R,
         NEW q, DOMAIN q = 1 .. R,
         \A i \in 1 .. R : q[i] = IF i <= L THEN p[i] ELSE Semicolon
  PROVE  SearchOrder(q) = SearchOrder(p)
<1>1. ASSUME NEW e \in Entries(p)
      PROVE  e \in Entries(q) /\ Directory(q, e) = Directory(p, e)
  <2>1. /\ e = Str(e.pos, e.len) /\ IsEntry(p, e)
        /\ e.pos \in 1 .. L /\ e.len \in 1 .. L
        /\ e.pos + e.len <= L + 1
    BY EntryIsInside
  <2>2. IsEntry(q, e)
    <3>1. \A i \in DOMAIN q \cap {e.pos - 1, EndOf(e)} : q[i] = Semicolon
      <4> SUFFICES ASSUME NEW i \in DOMAIN q, i = e.pos - 1 \/ i = e.pos + e.len
                   PROVE  q[i] = Semicolon
        BY DEF EndOf
      <4>1. i <= L => p[i] = Semicolon
        BY <2>1 DEF IsEntry, EndOf
      <4> QED BY <4>1
    <3>2. ASSUME NEW i \in e.pos .. (EndOf(e) - 1)
          PROVE  i \in DOMAIN q /\ q[i] # Semicolon
      <4>1. i \in 1 .. L /\ p[i] # Semicolon
        BY <2>1 DEF IsEntry
      <4> QED BY <4>1
    <3> QED BY <3>1, <3>2 DEF IsEntry
  <2>3. e.pos \in 1 .. R /\ e.len \in 1 .. R
    BY <2>1
  <2>4. Sub(q, e) = Sub(p, e)
    <3>1. \A i \in 1 .. e.len : Cell(q, e.pos + i - 1) = Cell(p, e.pos + i - 1)
      <4> SUFFICES ASSUME NEW i \in 1 .. e.len
                   PROVE  Cell(q, e.pos + i - 1) = Cell(p, e.pos + i - 1)
        OBVIOUS
      <4>1. e.pos + i - 1 \in 1 .. L
        BY <2>1
      <4> QED BY <4>1 DEF Cell
    <3> QED BY <3>1 DEF Sub
  <2> QED BY <2>1, <2>2, <2>3, <2>4, EntryInside DEF Directory
<1>2. ASSUME NEW x \in Entries(q)
      PROVE  x \in Entries(p)
  <2>1. /\ x = Str(x.pos, x.len) /\ IsEntry(q, x)
        /\ x.pos \in 1 .. R /\ x.len \in 1 .. R
        /\ x.pos + x.len <= R + 1
    BY EntryIsInside
  <2>2. \A i \in x.pos .. (EndOf(x) - 1) : i \in 1 .. L /\ p[i] # Semicolon
    <3> SUFFICES ASSUME NEW i \in x.pos .. (EndOf(x) - 1)
                 PROVE  i \in 1 .. L /\ p[i] # Semicolon
      OBVIOUS
    <3>1. i \in 1 .. R /\ q[i] # Semicolon
      BY <2>1 DEF IsEntry
    <3> QED BY <3>1
  <2>3. x.pos \in x.pos .. (EndOf(x) - 1) /\ x.pos + x.len - 1 \in x.pos .. (EndOf(x) - 1)
    BY <2>1 DEF EndOf
  <2>4. x.pos \in 1 .. L /\ x.pos + x.len - 1 \in 1 .. L
    BY <2>2, <2>3
  <2>5. \A i \in DOMAIN p \cap {x.pos - 1, EndOf(x)} : p[i] = Semicolon
    <3> SUFFICES ASSUME NEW i \in DOMAIN p, i = x.pos - 1 \/ i = EndOf(x)
                 PROVE  p[i] = Semicolon
      OBVIOUS
    <3>1. i \in 1 .. R /\ q[i] = p[i]
      OBVIOUS
    <3> QED BY <2>1, <3>1 DEF IsEntry
  <2>6. IsEntry(p, x)
    BY <2>2, <2>5 DEF IsEntry
  <2>7. x.len \in 1 .. L
    BY <2>1, <2>4
  <2> QED BY <2>1, <2>4, <2>6, <2>7, EntryInside
<1> DEFINE E == Entries(p)
           m == [e \in E |-> e]
<1>3. m \in [E -> Entries(q)] /\ \A e \in E : m[e] = e
  BY <1>1
<1>4. \A e \in E : e.pos \in Int
  BY EntryIsInside
<1> HIDE DEF m
<1> QED BY <1>1, <1>2, <1>3, <1>4, OrderOfPart

-----------------------------------------------------------------------------
LEMMA LeastNumber ==
  ASSUME NEW T, T \subseteq Nat, T # {}
  PROVE  \E x \in T : \A y \in T : x <= y
<1> DEFINE R == OpToRel(<, Nat)
<1>1. R = {ss \in Nat \X Nat : ss[1] < ss[2]}
  BY DEF OpToRel
<1>2. IsWellFoundedOn(R, Nat)
  BY NatLessThanWellFounded, Zenon
<1>3. PICK x \in T : \A y \in T : ~(<<y, x>> \in R)
  BY <1>2, WFMin
<1>4. \A y \in T : <<y, x>> \in Nat \X Nat
  OBVIOUS
<1>5. \A y \in T : ~(y < x)
  BY <1>1, <1>3, <1>4
<1> QED BY <1>5

(* A search that either stops at a position or goes on behind it, and what *)
(* it comes to from each position.                                         *)
IsSearch(lo, hi, stop, next) ==
  /\ lo \in Nat /\ hi \in Nat
  /\ \A h \in lo .. hi : h \notin stop => next[h] \in (h + 1) .. hi
Solves(f, lo, hi, stop, val, next) ==
  f = [h \in lo .. hi |-> IF h \in stop THEN val[h] ELSE f[next[h]]]

LEMMA SearchExists ==
  ASSUME NEW lo, NEW hi, NEW stop, NEW val, NEW next, IsSearch(lo, hi, stop, next)
  PROVE  \E f : Solves(f, lo, hi, stop, val, next)
<1> USE DEF IsSearch, Solves
<1> DEFINE Is(f, l) == f = [h \in l .. hi |-> IF h \in stop THEN val[h] ELSE f[next[h]]]
           Bad == {d \in Nat : d <= hi + 1 - lo /\ ~\E f : Is(f, hi + 1 - d)}
<1>1. CASE hi + 1 - lo \in Nat
  <2>1. Bad = {}
    <3> SUFFICES ASSUME Bad # {} PROVE FALSE
      OBVIOUS
    <3>1. PICK d \in Bad : \A e \in Bad : d <= e
      <4>1. Bad \subseteq Nat
        OBVIOUS
      <4> HIDE DEF Bad
      <4> QED BY <4>1, LeastNumber
    <3> DEFINE l == hi + 1 - d
    <3>2. d \in Nat /\ l \in Nat /\ lo <= l /\ ~\E f : Is(f, l)
      BY <1>1
    <3>3. CASE d = 0
      <4> DEFINE g == [h \in l .. hi |-> val[h]]
      <4>1. l .. hi = {}
        BY <3>2, <3>3
      <4>2. Is(g, l)
        BY <4>1
      <4> QED BY <3>2, <4>2
    <3>4. CASE d # 0
      <4>1. d - 1 \in Nat /\ d - 1 \notin Bad /\ hi + 1 - (d - 1) = l + 1
        <5>1. d - 1 \in Nat /\ hi + 1 - (d - 1) = l + 1 /\ ~(d <= d - 1)
          BY <3>2, <3>4
        <5> QED BY <3>1, <5>1
      <4>2. \E f : Is(f, l + 1)
        <5>1. d - 1 <= hi + 1 - lo
          BY <3>2, <1>1
        <5> QED BY <4>1, <5>1
      <4> HIDE DEF Is
      <4>3. PICK f : Is(f, l + 1)
        BY <4>2
      <4> USE DEF Is
      <4> HIDE DEF l, Bad
      <4>4. l <= hi
        BY <3>2, <3>4 DEF l
      <4> DEFINE g == [h \in l .. hi |-> IF h = l THEN IF l \in stop THEN val[l] ELSE f[next[l]]
                                         ELSE f[h]]
      <4>5. ASSUME NEW h \in l .. hi
            PROVE  g[h] = IF h \in stop THEN val[h] ELSE g[next[h]]
        <5>1. h \in lo .. hi
          BY <3>2
        <5>2. h \notin stop => next[h] \in (h + 1) .. hi
          BY <5>1
        <5>3. h \notin stop => next[h] \in (l + 1) .. hi /\ g[next[h]] = f[next[h]]
          BY <3>2, <5>2
        <5>4. CASE h = l
          BY <5>3, <5>4
        <5>5. CASE h # l
          <6>1. h \in (l + 1) .. hi
            BY <3>2, <5>5
          <6>2. f[h] = IF h \in stop THEN val[h] ELSE f[next[h]]
            BY <4>3, <6>1
          <6> QED BY <5>3, <5>5, <6>2
        <5> QED BY <5>4, <5>5
      <4>6. Is(g, l)
        BY <4>5
      <4> HIDE DEF g
      <4> QED BY <3>2, <4>6 DEF l
    <3> QED BY <3>3, <3>4
  <2>2. hi + 1 - (hi + 1 - lo) = lo /\ hi + 1 - lo <= hi + 1 - lo
    BY <1>1
  <2>3. hi + 1 - lo \notin Bad
    <3> HIDE DEF Bad
    <3> QED BY <2>1
  <2>4. \E f : Is(f, lo)
    BY <1>1, <2>2, <2>3
  <2> QED BY <2>4
<1>2. CASE hi + 1 - lo \notin Nat
  <2> DEFINE g == [h \in lo .. hi |-> val[h]]
  <2>1. lo .. hi = {}
    BY <1>2
  <2>2. Is(g, lo)
    BY <2>1
  <2> QED BY <2>2
<1> QED BY <1>1, <1>2

LEMMA SearchEnds ==
  ASSUME NEW lo, NEW hi, NEW stop, NEW val, NEW next, IsSearch(lo, hi, stop, next),
         NEW f, Solves(f, lo, hi, stop, val, next),
         NEW S, \A h \in lo .. hi : h \in stop => val[h] \in S,
         NEW i \in lo .. hi
  PROVE  f[i] \in S
<1> USE DEF IsSearch, Solves
<1> DEFINE Bad == {d \in Nat : \E h \in lo .. hi : d = hi - h /\ f[h] \notin S}
<1>0. \A h \in lo .. hi : f[h] = IF h \in stop THEN val[h] ELSE f[next[h]]
  <2> DEFINE g == [h \in lo .. hi |-> IF h \in stop THEN val[h] ELSE f[next[h]]]
  <2>1. \A h \in lo .. hi : g[h] = IF h \in stop THEN val[h] ELSE f[next[h]]
    OBVIOUS
  <2>2. f = g
    OBVIOUS
  <2> HIDE DEF g
  <2> QED BY <2>1, <2>2
<1>1. SUFFICES ASSUME Bad # {} PROVE FALSE
  <2>1. hi - i \in Nat
    OBVIOUS
  <2> QED BY <2>1
<1>2. PICK d \in Bad : \A e \in Bad : d <= e
  <2>1. Bad \subseteq Nat
    OBVIOUS
  <2> HIDE DEF Bad
  <2> QED BY <1>1, <2>1, LeastNumber
<1>3. PICK h \in lo .. hi : d = hi - h /\ f[h] \notin S
  OBVIOUS
<1>4. h \notin stop /\ f[h] = f[next[h]] /\ next[h] \in (h + 1) .. hi
  BY <1>0, <1>3
<1>5. next[h] \in lo .. hi /\ hi - next[h] \in Nat /\ ~(d <= hi - next[h])
  BY <1>3, <1>4
<1>6. hi - next[h] \in Bad
  BY <1>3, <1>4, <1>5
<1> HIDE DEF Bad
<1> QED BY <1>2, <1>5, <1>6

LEMMA LeastFrom ==
  ASSUME NEW lo \in Nat, NEW T, T # {}, \A x \in T : x \in Nat /\ lo <= x
  PROVE  \E x \in T : \A y \in T : x <= y
BY LeastNumber

-----------------------------------------------------------------------------
(* The first position that holds the first character of the needle.        *)
LEMMA FirstFromIs ==
  ASSUME NEW mem, NEW h \in Nat, h # None, NEW last \in Int, NEW first, NEW b
  PROVE  LET s == FirstFrom(mem, h, last, first, b)
         IN \/ s = None
            \/ /\ s # None /\ s \in Nat /\ h <= s /\ (s = h \/ s <= last)
               /\ Case(Cell(mem, s), b) = first
<1> DEFINE T == {i \in {h} \cup ((h + 1) .. last) : Case(Cell(mem, i), b) = first}
           s == FirstFrom(mem, h, last, first, b)
<1>1. s = IF T = {} THEN None ELSE CHOOSE i \in T : \A j \in T : i <= j
  BY DEF FirstFrom
<1>2. CASE T = {}
  BY <1>1, <1>2
<1>3. CASE T # {}
  <2>1. \A i \in T : i \in Nat /\ h <= i /\ (i = h \/ i <= last) /\ Case(Cell(mem, i), b) = first
    OBVIOUS
  <2>2. s \in T
    <3> HIDE DEF T
    <3>1. \E i \in T : \A j \in T : i <= j
      BY <1>3, <2>1, LeastNumber
    <3> QED BY <1>1, <1>3, <3>1
  <2> HIDE DEF T, s
  <2>3. s # None
    BY <2>1, <2>2 DEF None
  <2> QED BY <2>1, <2>2, <2>3 DEF s
<1> QED BY <1>2, <1>3

(* How far two strings are equal.                                          *)
LEMMA EqualFromIs ==
  ASSUME NEW mem, NEW h \in Int, NEW n \in Int, NEW limit \in Nat, NEW b
  PROVE  LET k == EqualFrom(mem, h, n, limit, b)
         IN /\ k \in 0 .. limit
            /\ \A j \in 0 .. (k - 1) : Case(Cell(mem, h + j), b) = Case(Cell(mem, n + j), b)
<1> DEFINE Same(j) == Case(Cell(mem, h + j), b) = Case(Cell(mem, n + j), b)
           T == {k \in 0 .. limit : k = limit \/ ~Same(k)}
           k == EqualFrom(mem, h, n, limit, b)
<1>1. k = CHOOSE i \in 0 .. limit : (\A j \in 0 .. (i - 1) : Same(j)) /\ (i = limit \/ ~Same(i))
  BY DEF EqualFrom
<1> HIDE DEF Same, k
<1>2. PICK i \in T : \A j \in T : i <= j
  <2>1. limit \in T /\ T \subseteq Nat
    OBVIOUS
  <2> HIDE DEF T
  <2> QED BY <2>1, LeastNumber
<1>3. \A j \in 0 .. (i - 1) : Same(j)
  <2> SUFFICES ASSUME NEW j \in 0 .. (i - 1) PROVE Same(j)
    OBVIOUS
  <2>1. j \in 0 .. limit /\ ~(i <= j)
    OBVIOUS
  <2>2. j \notin T
    <3> HIDE DEF T
    <3> QED BY <1>2, <2>1
  <2> QED BY <2>1, <2>2
<1>4. \E l \in 0 .. limit : (\A j \in 0 .. (l - 1) : Same(j)) /\ (l = limit \/ ~Same(l))
  BY <1>2, <1>3
<1>5. k \in 0 .. limit /\ \A j \in 0 .. (k - 1) : Same(j)
  BY <1>1, <1>4
<1> QED BY <1>5 DEF Same, k

(* Where KexRtlFindUnicodeSubstring may say that a needle is: in the       *)
(* haystack, where the same characters are, but perhaps for their case.    *)
Matches(mem, haystack, needle, b) ==
  {s \in Nat : /\ needle.len # 0 /\ haystack.pos <= s /\ s + needle.len <= EndOf(haystack)
               /\ \A i \in 0 .. (needle.len - 1) :
                    Case(Cell(mem, s + i), b) = Case(Cell(mem, needle.pos + i), b)}

(* KexRtlFindUnicodeSubstring reports nothing, or a place inside of the    *)
(* haystack where the needle is, perhaps in another case, although it      *)
(* counts the needle in bytes, reads behind the haystack and does not go   *)
(* back after part of a match (kexrtl.c 423-501).                          *)
THEOREM FindUnicodeSubstringFinds ==
  ASSUME NEW mem, NEW haystack, NEW needle, NEW b \in BOOLEAN,
         haystack.pos \in Nat, haystack.pos # None, haystack.len \in Nat,
         needle.pos \in Nat, needle.len \in Nat
  PROVE  LET found == FindUnicodeSubstring(mem, haystack, needle, b)
         IN found = None \/ found \in Matches(mem, haystack, needle, b)
<1> DEFINE end == EndOf(haystack)
           first == Case(Cell(mem, needle.pos), b)
           need == Needed(needle)
           lo == haystack.pos
           hi == end + 2
           S(h) == FirstFrom(mem, h, end - needle.len, first, b)
           Room(h) == end - (S(h) + 1)
           K(h) == EqualFrom(mem, S(h) + 1, needle.pos + 1,
                             IF need <= Room(h) THEN need ELSE Room(h) + 1, b)
           stop == {h \in lo .. hi : \/ h >= end \/ S(h) = None
                                     \/ K(h) = need /\ K(h) <= Room(h)}
           val == [h \in lo .. hi |-> IF h >= end \/ S(h) = None THEN None ELSE S(h)]
           next == [h \in lo .. hi |-> Restart(S(h), K(h), Room(h), b)]
           Good == {None} \cup Matches(mem, haystack, needle, b)
           Find == CHOOSE f : f = [h \in lo .. hi |->
                     CASE h >= end \/ S(h) = None -> None
                       [] h < end /\ S(h) # None /\ K(h) = need /\ K(h) <= Room(h) -> S(h)
                       [] OTHER -> f[Restart(S(h), K(h), Room(h), b)]]
<1>1. FindUnicodeSubstring(mem, haystack, needle, b)
        = IF needle.len > haystack.len \/ needle.len = 0 THEN None ELSE Find[lo]
  BY DEF FindUnicodeSubstring
<1>2. lo \in Nat /\ end \in Nat /\ hi \in Nat /\ lo <= end /\ lo # 0
  BY DEF EndOf, None
<1>3. SUFFICES ASSUME needle.len \in Nat \ {0} PROVE Find[lo] \in Good
  BY <1>1
<1>4. need \in Nat /\ need >= 1 /\ need >= needle.len - 1
  BY <1>3 DEF Needed
<1> HIDE DEF end, need, first
<1>5. ASSUME NEW h \in lo .. hi, h < end, S(h) # None
      PROVE  /\ S(h) \in Nat /\ h <= S(h) /\ S(h) < end
             /\ Case(Cell(mem, S(h)), b) = first
             /\ Room(h) \in Nat
             /\ K(h) \in 0 .. (IF need <= Room(h) THEN need ELSE Room(h) + 1)
             /\ \A j \in 0 .. (K(h) - 1) :
                  Case(Cell(mem, S(h) + 1 + j), b) = Case(Cell(mem, needle.pos + 1 + j), b)
  <2>1. h \in Nat /\ h # None /\ end - needle.len \in Int
    BY <1>2, <1>3 DEF None
  <2>2. /\ S(h) \in Nat /\ h <= S(h) /\ (S(h) = h \/ S(h) <= end - needle.len)
        /\ Case(Cell(mem, S(h)), b) = first
    BY <1>5, <2>1, FirstFromIs
  <2> HIDE DEF S
  <2>3. S(h) < end /\ Room(h) \in Nat
    BY <1>2, <1>3, <1>5, <2>1, <2>2
  <2> DEFINE limit == IF need <= Room(h) THEN need ELSE Room(h) + 1
  <2>4. limit \in Nat /\ S(h) + 1 \in Int /\ needle.pos + 1 \in Int
    BY <1>4, <2>2, <2>3
  <2>5. K(h) = EqualFrom(mem, S(h) + 1, needle.pos + 1, limit, b)
    OBVIOUS
  <2> HIDE DEF K, Room, limit
  <2>6. /\ K(h) \in 0 .. limit
        /\ \A j \in 0 .. (K(h) - 1) :
             Case(Cell(mem, (S(h) + 1) + j), b) = Case(Cell(mem, (needle.pos + 1) + j), b)
    BY <2>4, <2>5, EqualFromIs
  <2> QED BY <2>2, <2>3, <2>6 DEF limit
<1> HIDE DEF S, Room, K
<1>6. ASSUME NEW h \in lo .. hi, h \notin stop
      PROVE  next[h] \in (h + 1) .. hi
  <2>1. h < end /\ S(h) # None /\ ~(K(h) = need /\ K(h) <= Room(h))
    BY <1>2, <1>6
  <2>2. Room(h) = end - (S(h) + 1)
    BY DEF Room
  <2>3. /\ S(h) \in Nat /\ h <= S(h) /\ S(h) < end /\ Room(h) \in Nat
        /\ K(h) \in 0 .. (IF need <= Room(h) THEN need ELSE Room(h) + 1)
    BY <1>5, <2>1
  <2>4. K(h) \in Nat /\ K(h) <= Room(h) + 1
    BY <1>4, <2>3
  <2>5. next[h] = IF b \/ K(h) > Room(h) THEN S(h) + 1 + K(h) ELSE S(h) + 2 + K(h)
    BY DEF Restart
  <2> QED BY <1>2, <2>2, <2>3, <2>4, <2>5
<1>7. ASSUME NEW h \in lo .. hi, h \in stop
      PROVE  val[h] \in Good
  <2>1. CASE h >= end \/ S(h) = None
    BY <2>1
  <2>2. CASE ~(h >= end \/ S(h) = None)
    <3>1. val[h] = S(h) /\ K(h) = need /\ K(h) <= Room(h) /\ h < end
      BY <1>2, <1>7, <2>2
    <3>2. Room(h) = end - (S(h) + 1)
      BY DEF Room
    <3>3. /\ S(h) \in Nat /\ h <= S(h)
          /\ Case(Cell(mem, S(h)), b) = first
          /\ \A j \in 0 .. (need - 1) :
               Case(Cell(mem, S(h) + 1 + j), b) = Case(Cell(mem, needle.pos + 1 + j), b)
      BY <1>5, <2>2, <3>1
    <3>4. haystack.pos <= S(h) /\ S(h) + needle.len <= end
      BY <1>2, <1>3, <1>4, <3>1, <3>2, <3>3
    <3>5. ASSUME NEW i \in 0 .. (needle.len - 1)
          PROVE  Case(Cell(mem, S(h) + i), b) = Case(Cell(mem, needle.pos + i), b)
      <4>1. CASE i = 0
        BY <3>3, <4>1 DEF first
      <4>2. CASE i # 0
        <5>1. i - 1 \in 0 .. (need - 1)
          BY <1>3, <1>4, <4>2
        <5>2. S(h) + 1 + (i - 1) = S(h) + i /\ needle.pos + 1 + (i - 1) = needle.pos + i
          BY <3>3
        <5> QED BY <3>3, <5>1, <5>2
      <4> QED BY <4>1, <4>2
    <3>6. S(h) \in Matches(mem, haystack, needle, b)
      BY <1>3, <3>3, <3>4, <3>5 DEF Matches, end
    <3> QED BY <3>1, <3>6
  <2> QED BY <2>1, <2>2
<1>8. ASSUME NEW f
      PROVE  [h \in lo .. hi |->
                     CASE h >= end \/ S(h) = None -> None
                       [] h < end /\ S(h) # None /\ K(h) = need /\ K(h) <= Room(h) -> S(h)
                       [] OTHER -> f[Restart(S(h), K(h), Room(h), b)]]
             = [h \in lo .. hi |-> IF h \in stop THEN val[h] ELSE f[next[h]]]
  <2> SUFFICES ASSUME NEW h \in lo .. hi
               PROVE  (CASE h >= end \/ S(h) = None -> None
                       [] h < end /\ S(h) # None /\ K(h) = need /\ K(h) <= Room(h) -> S(h)
                       [] OTHER -> f[Restart(S(h), K(h), Room(h), b)])
                      = IF h \in stop THEN val[h] ELSE f[next[h]]
    OBVIOUS
  <2>1. h \in Int /\ end \in Int
    BY <1>2
  <2> QED BY <2>1
<1>9. \E f : f = [h \in lo .. hi |-> IF h \in stop THEN val[h] ELSE f[next[h]]]
  <2> HIDE DEF stop, val, next, hi, lo
  <2>1. \A h \in lo .. hi : h \notin stop => next[h] \in (h + 1) .. hi
    BY <1>6
  <2>2. lo \in Nat /\ hi \in Nat
    BY <1>2
  <2> HIDE DEF S, K, Room
  <2>3. IsSearch(lo, hi, stop, next)
    BY <2>1, <2>2 DEF IsSearch
  <2>4. PICK f : Solves(f, lo, hi, stop, val, next)
    BY <2>3, SearchExists
  <2> QED BY <2>4 DEF Solves
<1>10. Find = [h \in lo .. hi |-> IF h \in stop THEN val[h] ELSE Find[next[h]]]
  <2> DEFINE G(f) == [h \in lo .. hi |-> IF h \in stop THEN val[h] ELSE f[next[h]]]
  <2>1. Find = CHOOSE f : f = G(f)
    BY <1>8, Zenon
  <2>2. \E f : f = G(f)
    BY <1>9, Zenon
  <2> HIDE DEF G, Find
  <2>3. Find = G(Find)
    BY <2>1, <2>2
  <2> QED BY <2>3 DEF G
<1> HIDE DEF Find, stop, val, next, Good
<1>11. lo \in lo .. hi
  BY <1>2
<1> HIDE DEF lo, hi
<1>12. /\ \A h \in lo .. hi : h \notin stop => next[h] \in (h + 1) .. hi
       /\ \A h \in lo .. hi : h \in stop => val[h] \in Good
       /\ lo \in Nat /\ hi \in Nat
  BY <1>2, <1>6, <1>7
<1>13. IsSearch(lo, hi, stop, next) /\ Solves(Find, lo, hi, stop, val, next)
  BY <1>10, <1>12, Zenon DEF IsSearch, Solves
<1> QED BY <1>11, <1>12, <1>13, SearchEnds

-----------------------------------------------------------------------------
(* A path behind another string, in a buffer.                              *)
Behind(F, mem, n) ==
  [i \in 1 .. (Len(F) + n) |-> IF i <= Len(F) THEN F[i] ELSE Cell(mem, i - Len(F))]

(* What is left of the path begins behind a semicolon, and before that is  *)
(* the entry that is looked for.                                           *)
PlaceInv ==
  /\ pc \in Steps =>
       /\ len \in Nat
       /\ after.pos \in Nat \ {0} /\ after.len \in Nat
       /\ after.pos + after.len = Len(path0) + 1
       /\ after.pos # 1 => buf[after.pos - 1] = Semicolon
  /\ pc = "duplicate" =>
       /\ cur.pos \in Nat \ {0} /\ cur.len \in Nat
       /\ cur.pos + cur.len + 1 = after.pos
       /\ cur.pos # 1 => buf[cur.pos - 1] = Semicolon
       /\ \A i \in cur.pos .. (EndOf(cur) - 1) : buf[i] # Semicolon

OrderInv ==
  /\ pc \in Steps \cup {"append", "not found"} =>
       /\ SearchOrder(Path) = SearchOrder(path0)
       /\ SearchOrder(Prepend \o Path) = SearchOrder(Prepend \o path0)
  /\ pc = "success" => SearchOrder(Path) = SearchOrder(Prepend \o path0)

LEMMA SemicolonHasNoCase ==
  ASSUME NEW c
  PROVE  Case(c, TRUE) = Semicolon <=> c = Semicolon
<1>1. Semicolon \notin {"a", "b", "A", "B"}
  BY Zenon DEF Semicolon
<1> QED BY <1>1 DEF Case, ToUpper

LEMMA PrependEnds ==
  /\ Len(Prepend) \in Nat /\ Prepend \in Seq(ToSet(Prepend))
  /\ Len(Prepend) # 0 /\ Prepend[Len(Prepend)] = Semicolon
<1>1. Prepend \in Seq(ToSet(Prepend)) /\ Prepend # <<>>
  BY DllPathAssumption DEF DllPathAssumption
<1>2. Last(Prepend) = Semicolon
  BY DllPathAssumption, Zenon DEF DllPathAssumption, Semicolon
<1>3. Len(Prepend) \in Nat /\ Len(Prepend) # 0
  BY <1>1
<1> QED BY <1>1, <1>2, <1>3 DEF Last

LEMMA PathIsBehind ==
  ASSUME NEW mem, NEW size \in Nat
  PROVE  LET path == Sub(mem, Str(1, size))
         IN /\ path = Behind(<<>>, mem, size)
            /\ Prepend \o path = Behind(Prepend, mem, size)
            /\ Len(Prepend \o path) = Len(Prepend) + size
<1> DEFINE path == Sub(mem, Str(1, size))
<1>1. path = [i \in 1 .. size |-> Cell(mem, 1 + i - 1)]
  BY DEF Sub, Str
<1> HIDE DEF path
<1>2. \A i \in 1 .. size : 1 + i - 1 = i
  OBVIOUS
<1>3. path = [i \in 1 .. size |-> Cell(mem, i)]
  BY <1>1, <1>2
<1> DEFINE S == ToSet(Prepend) \cup {Cell(mem, i) : i \in 1 .. size}
<1>4. Prepend \in Seq(S) /\ path \in Seq(S)
  <2>1. Prepend \in Seq(ToSet(Prepend))
    BY PrependEnds
  <2>2. path \in [1 .. size -> S]
    BY <1>3
  <2> HIDE DEF S
  <2>3. ToSet(Prepend) \subseteq S
    BY DEF S
  <2> QED BY <2>1, <2>2, <2>3
<1> HIDE DEF S
<1>5. Len(path) = size
  BY <1>3, <1>4
<1>6. /\ Len(Prepend \o path) = Len(Prepend) + size
      /\ Prepend \o path \in Seq(S)
      /\ \A i \in 1 .. (Len(Prepend) + size) :
           (Prepend \o path)[i] = IF i <= Len(Prepend) THEN Prepend[i]
                                  ELSE path[i - Len(Prepend)]
  BY <1>4, <1>5, ConcatProperties
<1>7. Prepend \o path = Behind(Prepend, mem, size)
  <2>1. DOMAIN (Prepend \o path) = 1 .. (Len(Prepend) + size)
    BY <1>6, LenProperties
  <2>2. ASSUME NEW i \in 1 .. (Len(Prepend) + size), ~(i <= Len(Prepend))
        PROVE  path[i - Len(Prepend)] = Cell(mem, i - Len(Prepend))
    <3>1. i - Len(Prepend) \in 1 .. size
      BY <2>2, PrependEnds
    <3> QED BY <1>3, <3>1
  <2>3. \A i \in 1 .. (Len(Prepend) + size) :
          (Prepend \o path)[i] = Behind(Prepend, mem, size)[i]
    BY <1>6, <2>2 DEF Behind
  <2>4. Prepend \o path \in [1 .. (Len(Prepend) + size) -> S]
    BY <1>6, LenProperties
  <2> QED BY <2>3, <2>4 DEF Behind
<1>8. path = Behind(<<>>, mem, size)
  <2>1. Len(<<>>) = 0
    OBVIOUS
  <2>2. \A i \in 1 .. size : ~(i <= 0) /\ i - 0 = i
    OBVIOUS
  <2>3. Behind(<<>>, mem, size) = [i \in 1 .. (0 + size) |-> IF i <= 0 THEN <<>>[i] ELSE Cell(mem, i - 0)]
    BY <2>1 DEF Behind
  <2>4. 0 + size = size
    OBVIOUS
  <2> QED BY <1>3, <2>2, <2>3, <2>4
<1> QED BY <1>6, <1>7, <1>8 DEF path

(* A duplicate that is cut out: where it is, and what remains.             *)
LEMMA CutDoes ==
  ASSUME Inv, PlaceInv, CutDuplicate
  PROVE  \E f \in Nat :
           /\ f >= after.pos /\ cur.len >= 1 /\ f + cur.len <= len + 1
           /\ len <= Len(path0) /\ DOMAIN buf = 1 .. Len(path0) + 1
           /\ len' = len - cur.len /\ len' \in Nat
           /\ buf[f - 1] = Semicolon
           /\ f + cur.len <= len => buf[f + cur.len] = Semicolon
           /\ \A i \in 0 .. (cur.len - 1) :
                Case(buf[f + i], TRUE) = Case(buf[cur.pos + i], TRUE)
           /\ DOMAIN buf' = DOMAIN buf
           /\ \A i \in 1 .. (f - 1) : buf'[i] = buf[i]
           /\ \A i \in f .. (len - cur.len) : buf'[i] = buf[i + cur.len]
<1>1. PICK f \in DOMAIN buf \cap {Found} :
        /\ IsWholeEntry(f) /\ f + cur.len <= len + 1
        /\ buf' = Moved(f + cur.len, f, len + 1 - (f + cur.len))
  BY DEF CutDuplicate
<1>2. pc = "duplicate" /\ len' = len - cur.len /\ pc \in Steps
  BY DEF CutDuplicate, Steps
<1>3. /\ len \in Nat /\ len <= Len(path0) /\ Len(path0) \in Nat
      /\ DOMAIN buf = 1 .. Len(path0) + 1
      /\ after.pos \in Nat \ {0} /\ after.len \in Nat
      /\ after.pos + after.len = Len(path0) + 1
      /\ cur.pos \in Nat \ {0} /\ cur.len \in Nat
      /\ cur.pos + cur.len + 1 = after.pos
  BY <1>2 DEF Inv, BufferInv, LenInv, PlaceInv
<1>4. f \in Nat /\ f # None
  BY <1>1, <1>3 DEF None
<1>5. f \in Matches(buf, after, cur, TRUE)
  <2>1. after.pos # None
    BY <1>3 DEF None
  <2>2. TRUE \in BOOLEAN
    OBVIOUS
  <2>3. f = FindUnicodeSubstring(buf, after, cur, TRUE)
    BY <1>1 DEF Found
  <2>4. /\ after.pos \in Nat /\ after.len \in Nat /\ cur.pos \in Nat /\ cur.len \in Nat
    BY <1>3
  <2> QED BY <1>4, <2>1, <2>2, <2>3, <2>4, FindUnicodeSubstringFinds
<1>6. /\ cur.len # 0 /\ after.pos <= f /\ f + cur.len <= EndOf(after)
      /\ \A i \in 0 .. (cur.len - 1) :
           Case(Cell(buf, f + i), TRUE) = Case(Cell(buf, cur.pos + i), TRUE)
  BY <1>5 DEF Matches
<1> DEFINE N == Len(path0)
           k == cur.len
<1>a. /\ f \in Nat /\ f >= 2 /\ k \in Nat /\ k >= 1 /\ f + k <= len + 1
      /\ len \in Nat /\ len <= N /\ N \in Nat /\ DOMAIN buf = 1 .. N + 1
      /\ cur.pos \in Nat /\ cur.pos >= 1 /\ cur.pos + k < f
  BY <1>1, <1>3, <1>4, <1>6, SMTT(30)
<1> HIDE DEF N, k
<1>7. f - 1 \in DOMAIN buf /\ buf[f - 1] = Semicolon
  <2>1. f - 1 \in DOMAIN buf
    BY <1>a
  <2> QED BY <1>1, <2>1 DEF IsWholeEntry, Cell
<1>8. f + cur.len <= len => buf[f + cur.len] = Semicolon
  <2> SUFFICES ASSUME f + cur.len <= len PROVE buf[f + cur.len] = Semicolon
    OBVIOUS
  <2>1. f + cur.len \in DOMAIN buf /\ f + cur.len # len + 1
    BY <1>a DEF k
  <2> QED BY <1>1, <2>1 DEF IsWholeEntry, Cell
<1>9. ASSUME NEW i \in 0 .. (cur.len - 1)
      PROVE  Case(buf[f + i], TRUE) = Case(buf[cur.pos + i], TRUE)
  <2>0. i \in 0 .. (k - 1)
    BY DEF k
  <2>1. f + i \in DOMAIN buf /\ cur.pos + i \in DOMAIN buf
    BY <1>a, <2>0
  <2> QED BY <1>6, <2>1 DEF Cell
<1> DEFINE n == len + 1 - (f + k)
<1>10. DOMAIN buf' = DOMAIN buf
       /\ \A i \in DOMAIN buf : buf'[i] = IF i \in f .. (f + n - 1) THEN buf[i - f + (f + k)]
                                          ELSE IF i = f + n THEN NUL ELSE buf[i]
  <2> DEFINE new(i) == CASE i \in f .. (f + n - 1) -> buf[i - f + (f + k)]
                         [] i = f + n -> NUL
                         [] OTHER -> buf[i]
  <2>1. buf' = [i \in DOMAIN buf |-> new(i)]
    BY <1>1 DEF Moved, k
  <2>2. ASSUME NEW i
        PROVE  new(i) = IF i \in f .. (f + n - 1) THEN buf[i - f + (f + k)]
                        ELSE IF i = f + n THEN NUL ELSE buf[i]
    <3>1. f + n \notin f .. (f + n - 1)
      BY <1>a
    <3> QED BY <3>1
  <2> HIDE DEF new
  <2> QED BY <2>1, <2>2
<1>11. n \in Nat /\ f + n - 1 = len - k
  BY <1>a
<1>12. ASSUME NEW i \in 1 .. (f - 1) PROVE buf'[i] = buf[i]
  <2>1. i \in DOMAIN buf /\ i \notin f .. (f + n - 1) /\ i # f + n
    BY <1>a, <1>11
  <2> HIDE DEF n
  <2> QED BY <1>10, <2>1
<1>13. ASSUME NEW i \in f .. (len - k) PROVE buf'[i] = buf[i + k]
  <2>1. i \in DOMAIN buf /\ i \in f .. (f + n - 1) /\ i - f + (f + k) = i + k
    BY <1>a, <1>11
  <2>2. buf'[i] = buf[i - f + (f + k)]
    <3> HIDE DEF n
    <3> QED BY <1>10, <2>1
  <2> QED BY <2>1, <2>2
<1>14. len' = len - k /\ len' \in Nat /\ f >= after.pos /\ f + k <= len + 1
  BY <1>2, <1>6, <1>a DEF k
<1> QED
  BY <1>3, <1>7, <1>8, <1>9, <1>10, <1>12, <1>13, <1>14, <1>a DEF k

LEMMA CutKeepsOrderBehind ==
  ASSUME Inv, PlaceInv, CutDuplicate,
         NEW F, Len(F) \in Nat, Len(F) # 0 => F[Len(F)] = Semicolon
  PROVE  SearchOrder(Behind(F, buf', len')) = SearchOrder(Behind(F, buf, len))
<1> DEFINE m == Len(F)
           k == cur.len
           p == Behind(F, buf, len)
           q == Behind(F, buf', len')
           L == m + len
<1>1. PICK f \in Nat :
        /\ f >= after.pos /\ k >= 1 /\ f + k <= len + 1
        /\ len <= Len(path0) /\ DOMAIN buf = 1 .. Len(path0) + 1
        /\ len' = len - k /\ len' \in Nat
        /\ buf[f - 1] = Semicolon
        /\ f + k <= len => buf[f + k] = Semicolon
        /\ \A i \in 0 .. (k - 1) : Case(buf[f + i], TRUE) = Case(buf[cur.pos + i], TRUE)
        /\ DOMAIN buf' = DOMAIN buf
        /\ \A i \in 1 .. (f - 1) : buf'[i] = buf[i]
        /\ \A i \in f .. (len - k) : buf'[i] = buf[i + k]
  BY CutDoes
<1>2. pc = "duplicate" /\ pc \in Steps
  BY DEF CutDuplicate, Steps
<1>3. /\ len \in Nat /\ Len(path0) \in Nat /\ m \in Nat /\ L \in Nat
      /\ cur.pos \in Nat \ {0} /\ k \in Nat
      /\ cur.pos + k + 1 = after.pos
      /\ after.pos \in Nat
      /\ cur.pos # 1 => buf[cur.pos - 1] = Semicolon
      /\ buf[after.pos - 1] = Semicolon
      /\ \A i \in cur.pos .. (cur.pos + k - 1) : buf[i] # Semicolon
  <2>1. /\ len \in Nat /\ Len(path0) \in Nat /\ m \in Nat
        /\ cur.pos \in Nat \ {0} /\ k \in Nat
        /\ cur.pos + k + 1 = after.pos
        /\ after.pos \in Nat
    BY <1>2 DEF Inv, BufferInv, PlaceInv
  <2>2. after.pos # 1 /\ L \in Nat
    BY <2>1
  <2>3. /\ cur.pos # 1 => buf[cur.pos - 1] = Semicolon
        /\ buf[after.pos - 1] = Semicolon
    BY <1>2, <2>2 DEF PlaceInv
  <2>4. \A i \in cur.pos .. (cur.pos + k - 1) : buf[i] # Semicolon
    BY <1>2 DEF PlaceInv, EndOf
  <2> QED BY <2>1, <2>2, <2>3, <2>4
<1>4. /\ DOMAIN p = 1 .. L /\ DOMAIN q = 1 .. (L - k)
      /\ \A i \in 1 .. L : p[i] = IF i <= m THEN F[i] ELSE buf[i - m]
      /\ \A i \in 1 .. (L - k) : q[i] = IF i <= m THEN F[i] ELSE buf'[i - m]
  <2>1. m + (len - k) = L - k
    BY <1>3
  <2>2. DOMAIN p = 1 .. L /\ DOMAIN q = 1 .. (L - k)
    BY <1>1, <2>1 DEF Behind
  <2>3. ASSUME NEW i \in 1 .. L
        PROVE  p[i] = IF i <= m THEN F[i] ELSE buf[i - m]
    <3>0. i \in 1 .. (m + len) /\ m \in Nat /\ len \in Nat /\ len <= Len(path0) /\ Len(path0) \in Nat
      BY <1>1, <1>3
    <3> HIDE DEF m, L
    <3>1. ~(i <= m) => i - m \in 1 .. Len(path0) + 1
      BY <3>0
    <3>2. ~(i <= m) => i - m \in DOMAIN buf
      BY <1>1, <3>1
    <3> USE DEF m, L
    <3> QED BY <3>2 DEF Behind, Cell
  <2>4. ASSUME NEW i \in 1 .. (L - k)
        PROVE  q[i] = IF i <= m THEN F[i] ELSE buf'[i - m]
    <3>0. /\ i \in 1 .. (m + (len - k)) /\ m \in Nat /\ len \in Nat /\ k \in Nat
          /\ len <= Len(path0) /\ Len(path0) \in Nat
      BY <1>1, <1>3, <2>1
    <3> HIDE DEF m, k, L
    <3>1. ~(i <= m) => i - m \in 1 .. Len(path0) + 1
      BY <3>0
    <3>2. ~(i <= m) => i - m \in DOMAIN buf'
      BY <1>1, <3>1
    <3> USE DEF m, k, L
    <3> QED BY <1>1, <2>1, <3>2 DEF Behind, Cell
  <2> QED BY <2>2, <2>3, <2>4
<1> DEFINE c == Str(m + cur.pos, k)
           g == m + f
<1>5. c.pos = m + cur.pos /\ c.len = k /\ EndOf(c) = m + cur.pos + k
  BY DEF Str, EndOf
<1>h. m \in Nat /\ k \in Nat /\ f \in Nat /\ cur.pos \in Nat /\ cur.pos >= 1
      /\ k >= 1 /\ cur.pos + k < f /\ f + k <= len + 1 /\ L = m + len
      /\ len \in Nat /\ L \in Nat /\ after.pos = cur.pos + k + 1
  BY <1>1, <1>3, SMTT(30)
<1> HIDE DEF c, p, q, L, m, k
<1>6. q = [i \in 1 .. (L - k) |-> IF i < g THEN p[i] ELSE p[i + k]]
  <2>1. ASSUME NEW i \in 1 .. (L - k)
        PROVE  q[i] = IF i < g THEN p[i] ELSE p[i + k]
    <3>1. i \in 1 .. L
      BY <1>h
    <3>2. CASE i <= m
      <4>1. i < g
        BY <1>h, <3>2
      <4> QED BY <1>4, <3>1, <3>2, <4>1
    <3>3. CASE ~(i <= m) /\ i < g
      <4>1. i - m \in 1 .. (f - 1)
        BY <1>h, <3>3
      <4> QED BY <1>1, <1>4, <3>1, <3>3, <4>1
    <3>4. CASE ~(i < g)
      <4>1. /\ i - m \in f .. (len - k) /\ i + k \in 1 .. L /\ ~(i <= m) /\ ~(i + k <= m)
            /\ (i + k) - m = (i - m) + k
        BY <1>h, <3>4
      <4>2. q[i] = buf'[i - m] /\ buf'[i - m] = buf[(i - m) + k]
        BY <1>1, <1>4, <4>1
      <4>3. p[i + k] = buf[(i + k) - m]
        BY <1>4, <4>1
      <4> QED BY <3>4, <4>1, <4>2, <4>3
    <3> QED BY <3>2, <3>3, <3>4
  <2>2. q = [i \in 1 .. (L - k) |-> q[i]]
    BY <1>4 DEF q, Behind
  <2> QED BY <2>1, <2>2
<1>7. ASSUME NEW i \in 1 .. len
      PROVE  m + i \in 1 .. L /\ p[m + i] = buf[i]
  <2>1. m + i \in 1 .. L /\ ~(m + i <= m) /\ (m + i) - m = i
    BY <1>h
  <2> QED BY <1>4, <2>1
<1>8. IsEntry(p, c)
  <2>1. \A i \in DOMAIN p \cap {c.pos - 1, EndOf(c)} : p[i] = Semicolon
    <3> SUFFICES ASSUME NEW i \in DOMAIN p, i = c.pos - 1 \/ i = EndOf(c)
                 PROVE  p[i] = Semicolon
      OBVIOUS
    <3>0. i \in 1 .. L /\ (i = m + cur.pos - 1 \/ i = m + cur.pos + k)
      BY <1>4, <1>5, <1>h
    <3>1. CASE i = m + cur.pos + k
      <4>1. cur.pos + k \in 1 .. len /\ cur.pos + k = after.pos - 1 /\ i = m + (cur.pos + k)
        BY <1>h, <3>1
      <4> QED BY <1>3, <1>7, <4>1
    <3>2. CASE i = m + cur.pos - 1 /\ cur.pos # 1
      <4>1. cur.pos - 1 \in 1 .. len /\ i = m + (cur.pos - 1)
        BY <1>h, <3>2
      <4> QED BY <1>3, <1>7, <3>2, <4>1
    <3>3. CASE i = m + cur.pos - 1 /\ cur.pos = 1
      <4>1. i = m /\ i <= m /\ m # 0
        BY <1>h, <3>0, <3>3
      <4> QED BY <1>4, <3>0, <4>1 DEF m
    <3> QED BY <3>0, <3>1, <3>2, <3>3
  <2>2. ASSUME NEW i \in c.pos .. (EndOf(c) - 1)
        PROVE  i \in DOMAIN p /\ p[i] # Semicolon
    <3>1. i - m \in cur.pos .. (cur.pos + k - 1) /\ i - m \in 1 .. len /\ m + (i - m) = i
      BY <1>5, <1>h
    <3>2. i \in 1 .. L /\ p[i] = buf[i - m]
      BY <1>7, <3>1
    <3> QED BY <1>3, <1>4, <3>1, <3>2
  <2> QED BY <2>1, <2>2 DEF IsEntry
<1>9. c \in Entries(p)
  <2>1. m + cur.pos \in 1 .. L /\ k \in 1 .. L
    BY <1>h
  <2> QED BY <1>3, <1>4, <1>8, <2>1, EntryInside DEF c
<1>10. ASSUME NEW i \in 1 .. k
       PROVE  Case(Cell(p, g + i - 1), TRUE) = Case(Cell(p, c.pos + i - 1), TRUE)
  <2>1. /\ i - 1 \in 0 .. (k - 1) /\ f + (i - 1) \in 1 .. len /\ cur.pos + (i - 1) \in 1 .. len
        /\ m + (f + (i - 1)) = g + i - 1 /\ m + (cur.pos + (i - 1)) = (m + cur.pos) + i - 1
    BY <1>h
  <2>2. p[g + i - 1] = buf[f + (i - 1)] /\ g + i - 1 \in DOMAIN p
    BY <1>4, <1>7, <2>1
  <2>3. p[c.pos + i - 1] = buf[cur.pos + (i - 1)] /\ c.pos + i - 1 \in DOMAIN p
    BY <1>4, <1>5, <1>7, <2>1
  <2> QED BY <1>1, <2>1, <2>2, <2>3 DEF Cell
<1>11. Directory(p, c) = Directory(p, Str(g, k))
  <2>1. Sub(p, Str(g, k)) = [i \in 1 .. k |-> Cell(p, g + i - 1)]
    BY DEF Sub, Str
  <2>2. Sub(p, c) = [i \in 1 .. k |-> Cell(p, c.pos + i - 1)]
    BY <1>5 DEF Sub
  <2> QED BY <1>10, <2>1, <2>2, ZenonT(40) DEF Directory, Upper, Fold
<1>12. ASSUME NEW i \in g .. (g + k - 1)
       PROVE  p[i] # Semicolon
  <2>1. /\ i - g \in 0 .. (k - 1) /\ f + (i - g) \in 1 .. len /\ i = m + (f + (i - g))
        /\ cur.pos + (i - g) \in cur.pos .. (cur.pos + k - 1)
    BY <1>h
  <2>2. p[i] = buf[f + (i - g)]
    BY <1>7, <2>1
  <2>3. Case(buf[f + (i - g)], TRUE) = Case(buf[cur.pos + (i - g)], TRUE)
        /\ buf[cur.pos + (i - g)] # Semicolon
    BY <1>1, <1>3, <2>1
  <2> QED BY <2>2, <2>3, SemicolonHasNoCase
<1>13. /\ g \in Nat /\ g >= 2 /\ g + k <= L + 1 /\ c.pos < g
       /\ p[g - 1] = Semicolon
       /\ g + k <= L => p[g + k] = Semicolon
  <2>1. g \in Nat /\ g >= 2 /\ g + k <= L + 1 /\ c.pos < g
    BY <1>5, <1>h
  <2>2. f - 1 \in 1 .. len /\ m + (f - 1) = g - 1
    BY <1>h
  <2>3. g + k <= L => f + k \in 1 .. len /\ f + k <= len /\ m + (f + k) = g + k
    BY <1>h
  <2> QED BY <1>1, <1>7, <2>1, <2>2, <2>3
<1> HIDE DEF g
<1>14. k \in Nat /\ k >= 1 /\ L \in Nat
  BY <1>h
<1>15. SearchOrder(q) = SearchOrder(p)
  <2>1. IsCut(p, q, L, g, k, c)
    BY <1>4, <1>6, <1>9, <1>11, <1>12, <1>13, <1>14 DEF IsCut
  <2> QED BY <2>1, CutKeepsOrder
<1> QED BY <1>15 DEF p, q

LEMMA InitOrder == Init => PlaceInv /\ OrderInv
<1> SUFFICES ASSUME Init PROVE PlaceInv /\ OrderInv
  OBVIOUS
<1>1. Inv /\ len = Len(path0) /\ path0 \in Seq(ToSet(path0)) /\ Len(path0) \in Nat
  BY InitInv DEF Init, Inv, BufferInv
<1>2. PlaceInv
  BY <1>1 DEF Init, PlaceInv, Str, Steps
<1>3. Path = path0
  <2>1. Path = [i \in 1 .. len |-> Cell(buf, i)]
    <3>1. \A i \in 1 .. len : 1 + i - 1 = i
      BY <1>1
    <3> QED BY <3>1 DEF Path, Sub, DllPathNow, Str
  <2>2. \A i \in 1 .. len : Cell(buf, i) = path0[i]
    <3>1. path0 \in Seq(ToSet(path0) \cup {NUL})
      BY <1>1
    <3>2. \A i \in 1 .. len : i \in DOMAIN buf /\ buf[i] = path0[i]
      BY <1>1, <3>1 DEF Init
    <3> QED BY <3>2 DEF Cell
  <2>3. path0 = [i \in 1 .. len |-> path0[i]]
    BY <1>1
  <2> QED BY <2>1, <2>2, <2>3
<1> QED BY <1>2, <1>3 DEF Init, OrderInv, Steps

LEMMA LookingKeepsOrder ==
  ASSUME Inv, PlaceInv, OrderInv,
         Begin \/ BeginFails \/ ShortEnough \/ NoMoreEntries \/ NoDuplicate
  PROVE  PlaceInv' /\ OrderInv'
<1>1. /\ UNCHANGED <<path0, buf, len, after, cur>> /\ pc \in Steps
      /\ pc' # "success" /\ pc' # "duplicate"
  BY DEF Begin, BeginFails, ShortEnough, NoMoreEntries, NoDuplicate, Steps
<1>2. Path' = Path
  BY <1>1 DEF Path, Sub, DllPathNow
<1>3. PlaceInv'
  BY <1>1 DEF PlaceInv
<1>4. OrderInv'
  BY <1>1, <1>2 DEF OrderInv
<1> QED BY <1>3, <1>4

LEMMA NextEntryKeepsOrder ==
  ASSUME Inv, PlaceInv, OrderInv, NextEntry
  PROVE  PlaceInv' /\ OrderInv'
<1>1. PICK n \in Semicolons :
        /\ \A i \in Semicolons : n <= i
        /\ cur' = Str(after.pos, n - 1) /\ after' = Advance(after, n)
  BY DEF NextEntry
<1>2. pc \in Steps /\ pc' = "duplicate" /\ UNCHANGED <<path0, buf, len>>
  BY DEF NextEntry, Steps
<1>3. /\ len \in Nat /\ Len(path0) \in Nat /\ DOMAIN buf = 1 .. Len(path0) + 1
      /\ after.pos \in Nat \ {0} /\ after.len \in Nat
      /\ after.pos + after.len = Len(path0) + 1
      /\ after.pos # 1 => buf[after.pos - 1] = Semicolon
  BY <1>2 DEF Inv, BufferInv, PlaceInv
<1>4. /\ cur'.pos = after.pos /\ cur'.len = n - 1
      /\ after'.pos = after.pos + n /\ after'.len = after.len - n
  BY <1>1 DEF Str, Advance
<1> DEFINE a == after.pos
           l == after.len
           N == Len(path0)
<1>5. a \in Nat /\ a >= 1 /\ l \in Nat /\ N \in Nat /\ a + l = N + 1
  BY <1>3
<1> HIDE DEF a, l, N
<1>6. n \in 1 .. l /\ n \in Nat
  <2>1. n \in 1 .. l
    BY DEF Semicolons, l
  <2> QED BY <1>5, <2>1
<1>7. /\ a + n \in Nat \ {0} /\ l - n \in Nat /\ (a + n) + (l - n) = N + 1
      /\ n - 1 \in Nat /\ a + (n - 1) + 1 = a + n /\ (a + n) - 1 = a + n - 1
      /\ a + n - 1 \in 1 .. N + 1
  BY <1>5, <1>6
<1>8. buf[(a + n) - 1] = Semicolon
  <2>1. Cell(buf, a + n - 1) = Semicolon
    BY DEF Semicolons, a
  <2> QED BY <1>3, <1>7, <2>1 DEF Cell, N
<1>9. ASSUME NEW i \in a .. (a + (n - 1) - 1)
      PROVE  buf[i] # Semicolon
  <2>1. i - a + 1 \in 1 .. l /\ ~(n <= i - a + 1) /\ a + (i - a + 1) - 1 = i /\ i \in 1 .. N + 1
    BY <1>5, <1>6
  <2>2. i - a + 1 \notin Semicolons
    BY <1>1, <2>1
  <2>3. Cell(buf, a + (i - a + 1) - 1) # Semicolon
    BY <2>1, <2>2 DEF Semicolons, a, l
  <2> QED BY <1>3, <2>1, <2>3 DEF Cell, N
<1>10. PlaceInv'
  <2>1. /\ len' \in Nat
        /\ after'.pos \in Nat \ {0} /\ after'.len \in Nat
        /\ after'.pos + after'.len = Len(path0') + 1
        /\ after'.pos # 1 => buf'[after'.pos - 1] = Semicolon
    BY <1>2, <1>3, <1>4, <1>7, <1>8 DEF a, l, N
  <2>2. /\ cur'.pos \in Nat \ {0} /\ cur'.len \in Nat
        /\ cur'.pos + cur'.len + 1 = after'.pos
        /\ cur'.pos # 1 => buf'[cur'.pos - 1] = Semicolon
    BY <1>2, <1>3, <1>4, <1>7 DEF a, l, N
  <2>3. \A i \in cur'.pos .. (cur'.pos + cur'.len - 1) : buf'[i] # Semicolon
    BY <1>2, <1>4, <1>9 DEF a
  <2> QED BY <2>1, <2>2, <2>3 DEF PlaceInv, EndOf
<1>11. OrderInv'
  <2>1. Path' = Path
    BY <1>2 DEF Path, Sub, DllPathNow
  <2> QED BY <1>2, <2>1 DEF OrderInv, Steps
<1> QED BY <1>10, <1>11

LEMMA CutDuplicateKeepsOrder ==
  ASSUME Inv, PlaceInv, OrderInv, CutDuplicate
  PROVE  PlaceInv' /\ OrderInv'
<1>1. PICK f \in Nat :
        /\ f >= after.pos
        /\ len' = len - cur.len /\ len' \in Nat
        /\ \A i \in 1 .. (f - 1) : buf'[i] = buf[i]
  BY CutDoes
<1>2. /\ pc = "duplicate" /\ pc \in Steps /\ pc' = pc
      /\ UNCHANGED <<path0, after, cur>>
  BY DEF CutDuplicate, Steps
<1>3. /\ len \in Nat /\ after.pos \in Nat \ {0} /\ cur.pos \in Nat \ {0} /\ cur.len \in Nat
      /\ cur.pos + cur.len + 1 = after.pos
  BY <1>2 DEF PlaceInv
<1>4. PlaceInv'
  <2>1. after.pos # 1 => after.pos - 1 \in 1 .. (f - 1)
    BY <1>1, <1>3
  <2>2. cur.pos # 1 => cur.pos - 1 \in 1 .. (f - 1)
    BY <1>1, <1>3
  <2>3. \A i \in cur.pos .. (EndOf(cur) - 1) : i \in 1 .. (f - 1)
    BY <1>1, <1>3 DEF EndOf
  <2> QED BY <1>1, <1>2, <2>1, <2>2, <2>3 DEF PlaceInv, EndOf
<1>5. SearchOrder(Behind(<<>>, buf', len')) = SearchOrder(Behind(<<>>, buf, len))
  <2>1. Len(<<>>) = 0
    OBVIOUS
  <2> QED BY <2>1, CutKeepsOrderBehind
<1>6. SearchOrder(Behind(Prepend, buf', len')) = SearchOrder(Behind(Prepend, buf, len))
  BY PrependEnds, CutKeepsOrderBehind
<1>7. /\ Path = Behind(<<>>, buf, len)
      /\ Prepend \o Path = Behind(Prepend, buf, len)
  BY <1>3, PathIsBehind DEF Path, DllPathNow
<1>9. /\ Path' = Behind(<<>>, buf', len')
      /\ (Prepend \o Path)' = Behind(Prepend, buf', len')
  BY <1>1, PathIsBehind DEF Path, DllPathNow
<1>10. SearchOrder(Path') = SearchOrder(Path)
       /\ SearchOrder(Prepend \o Path') = SearchOrder(Prepend \o Path)
  BY <1>5, <1>6, <1>7, <1>9
<1>11. OrderInv'
  <2>1. pc # "success"
    BY <1>2
  <2> QED BY <1>2, <1>10, <2>1 DEF OrderInv
<1> QED BY <1>4, <1>11

LEMMA BuildKeepsOrder ==
  ASSUME Inv, PlaceInv, OrderInv, Build
  PROVE  PlaceInv' /\ OrderInv'
<1> DEFINE N == Len(path0)
           m == Len(NewDllPath)
<1>1. pc = "build" /\ pc \in Steps /\ len \in Nat /\ path0' = path0
  BY DEF Build, Steps, PlaceInv
<1>2. N \in Nat /\ MaximumLength = N + 1 /\ DOMAIN buf = 1 .. N + 1
  BY DEF Inv, BufferInv, MaximumLength
<1>3. m \in Nat /\ NewDllPath = Prepend \o Path
  BY NewDllPathHasALength DEF NewDllPath, Path
<1>4. pc' \in {"internal error", "success"}
  BY DEF Build
<1>5. PlaceInv'
  BY <1>4 DEF PlaceInv, Steps
<1>6. CASE pc' = "internal error"
  BY <1>5, <1>6 DEF OrderInv, Steps
<1>7. CASE pc' = "success"
  <2> DEFINE n == Least(m, MaximumLength)
             copied == [i \in DOMAIN buf |-> CASE i <= n -> NewDllPath[i]
                                               [] i = n + 1 -> NUL
                                               [] OTHER -> buf[i]]
  <2>1. /\ ~(n > N) /\ len' = N
        /\ buf' = [i \in DOMAIN buf |-> IF i \in (n + 1) .. N THEN Semicolon ELSE copied[i]]
    BY <1>7 DEF Build
  <2>2. n = m /\ m <= N
    BY <1>2, <1>3, <2>1 DEF Least
  <2>3. ASSUME NEW i \in 1 .. N
        PROVE  Cell(buf', i) = IF i <= m THEN NewDllPath[i] ELSE Semicolon
    <3>1. i \in DOMAIN buf /\ i \in DOMAIN buf'
      BY <1>2, <2>1
    <3>2. CASE i <= m
      <4>1. i \notin (n + 1) .. N /\ copied[i] = NewDllPath[i]
        BY <2>2, <3>1, <3>2, <1>3
      <4> QED BY <2>1, <3>1, <3>2, <4>1 DEF Cell
    <3>3. CASE ~(i <= m)
      <4>1. i \in (n + 1) .. N
        BY <1>2, <1>3, <2>2, <3>3
      <4> QED BY <2>1, <3>1, <3>3, <4>1 DEF Cell
    <3> QED BY <3>2, <3>3
  <2> HIDE DEF n, copied
  <2>4. DOMAIN Path' = 1 .. N /\ \A i \in 1 .. N : Path'[i] = Cell(buf', i)
    <3>1. Path' = [i \in 1 .. N |-> Cell(buf', 1 + i - 1)]
      BY <2>1 DEF Path, Sub, DllPathNow, Str
    <3>2. \A i \in 1 .. N : 1 + i - 1 = i
      BY <1>2
    <3> QED BY <3>1, <3>2
  <2>5. DOMAIN NewDllPath = 1 .. m
    <3>1. /\ NewDllPath = Behind(Prepend, buf, len)
          /\ m = Len(Prepend) + len
      BY <1>1, <1>3, PathIsBehind DEF Path, DllPathNow
    <3> QED BY <3>1 DEF Behind
  <2>6. SearchOrder(Path') = SearchOrder(NewDllPath)
    <3> DEFINE q == Path'
               p == NewDllPath
    <3>1. /\ DOMAIN q = 1 .. N /\ DOMAIN p = 1 .. m /\ m \in Nat /\ N \in Nat /\ m <= N
          /\ \A i \in 1 .. N : q[i] = IF i <= m THEN p[i] ELSE Semicolon
      BY <1>2, <1>3, <2>2, <2>3, <2>4, <2>5
    <3> HIDE DEF p, q, m, N
    <3>2. SearchOrder(q) = SearchOrder(p)
      BY <3>1, PadKeepsOrder
    <3> QED BY <3>2 DEF p, q
  <2>7. SearchOrder(Path') = SearchOrder(Prepend \o path0')
    BY <1>1, <1>3, <2>6 DEF OrderInv
  <2> QED BY <1>5, <1>7, <2>7 DEF OrderInv, Steps
<1> QED BY <1>4, <1>6, <1>7

LEMMA NextKeepsOrder ==
  Inv /\ PlaceInv /\ OrderInv /\ [Next]_vars => PlaceInv' /\ OrderInv'
<1> SUFFICES ASSUME Inv, PlaceInv, OrderInv, [Next]_vars
             PROVE  PlaceInv' /\ OrderInv'
  OBVIOUS
<1>1. CASE Begin \/ BeginFails \/ ShortEnough \/ NoMoreEntries \/ NoDuplicate
  BY <1>1, LookingKeepsOrder
<1>2. CASE NextEntry
  BY <1>2, NextEntryKeepsOrder
<1>3. CASE CutDuplicate
  BY <1>3, CutDuplicateKeepsOrder
<1>4. CASE CutBehindTheEnd
  <2>1. pc' = "exception"
    BY <1>4 DEF CutBehindTheEnd
  <2> QED BY <2>1 DEF PlaceInv, OrderInv, Steps
<1>5. CASE Build
  BY <1>5, BuildKeepsOrder
<1>6. CASE UNCHANGED vars
  <2>1. /\ UNCHANGED <<path0, buf, len, after, cur, pc>>
    BY <1>6 DEF vars
  <2>2. Path' = Path
    BY <2>1 DEF Path, Sub, DllPathNow
  <2>3. PlaceInv'
    BY <2>1 DEF PlaceInv
  <2> QED BY <2>1, <2>2, <2>3 DEF OrderInv
<1> QED BY <1>1, <1>2, <1>3, <1>4, <1>5, <1>6 DEF Next

(* While KexpShrinkDllPathLength works on the path, whatever is cut out of *)
(* it leaves the directories and their order as they were; a call that     *)
(* succeeds has put the directory of VxKex in front of them and nothing    *)
(* else (dllpath.c 19-26).                                                 *)
THEOREM OrderIsKept == Spec => []SearchOrderIsKept
<1>1. OrderInv => SearchOrderIsKept
  BY DEF OrderInv, SearchOrderIsKept
<1> QED BY <1>1, InitInv, InitOrder, NextKeepsInv, NextKeepsOrder, PTL DEF Spec

-----------------------------------------------------------------------------
(* Where the path ends: the loop has its target from the old length, and   *)
(* is left only with a path that is no longer than that.                   *)
EndInv ==
  /\ pc = "begin" => len = Len(path0)
  /\ pc \in {"entry", "duplicate", "build"} /\ Len(path0) >= Len(Prepend) =>
       target \in Int /\ target <= Len(path0) - Len(Prepend)
  /\ pc = "build" => len <= target
  /\ pc # "internal error" => len <= Len(path0)
  /\ pc \notin {"internal error", "exception"} => buf[len + 1] = NUL
  /\ pc = "internal error" => len = MaximumLength /\ Len(path0) < Len(Prepend)

LEMMA UshortIsLess ==
  ASSUME NEW x \in Nat
  PROVE  Ushort(x) \in Nat /\ Ushort(x) <= x
<1>1. x = 32768 * (x \div 32768) + (x % 32768) /\ x % 32768 \in Nat /\ x \div 32768 \in Nat
  OBVIOUS
<1> QED BY <1>1 DEF Ushort

LEMMA InitEnd == Init => Inv /\ PlaceInv /\ EndInv
<1> SUFFICES ASSUME Init PROVE Inv /\ PlaceInv /\ EndInv
  OBVIOUS
<1>1. Inv /\ PlaceInv
  BY InitInv, InitOrder
<1>2. pc = "begin" /\ len = Len(path0) /\ Len(path0) \in Nat
  BY <1>1 DEF Init, Inv, BufferInv
<1>3. buf[len + 1] = NUL
  BY <1>1, <1>2 DEF Inv, BufferInv, Steps
<1> QED BY <1>1, <1>2, <1>3 DEF EndInv

LEMMA CutDuplicateKeepsEnd ==
  ASSUME Inv, PlaceInv, EndInv, CutDuplicate
  PROVE  EndInv'
<1>1. PICK found \in DOMAIN buf :
        /\ found + cur.len <= len + 1
        /\ buf' = Moved(found + cur.len, found, len + 1 - (found + cur.len))
  BY DEF CutDuplicate
<1>2. /\ pc = "duplicate" /\ pc' = pc /\ len' = len - cur.len
      /\ UNCHANGED <<path0, target, after, cur>>
  BY DEF CutDuplicate
<1>3. /\ Len(path0) \in Nat /\ len \in Nat /\ cur.len \in Nat /\ len <= Len(path0)
      /\ found \in Nat /\ DOMAIN buf = 1 .. Len(path0) + 1
  <2>1. len \in Nat /\ cur.len \in Nat
    BY <1>2 DEF PlaceInv, Steps
  <2>2. len <= Len(path0)
    BY <1>2 DEF EndInv
  <2>3. Len(path0) \in Nat /\ DOMAIN buf = 1 .. Len(path0) + 1
    BY DEF Inv, BufferInv
  <2>4. found \in Nat
    BY <2>3
  <2> QED BY <2>1, <2>2, <2>3, <2>4
<1>4. buf'[len' + 1] = NUL
  <2> DEFINE n == len + 1 - (found + cur.len)
             end == found + n
  <2>1. end = len' + 1 /\ end \in DOMAIN buf
    BY <1>1, <1>2, <1>3
  <2>2. end \notin found .. (found + n - 1)
    BY <1>1, <1>3
  <2>3. buf'[end] = NUL
    BY <1>1, <2>1, <2>2 DEF Moved
  <2> QED BY <2>1, <2>3
<1>5. len' <= Len(path0)
  BY <1>2, <1>3
<1> QED BY <1>2, <1>4, <1>5 DEF EndInv

LEMMA NoRoom ==
  ASSUME NEW m \in Nat, NEW old \in Nat, NEW prefix \in Nat, NEW size \in Nat, NEW n,
         m = prefix + size, n = Least(m, old + 1), n > old
  PROVE  n = old + 1 /\ ~(size <= old - prefix)
BY DEF Least

LEMMA BuildKeepsEnd ==
  ASSUME Inv, PlaceInv, EndInv, Build, Inv'
  PROVE  EndInv'
<1> DEFINE m == Len(NewDllPath)
           n == Least(m, MaximumLength)
           old == Len(path0)
           prefix == Len(Prepend)
<1>1. /\ pc = "build" /\ pc' \in {"internal error", "success"} /\ len \in Nat /\ path0' = path0
      /\ old \in Nat /\ MaximumLength = old + 1
  <2>1. pc = "build" /\ pc' \in {"internal error", "success"} /\ path0' = path0
    BY DEF Build
  <2>2. len \in Nat
    BY <2>1 DEF Steps, PlaceInv
  <2>3. old \in Nat
    BY DEF Inv, BufferInv
  <2> QED BY <2>1, <2>2, <2>3 DEF MaximumLength
<1>2. m = prefix + len /\ prefix \in Nat /\ m \in Nat
  BY <1>1, PathIsBehind, PrependEnds, NewDllPathHasALength DEF NewDllPath, DllPathNow
<1>3. CASE pc' = "success"
  <2>1. len' = Len(path0)
    BY <1>3 DEF Build
  <2>2. buf'[len' + 1] = NUL
    BY <1>1, <1>3, <2>1 DEF Inv, BufferInv
  <2> QED BY <1>1, <1>3, <2>1, <2>2 DEF EndInv
<1>4. CASE pc' = "internal error"
  <2>1. n > old /\ len' = n
    BY <1>4 DEF Build
  <2>2. n = Least(m, old + 1)
    BY <1>1
  <2>3. old >= prefix => target \in Int /\ target <= old - prefix /\ len <= target
    BY <1>1 DEF EndInv
  <2>4. len' = MaximumLength' <=> len' = old + 1
    BY <1>1 DEF MaximumLength
  <2>5. EndInv' <=> len' = old + 1 /\ old < prefix
    BY <1>1, <1>4, <2>4 DEF EndInv
  <2> HIDE DEF m, n, old, prefix
  <2>6. n = old + 1 /\ ~(len <= old - prefix)
    BY <1>1, <1>2, <2>1, <2>2, NoRoom
  <2>7. old < prefix
    <3>1. old \in Nat /\ prefix \in Nat /\ len \in Nat
      BY <1>1, <1>2
    <3>2. ASSUME old >= prefix PROVE FALSE
      <4>1. target \in Int /\ target <= old - prefix /\ len <= target
        BY <2>3, <3>2
      <4> QED BY <2>6, <3>1, <4>1
    <3> QED BY <3>1, <3>2
  <2> QED BY <2>1, <2>5, <2>6, <2>7
<1> QED BY <1>1, <1>3, <1>4

LEMMA NextKeepsEnd == Inv /\ PlaceInv /\ EndInv /\ Inv' /\ [Next]_vars => EndInv'
<1> SUFFICES ASSUME Inv, PlaceInv, EndInv, Inv', [Next]_vars PROVE EndInv'
  OBVIOUS
<1>0. Len(path0) \in Nat /\ Len(Prepend) \in Nat
  BY PrependEnds DEF Inv, BufferInv
<1>1. CASE Begin
  <2>1. /\ UNCHANGED <<path0, buf, len>> /\ pc = "begin" /\ pc' = "entry"
        /\ target' = Ushort(len - Len(Prepend))
    BY <1>1 DEF Begin
  <2>2. len = Len(path0)
    BY <2>1 DEF EndInv
  <2>3. ASSUME Len(path0) >= Len(Prepend)
        PROVE  target' \in Int /\ target' <= Len(path0) - Len(Prepend)
    <3>1. len - Len(Prepend) \in Nat
      BY <1>0, <2>2, <2>3
    <3>2. Ushort(len - Len(Prepend)) \in Nat /\ Ushort(len - Len(Prepend)) <= len - Len(Prepend)
      BY <3>1, UshortIsLess
    <3> QED BY <2>1, <2>2, <3>2
  <2> QED BY <2>1, <2>3 DEF EndInv
<1>2. CASE BeginFails \/ ShortEnough \/ NoMoreEntries \/ NoDuplicate \/ NextEntry
  <2>1. /\ UNCHANGED <<path0, buf, len, target>> /\ pc \notin {"internal error", "exception"}
        /\ pc' \in {"append", "build", "not found", "entry", "duplicate"}
        /\ pc' \in {"build", "entry", "duplicate"} => pc \in {"entry", "duplicate"}
        /\ pc' = "build" => len <= target
    BY <1>2 DEF BeginFails, ShortEnough, NoMoreEntries, NoDuplicate, NextEntry
  <2> QED BY <2>1 DEF EndInv
<1>3. CASE CutDuplicate
  BY <1>3, CutDuplicateKeepsEnd
<1>4. CASE CutBehindTheEnd
  <2>1. pc = "duplicate" /\ pc' = "exception" /\ len' = len - cur.len /\ path0' = path0
    BY <1>4 DEF CutBehindTheEnd
  <2>2. len \in Nat /\ cur.len \in Nat /\ len <= Len(path0)
    BY <2>1 DEF PlaceInv, EndInv, Steps
  <2> QED BY <1>0, <2>1, <2>2 DEF EndInv
<1>5. CASE Build
  BY <1>5, BuildKeepsEnd
<1>6. CASE UNCHANGED vars
  BY <1>6 DEF vars, EndInv, MaximumLength
<1> QED BY <1>1, <1>2, <1>3, <1>4, <1>5, <1>6 DEF Next

(* A call that succeeds has kept the length of the path, and until it      *)
(* builds the new one the path only gets shorter and has a NUL at its end; *)
(* the new path does not fit, with a path of the whole buffer and without  *)
(* a NUL, only if the old one is shorter than what is prepended            *)
(* (dllpath.c 107-147, 243-265).  What it does not say is that a call that *)
(* fails gives the old length back.                                        *)
THEOREM LengthIsKept == Spec => []LengthIsMaintained
<1>1. Inv /\ EndInv => LengthIsMaintained
  BY DEF Inv, LenInv, EndInv, LengthIsMaintained
<1> QED BY <1>1, InitEnd, InitOrder, NextKeepsInv, NextKeepsOrder, NextKeepsEnd, PTL DEF Spec
============================================================================
