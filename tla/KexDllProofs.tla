---------------------------- MODULE KexDllProofs ----------------------------
(***************************************************************************)
(* Proofs about KexDll: what the program is told of the version, which     *)
(* messages of the loader are logged, and under which source file.         *)
(*                                                                         *)
(* The steps of DllMain leave alone what the threads do in the hook, and   *)
(* those of the hook what DllMain has set up; each invariant is shown for  *)
(* the one kind of step that can disturb it.                               *)
(***************************************************************************)
EXTENDS KexDll, SequenceTheorems, WellFoundedInduction, TLAPS

-----------------------------------------------------------------------------
(* The order of the start-up.                                              *)

LEMMA AfterIs ==
  /\ After("data") = "log"                  /\ After("log") = "channel"
  /\ After("channel") = "errors"            /\ After("errors") = "advanced"
  /\ After("advanced") = "verifier"         /\ After("verifier") = "rewrite"
  /\ After("rewrite") = "propagation"       /\ After("propagation") = "spoof"
  /\ After("spoof") = "versionHook"        /\ After("versionHook") = "protect"
  /\ After("protect") = "timeHook"         /\ After("timeHook") = "descriptor"
  /\ After("descriptor") = "attach"         /\ After("attach") = "reattach"
  /\ After("reattach") = "running"     /\ After("running") = "ended"
<1>1. DOMAIN Order = 1 .. 17
  BY DEF Order
<1>2. /\ Order[1] = "data"              /\ Order[2] = "log"
      /\ Order[3] = "channel"           /\ Order[4] = "errors"
      /\ Order[5] = "advanced"          /\ Order[6] = "verifier"
      /\ Order[7] = "rewrite"           /\ Order[8] = "propagation"
      /\ Order[9] = "spoof"             /\ Order[10] = "versionHook"
      /\ Order[11] = "protect"          /\ Order[12] = "timeHook"
      /\ Order[13] = "descriptor"       /\ Order[14] = "attach"
      /\ Order[15] = "reattach"    /\ Order[16] = "running"
      /\ Order[17] = "ended"
  BY DEF Order
<1> HIDE DEF Order
<1>3. ASSUME NEW step, NEW k \in 1 .. 16, Order[k] = step, \A i \in 1 .. 17 : Order[i] = step => i = k
      PROVE  After(step) = Order[k + 1]
  BY <1>1, <1>3 DEF After
<1>4. \A i \in 1 .. 17 : \/ i = 1 \/ i = 2 \/ i = 3 \/ i = 4 \/ i = 5 \/ i = 6
                        \/ i = 7 \/ i = 8 \/ i = 9 \/ i = 10 \/ i = 11 \/ i = 12
                        \/ i = 13 \/ i = 14 \/ i = 15 \/ i = 16 \/ i = 17
  OBVIOUS
<1> DEFINE number(s) ==
      CASE s = "data" -> 1 [] s = "log" -> 2
        [] s = "channel" -> 3 [] s = "errors" -> 4
        [] s = "advanced" -> 5 [] s = "verifier" -> 6
        [] s = "rewrite" -> 7 [] s = "propagation" -> 8
        [] s = "spoof" -> 9 [] s = "versionHook" -> 10
        [] s = "protect" -> 11 [] s = "timeHook" -> 12
        [] s = "descriptor" -> 13 [] s = "attach" -> 14
        [] s = "reattach" -> 15 [] s = "running" -> 16
        [] s = "ended" -> 17
<1>5. ASSUME NEW i \in 1 .. 17 PROVE number(Order[i]) = i
  BY <1>2, <1>4
<1> HIDE DEF number
<1>6. ASSUME NEW k \in 1 .. 16 PROVE After(Order[k]) = Order[k + 1]
  BY <1>3, <1>5
<1>7. /\ After(Order[1]) = Order[2] /\ After(Order[2]) = Order[3]
      /\ After(Order[3]) = Order[4] /\ After(Order[4]) = Order[5]
      /\ After(Order[5]) = Order[6] /\ After(Order[6]) = Order[7]
      /\ After(Order[7]) = Order[8] /\ After(Order[8]) = Order[9]
      /\ After(Order[9]) = Order[10] /\ After(Order[10]) = Order[11]
      /\ After(Order[11]) = Order[12] /\ After(Order[12]) = Order[13]
      /\ After(Order[13]) = Order[14] /\ After(Order[14]) = Order[15]
      /\ After(Order[15]) = Order[16] /\ After(Order[16]) = Order[17]
  BY <1>6
<1> QED BY <1>2, <1>7

-----------------------------------------------------------------------------
(* What the program is told of the version.                                *)

AtWork == {"versionHook", "protect", "timeHook"}
Finished == {"descriptor", "attach", "reattach", "running", "ended"}

SharedIsReal == Pair(shared) = Real /\ ~shared.private

(* KexApplyVersionSpoof changes one source after the other.                *)
VersionInv ==
  /\ failed \in Nat /\ versionHook \in BOOLEAN /\ timeHook \in BOOLEAN /\ shared.private \in BOOLEAN
  /\ pc \notin AtWork \cup Finished => ~versionHook /\ peb = Windows7 /\ SharedIsReal
  /\ pc \in AtWork => winVer # 0 /\ peb = Spoofed(winVer)
  /\ pc = "versionHook" => ~versionHook /\ SharedIsReal
  /\ pc \in {"protect", "timeHook"} =>
       "sharedUserData" \in strong /\ (versionHook \/ failed > 0)
  /\ pc = "protect" => SharedIsReal
  /\ pc = "timeHook" => Pair(shared) = Asked /\ (peb.major >= 10 => shared.build = peb.build)
  /\ VersionsAgree

LEMMA SpoofedIsAsked ==
  winVer # 0 => Pair(Spoofed(winVer)) = Asked
BY DEF Spoofed, Asked, Pair, Windows7, Version

(* A step in the hook changes nothing of all this, but may fail.           *)
LEMMA HookLeaves ==
  ASSUME NEW t, InHook(t)
  PROVE  /\ UNCHANGED <<log, hooked>>
         /\ failed' = failed \/ (failed < MaxFailed /\ failed' = failed + 1)
BY DEF InHook, DbgPrint, Check, Reset, Publish, AllocateFails, Fill, Insert, InsertIsLost,
       Lookup, Write, Generic, Step, Rest, MayFail

LEMMA VersionInit == Init => VersionInv
<1> SUFFICES ASSUME Init PROVE VersionInv
  OBVIOUS
<1>1. pc = "data" /\ failed = 0 /\ peb = Windows7 /\ ~versionHook /\ timeHook = FALSE
  BY DEF Init, AdvInit
<1>2. SharedIsReal
  BY DEF Init, SharedIsReal, Pair, Real
<1> QED BY <1>1, <1>2 DEF VersionInv, AtWork, Finished, VersionsAgree, Init

LEMMA VersionHookStep ==
  VersionInv /\ (\E t \in Alive : InHook(t)) /\ UNCHANGED <<pc, startVars>> => VersionInv'
<1> SUFFICES ASSUME VersionInv, NEW t \in Alive, InHook(t), UNCHANGED <<pc, startVars>>
             PROVE  VersionInv'
  OBVIOUS
<1>1. failed' = failed \/ failed' = failed + 1
  BY HookLeaves
<1>2. failed \in Nat
  BY DEF VersionInv
<1>3. failed' \in Nat /\ (failed > 0 => failed' > 0)
  BY <1>1, <1>2
<1>4. /\ pc' = pc /\ winVer' = winVer /\ strong' = strong /\ peb' = peb /\ shared' = shared
      /\ versionHook' = versionHook /\ timeHook' = timeHook
  BY DEF startVars
<1>5. /\ Asked' = Asked /\ SharedIsReal' = SharedIsReal
      /\ \A caller : GetNtVersionNumbers(caller)' = GetNtVersionNumbers(caller)
  BY <1>4 DEF Asked, SharedIsReal, Pair, Real, GetNtVersionNumbers, IsNative
<1>6. \A source : Told(source) => Told(source)'
  BY <1>3, <1>5 DEF Told
<1>7. VersionsAgree'
  <2>1. VersionsAgree
    BY DEF VersionInv
  <2>2. /\ Told(Pair(GetNtVersionNumbers("program"))) => Told(Pair(GetNtVersionNumbers("program")))'
        /\ Told(Pair(shared)) => Told(Pair(shared))'
        /\ Pair(shared)' = Pair(shared) /\ Pair(peb)' = Pair(peb) /\ Real' = Real
    BY <1>4, <1>5, <1>6 DEF Pair, Real
  <2> QED BY <2>1, <2>2, <1>2, <1>3, <1>4, <1>5 DEF VersionsAgree
<1> QED BY <1>3, <1>4, <1>5, <1>7 DEF VersionInv

LEMMA VersionHookInstalled == VersionInv /\ InstallVersionHook => VersionInv'
<1>0. SUFFICES ASSUME VersionInv, InstallVersionHook PROVE VersionInv'
  OBVIOUS
<1>1. /\ pc = "versionHook" /\ winVer # 0 /\ peb = Spoofed(winVer) /\ SharedIsReal
      /\ failed \in Nat /\ timeHook \in BOOLEAN /\ shared.private \in BOOLEAN
  BY <1>0 DEF InstallVersionHook, GoFrom, VersionInv, AtWork
<1>2. /\ peb' = peb /\ strong' = strong /\ winVer' = winVer /\ shared' = shared
      /\ timeHook' = timeHook /\ pc' = IF "sharedUserData" \in strong THEN "protect" ELSE "descriptor"
  BY <1>0 DEF InstallVersionHook, GoFrom
<1>3. failed' \in Nat /\ (versionHook' = TRUE \/ (versionHook' = FALSE /\ failed' > 0))
  BY <1>0, <1>1 DEF InstallVersionHook, Install, MayFail, VersionInv
<1>4. /\ Pair(peb)' = Asked' /\ SharedIsReal' /\ Pair(shared)' = Real
      /\ ~shared'.private
  BY <1>1, <1>2, SpoofedIsAsked DEF Asked, SharedIsReal, Pair, Real
<1>5. /\ Told(Pair(GetNtVersionNumbers("program")))'
      /\ (GetNtVersionNumbers("nowhere") = GetNtVersionNumbers("program"))'
      /\ (GetNtVersionNumbers("windows") = [major |-> 6, minor |-> 1, build |-> 7601])'
  BY <1>3, <1>4 DEF Told, Pair, Real, GetNtVersionNumbers, IsNative
<1>6. CASE "sharedUserData" \in strong /\ pc' = "protect"
  BY <1>1, <1>2, <1>3, <1>4, <1>6 DEF VersionInv, VersionsAgree, AtWork, Finished
<1>7. CASE "sharedUserData" \notin strong /\ pc' = "descriptor"
  <2>1. ~(Pair(shared)' = Asked' /\ peb'.major >= 10)
    <3>1. Pair(shared)' = <<6, 1>>
      BY <1>4 DEF Real
    <3>2. Pair(peb)' = <<peb'.major, peb'.minor>> /\ Pair(peb)' = Asked'
      BY <1>4 DEF Pair
    <3> QED BY <3>1, <3>2
  <2>2. VersionsAgree'
    BY <1>1, <1>2, <1>4, <1>5, <1>7, <2>1 DEF VersionsAgree
  <2> QED BY <1>1, <1>2, <1>3, <1>7, <2>2 DEF VersionInv, AtWork, Finished
<1> QED BY <1>2, <1>6, <1>7

LEMMA TimeHookInstalled == VersionInv /\ InstallTimeHook => VersionInv'
<1>0. SUFFICES ASSUME VersionInv, InstallTimeHook PROVE VersionInv'
  OBVIOUS
<1>1. /\ pc = "timeHook" /\ winVer # 0 /\ peb = Spoofed(winVer) /\ Pair(shared) = Asked
      /\ failed \in Nat /\ versionHook \in BOOLEAN /\ shared.private \in BOOLEAN
      /\ "sharedUserData" \in strong /\ (versionHook \/ failed > 0)
      /\ peb.major >= 10 => shared.build = peb.build
  BY <1>0 DEF InstallTimeHook, GoFrom, Do, VersionInv, AtWork
<1>2. /\ peb' = peb /\ strong' = strong /\ winVer' = winVer /\ shared' = shared
      /\ versionHook' = versionHook /\ pc' = "descriptor"
  BY <1>0, <1>1, AfterIs DEF InstallTimeHook, GoFrom, Do
<1>3. /\ failed' \in Nat /\ (failed > 0 => failed' > 0)
      /\ (timeHook' = TRUE \/ (timeHook' \in BOOLEAN /\ failed' > 0))
  BY <1>0, <1>1 DEF InstallTimeHook, Install, MayFail, VersionInv
<1>4. Pair(peb)' = Asked' /\ Told(Pair(shared))'
  BY <1>1, <1>2, SpoofedIsAsked DEF Asked, Pair, Told
<1>5. /\ Told(Pair(GetNtVersionNumbers("program")))'
      /\ (GetNtVersionNumbers("nowhere") = GetNtVersionNumbers("program"))'
      /\ (GetNtVersionNumbers("windows") = [major |-> 6, minor |-> 1, build |-> 7601])'
  BY <1>1, <1>2, <1>3, <1>4 DEF Told, Pair, Real, GetNtVersionNumbers, IsNative
<1>6. VersionsAgree'
  BY <1>1, <1>2, <1>3, <1>4, <1>5 DEF VersionsAgree
<1> QED BY <1>1, <1>2, <1>3, <1>6 DEF VersionInv, AtWork, Finished

LEMMA VersionMainStep == VersionInv /\ DllMain => VersionInv'
<1> SUFFICES ASSUME VersionInv, DllMain PROVE VersionInv'
  OBVIOUS
<1> USE AfterIs, SpoofedIsAsked
    DEF GoFrom, Do, VersionInv, AtWork, Finished, VersionsAgree, SharedIsReal, Pair, Real, Asked,
        Told, GetNtVersionNumbers, IsNative, Windows7, Version
<1>1. CASE Simple
  BY <1>1 DEF Simple, advVars, startVars
<1>2. CASE OpenLog
  BY <1>2 DEF OpenLog, Logging, startVars, MayFail
<1>3. CASE RewriteFails
  BY <1>3 DEF RewriteFails, Logging, startVars, MayFail
<1>4. CASE InitializeAdvancedLogging
  BY <1>4 DEF InitializeAdvancedLogging, Logging, startVars, Install, MayFail
<1>5. CASE DisableAVrf
  BY <1>5 DEF DisableAVrf, advVars
<1>6. CASE NoSpoof
  BY <1>6 DEF NoSpoof, advVars, startVars
<1>7. CASE SpoofPeb
  BY <1>7 DEF SpoofPeb, advVars
<1>8. CASE InstallVersionHook
  BY <1>8, VersionHookInstalled
<1>9. CASE SpoofSharedUserData
  BY <1>9 DEF SpoofSharedUserData, advVars
<1>10. CASE ProtectFails
  BY <1>10 DEF ProtectFails, startVars, MayFail
<1>11. CASE InstallTimeHook
  BY <1>11, TimeHookInstalled
<1>12. CASE Detach
  BY <1>12 DEF Detach, startVars
<1> QED BY <1>1, <1>2, <1>3, <1>4, <1>5, <1>6, <1>7, <1>8, <1>9, <1>10, <1>11, <1>12 DEF DllMain

LEMMA VersionStep == VersionInv /\ [Next]_vars => VersionInv'
<1> SUFFICES ASSUME VersionInv, [Next]_vars PROVE VersionInv'
  OBVIOUS
<1>1. CASE UNCHANGED vars
  BY <1>1 DEF vars, startVars, advVars, VersionInv, VersionsAgree, SharedIsReal, Told,
              GetNtVersionNumbers, Asked, AtWork, Finished
<1> QED BY <1>1, VersionMainStep, VersionHookStep DEF Next

(* The Peb, the function and SharedUserData tell the program the major and *)
(* minor version that was asked for, or the real one where a hook or a     *)
(* protection failed, and Windows the real one; the build of the Peb and   *)
(* of SharedUserData agree from Windows 10 on (verspoof.c 37-230).         *)
THEOREM VersionsAlwaysAgree == Spec => []VersionsAgree
<1>1. VersionInv => VersionsAgree
  BY DEF VersionInv
<1> QED BY <1>1, VersionInit, VersionStep, PTL DEF Spec

-----------------------------------------------------------------------------
(* The table of source files.                                              *)

TableEntries ==
  {[sig |-> Hash[Table[i].key], key |-> Table[i].key, value |-> Table[i].value] :
     i \in DOMAIN Table}
MapperStates == [insensitive : {FALSE}, entries : Seq(TableEntries)]
Has(m, i) == \E j \in 1 .. Len(m.entries) : m.entries[j].key = Table[i].key

LEMMA TableType ==
  /\ Len(Table) \in Nat \ {0} /\ DOMAIN Table = 1 .. Len(Table)
  /\ \A i, j \in DOMAIN Table : Table[i].key = Table[j].key => Table[i].value = Table[j].value
BY AdvLogAssumption

LEMMA MapperIs ==
  ASSUME NEW m \in MapperStates
  PROVE  /\ m.entries \in Seq(TableEntries) /\ Len(m.entries) \in Nat
         /\ \A key : Form(m, key) = key /\ Signature(m, key) = Hash[key]
         /\ \A j \in 1 .. Len(m.entries) : m.entries[j].sig = Hash[m.entries[j].key]
<1>1. m.entries \in Seq(TableEntries) /\ m.insensitive = FALSE
  BY DEF MapperStates
<1>2. \A e \in TableEntries : e.sig = Hash[e.key]
  BY DEF TableEntries
<1> QED BY <1>1, <1>2 DEF Signature, Form

LEMMA NewMapper == CreateStringMapper(FALSE) \in MapperStates
BY DEF CreateStringMapper, MapperStates

LEMMA InsertTableEntry ==
  ASSUME NEW m \in MapperStates, NEW i \in DOMAIN Table
  PROVE  LET n == InsertEntry(m, Table[i].key, Table[i].value)
         IN /\ n \in MapperStates
            /\ Has(n, i)
            /\ \A k \in DOMAIN Table : Has(m, k) => Has(n, k)
<1> DEFINE e == [sig |-> Hash[Table[i].key], key |-> Table[i].key, value |-> Table[i].value]
           n == InsertEntry(m, Table[i].key, Table[i].value)
<1>1. e \in TableEntries /\ m.entries \in Seq(TableEntries) /\ m.insensitive = FALSE
  BY DEF TableEntries, MapperStates
<1>2. n = [insensitive |-> FALSE, entries |-> <<e>> \o m.entries]
  <2>1. Signature(m, Table[i].key) = Hash[Table[i].key]
    BY <1>1 DEF Signature, Form
  <2>2. n = [m EXCEPT !.entries = <<e>> \o @]
    BY <2>1 DEF InsertEntry
  <2> QED BY <2>2 DEF MapperStates
<1> HIDE DEF e
<1>3. <<e>> \o m.entries \in Seq(TableEntries)
  BY <1>1
<1>4. /\ Len(n.entries) = Len(m.entries) + 1 /\ n.entries[1] = e
      /\ \A j \in 1 .. Len(m.entries) : n.entries[j + 1] = m.entries[j]
  BY <1>1, <1>2
<1> HIDE DEF n
<1>5. n \in MapperStates
  BY <1>2, <1>3 DEF MapperStates
<1>6. Has(n, i)
  <2>1. Len(m.entries) \in Nat /\ e.key = Table[i].key
    BY <1>1 DEF e
  <2> QED BY <2>1, <1>4 DEF Has
<1>7. ASSUME NEW k \in DOMAIN Table, Has(m, k) PROVE Has(n, k)
  <2>1. PICK j \in 1 .. Len(m.entries) : m.entries[j].key = Table[k].key
    BY <1>7 DEF Has
  <2>2. Len(m.entries) \in Nat /\ j + 1 \in 1 .. Len(n.entries)
    BY <1>1, <1>4
  <2> QED BY <1>4, <2>1, <2>2 DEF Has
<1> QED BY <1>5, <1>6, <1>7 DEF n

(* The walk of KexRtlpLookupRawEntryStringMapper along a mapper of         *)
(* functions, which are compared as they are.  Ahead are the entries with  *)
(* a function that the walk may still meet.                                *)

LEMMA LeastNumber ==
  ASSUME NEW T, T \subseteq Nat, T # {}
  PROVE  \E x \in T : \A y \in T : x <= y
<1> DEFINE R == OpToRel(<, Nat)
<1>1. R = {ss \in Nat \X Nat : ss[1] < ss[2]}
  BY DEF OpToRel
<1>2. IsWellFoundedOn(R, Nat)
  BY NatLessThanWellFounded, Zenon
<1>3. PICK x \in T : \A y \in T : ~(<<y, x>> \in R)
  BY <1>2, WFMin
<1>4. \A y \in T : <<y, x>> \in Nat \X Nat
  OBVIOUS
<1>5. \A y \in T : ~(y < x)
  BY <1>1, <1>3, <1>4
<1> QED BY <1>5

Ahead(m, key, i) == {j \in (i + 1) .. Len(m.entries) : m.entries[j].key = key}
FirstOf(S) == IF S = {} THEN None ELSE CHOOSE j \in S : \A k \in S : j <= k

LEMMA NextAhead ==
  ASSUME NEW m \in MapperStates, NEW key, NEW i \in Nat
  PROVE  LET n == NextWith(m, Hash[key], i)
         IN \/ n = None /\ Ahead(m, key, i) = {}
            \/ /\ n \in (i + 1) .. Len(m.entries) /\ n # None
               /\ m.entries[n].key = key => FirstOf(Ahead(m, key, i)) = n
               /\ m.entries[n].key # key => Ahead(m, key, i) = Ahead(m, key, n)
<1> DEFINE next == {j \in (i + 1) .. Len(m.entries) : m.entries[j].sig = Hash[key]}
           n == NextWith(m, Hash[key], i)
           behind == Ahead(m, key, i)
<1>1. /\ Len(m.entries) \in Nat
      /\ \A j \in 1 .. Len(m.entries) : m.entries[j].sig = Hash[m.entries[j].key]
  BY MapperIs
<1>2. behind \subseteq next /\ next \subseteq Nat
  BY <1>1 DEF Ahead
<1>3. CASE next = {}
  BY <1>2, <1>3 DEF NextWith
<1>4. CASE next # {}
  <2>1. n \in next /\ \A k \in next : n <= k
    <3>1. n = CHOOSE j \in next : \A k \in next : j <= k
      BY <1>4 DEF NextWith
    <3> HIDE DEF next, n
    <3> QED BY <1>2, <1>4, <3>1, LeastNumber
  <2>2. n \in (i + 1) .. Len(m.entries) /\ n # None /\ n \in Nat
    BY <2>1 DEF None
  <2> HIDE DEF n, next
  <2>3. CASE m.entries[n].key = key
    <3>1. n \in behind /\ \A k \in behind : n <= k
      BY <1>2, <2>1, <2>2, <2>3 DEF Ahead
    <3>2. FirstOf(Ahead(m, key, i)) \in behind /\ \A k \in behind : FirstOf(Ahead(m, key, i)) <= k
      BY <3>1 DEF FirstOf
    <3>3. FirstOf(Ahead(m, key, i)) = n
      <4> DEFINE f == FirstOf(Ahead(m, key, i))
      <4>1. f \in Nat /\ f <= n /\ n <= f
        BY <1>2, <3>1, <3>2
      <4> HIDE DEF f
      <4> QED BY <2>2, <4>1 DEF f
    <3> QED BY <2>2, <2>3, <3>3 DEF n
  <2>4. CASE m.entries[n].key # key
    <3>1. \A k \in behind : k \in (n + 1) .. Len(m.entries)
      BY <1>2, <2>1, <2>2, <2>4 DEF Ahead
    <3>2. behind = Ahead(m, key, n)
      BY <2>2, <3>1 DEF Ahead
    <3> QED BY <2>2, <2>4, <3>2 DEF n
  <2> QED BY <2>3, <2>4
<1> QED BY <1>3, <1>4

EndsAt(m, key, i) == IF i = None \/ m.entries[i].key = key THEN i ELSE FirstOf(Ahead(m, key, i))
IsWalk(w, m, key) ==
  w = [i \in 0 .. Len(m.entries) |->
         IF i = None \/ m.entries[i].key = key THEN i ELSE w[NextWith(m, Hash[key], i)]]

LEMMA WalkExists ==
  ASSUME NEW m \in MapperStates, NEW key
  PROVE  \E w : IsWalk(w, m, key)
<1> DEFINE w == [i \in 0 .. Len(m.entries) |-> EndsAt(m, key, i)]
<1>1. Len(m.entries) \in Nat
  BY MapperIs
<1>2. ASSUME NEW i \in 0 .. Len(m.entries), i # None, m.entries[i].key # key
      PROVE  w[i] = w[NextWith(m, Hash[key], i)]
  <2> DEFINE n == NextWith(m, Hash[key], i)
  <2>1. w[i] = FirstOf(Ahead(m, key, i))
    BY <1>2 DEF EndsAt
  <2>2. CASE n = None /\ Ahead(m, key, i) = {}
    BY <1>1, <2>1, <2>2 DEF FirstOf, EndsAt, None
  <2>3. CASE /\ n \in (i + 1) .. Len(m.entries) /\ n # None
             /\ m.entries[n].key = key => FirstOf(Ahead(m, key, i)) = n
             /\ m.entries[n].key # key => Ahead(m, key, i) = Ahead(m, key, n)
    <3> HIDE DEF n
    <3>1. w[n] = EndsAt(m, key, n)
      BY <1>1, <2>3
    <3>2. CASE m.entries[n].key = key
      BY <2>1, <2>3, <3>1, <3>2 DEF EndsAt, n
    <3>3. CASE m.entries[n].key # key
      BY <2>1, <2>3, <3>1, <3>3 DEF EndsAt, n
    <3> QED BY <3>2, <3>3
  <2>4. i \in Nat
    BY <1>1
  <2> HIDE DEF w
  <2> QED BY <2>2, <2>3, <2>4, NextAhead
<1>3. IsWalk(w, m, key)
  BY <1>2 DEF IsWalk, EndsAt
<1> QED BY <1>3

LEMMA WalkEnds ==
  ASSUME NEW m \in MapperStates, NEW key, NEW w, IsWalk(w, m, key), NEW i \in 0 .. Len(m.entries)
  PROVE  w[i] = EndsAt(m, key, i)
<1> DEFINE L == Len(m.entries)
           Bad == {d \in 0 .. L : \E j \in 0 .. L : d = L - j /\ w[j] # EndsAt(m, key, j)}
<1>1. L \in Nat
  BY MapperIs
<1>2. SUFFICES ASSUME Bad # {} PROVE FALSE
  <2>1. L - i \in 0 .. L
    BY <1>1
  <2> QED BY <2>1
<1>3. PICK d \in Bad : \A e \in Bad : d <= e
  <2>1. Bad \subseteq Nat
    OBVIOUS
  <2> HIDE DEF Bad
  <2> QED BY <1>2, <2>1, LeastNumber
<1>4. PICK j \in 0 .. L : d = L - j /\ w[j] # EndsAt(m, key, j)
  OBVIOUS
<1> DEFINE n == NextWith(m, Hash[key], j)
<1>5. /\ j # None /\ m.entries[j].key # key /\ w[j] = w[n] /\ j \in Nat
      /\ EndsAt(m, key, j) = FirstOf(Ahead(m, key, j))
  <2>1. w[j] = IF j = None \/ m.entries[j].key = key THEN j ELSE w[n]
    BY <1>4 DEF IsWalk
  <2>2. j \in Nat
    BY <1>1
  <2> QED BY <1>4, <2>1, <2>2 DEF EndsAt
<1>6. CASE n = None /\ Ahead(m, key, j) = {}
  <2>1. w[n] = None
    BY <1>1, <1>6 DEF IsWalk, None
  <2> QED BY <1>4, <1>5, <1>6, <2>1 DEF FirstOf
<1>7. CASE /\ n \in (j + 1) .. L /\ n # None
           /\ m.entries[n].key = key => FirstOf(Ahead(m, key, j)) = n
           /\ m.entries[n].key # key => Ahead(m, key, j) = Ahead(m, key, n)
  <2> HIDE DEF n
  <2>1. w[n] = EndsAt(m, key, n)
    <3>0. n \in (j + 1) .. L /\ j \in 0 .. L /\ d = L - j
      BY <1>4, <1>7
    <3>1. n \in 0 .. L /\ L - n \in 0 .. L /\ L - n < d /\ d \in Nat
      <4> HIDE DEF L
      <4> QED BY <1>1, <3>0
    <3>2. L - n \notin Bad
      <4> DEFINE e == L - n
      <4>1. e < d /\ e \in Int /\ d \in Int
        BY <3>1
      <4> HIDE DEF e, Bad
      <4>2. e \notin Bad
        BY <1>3, <4>1
      <4> QED BY <4>2 DEF e
    <3> QED BY <3>1, <3>2
  <2>2. EndsAt(m, key, n) = FirstOf(Ahead(m, key, j))
    <3>1. CASE m.entries[n].key = key
      BY <1>7, <3>1 DEF EndsAt
    <3>2. CASE m.entries[n].key # key
      BY <1>7, <3>2 DEF EndsAt
    <3> QED BY <3>1, <3>2
  <2> QED BY <1>4, <1>5, <2>1, <2>2 DEF n
<1> QED BY <1>5, <1>6, <1>7, NextAhead

(* A lookup finds an entry with the function, unless there is none.        *)
LEMMA LookupFinds ==
  ASSUME NEW m \in MapperStates, NEW key
  PROVE  LET i == LookupRawEntry(m, key)
         IN \/ i = None /\ \A j \in 1 .. Len(m.entries) : m.entries[j].key # key
            \/ i \in 1 .. Len(m.entries) /\ i # None /\ m.entries[i].key = key
<1> DEFINE L == Len(m.entries)
           n == NextWith(m, Hash[key], 0)
           Is(f) == f = [i \in 0 .. L |->
                           IF i = None \/ Form(m, m.entries[i].key) = Form(m, key) THEN i
                           ELSE f[NextWith(m, Signature(m, key), i)]]
           w == CHOOSE f : Is(f)
           i == LookupRawEntry(m, key)
<1>1. L \in Nat /\ \A f : Is(f) <=> IsWalk(f, m, key)
  BY MapperIs DEF IsWalk
<1>2. i = w[n]
  BY MapperIs DEF LookupRawEntry
<1>3. IsWalk(w, m, key)
  <2>1. PICK f : Is(f)
    BY <1>1, WalkExists
  <2>2. Is(w)
    BY <2>1
  <2> HIDE DEF Is, w
  <2> QED BY <1>1, <2>2
<1> HIDE DEF i, w, Is
<1>4. \A j \in 0 .. L : w[j] = EndsAt(m, key, j)
  BY <1>3, WalkEnds
<1>5. \A j \in Ahead(m, key, 0) : j \in 1 .. L /\ m.entries[j].key = key
  BY DEF Ahead
<1>6. \A j \in 1 .. L : m.entries[j].key = key => j \in Ahead(m, key, 0)
  BY <1>1 DEF Ahead
<1>7. CASE n = None /\ Ahead(m, key, 0) = {}
  <2>1. i = None
    BY <1>1, <1>2, <1>4, <1>7 DEF EndsAt, None
  <2> QED BY <1>6, <1>7, <2>1 DEF i
<1>8. CASE /\ n \in (0 + 1) .. L /\ n # None
           /\ m.entries[n].key = key => FirstOf(Ahead(m, key, 0)) = n
           /\ m.entries[n].key # key => Ahead(m, key, 0) = Ahead(m, key, n)
  <2> HIDE DEF n
  <2>1. i = FirstOf(Ahead(m, key, 0))
    <3>1. i = EndsAt(m, key, n)
      BY <1>1, <1>2, <1>4, <1>8
    <3>2. CASE m.entries[n].key = key
      BY <1>8, <3>1, <3>2 DEF EndsAt
    <3>3. CASE m.entries[n].key # key
      BY <1>8, <3>1, <3>3 DEF EndsAt
    <3> QED BY <3>2, <3>3
  <2>2. CASE Ahead(m, key, 0) = {}
    BY <1>6, <2>1, <2>2 DEF FirstOf, i
  <2>3. CASE Ahead(m, key, 0) # {}
    <3> DEFINE S == Ahead(m, key, 0)
    <3>1. S \subseteq Nat
      BY <1>1 DEF Ahead
    <3>2. i = CHOOSE j \in S : \A k \in S : j <= k
      BY <2>1, <2>3 DEF FirstOf
    <3>3. i \in S
      <4> HIDE DEF S
      <4> QED BY <2>3, <3>1, <3>2, LeastNumber DEF S
    <3> QED BY <1>1, <1>5, <3>3 DEF None, i
  <2> QED BY <2>2, <2>3
<1> QED BY <1>7, <1>8, NextAhead

(* A lookup returns a file of the function, and finds it if it is there.   *)
LEMMA LookupFile ==
  ASSUME NEW m \in MapperStates, NEW key
  PROVE  LookupEntry(m, key) \in FilesOf(key) \cup {NotFound}
<1> DEFINE i == LookupRawEntry(m, key)
<1>1. m.entries \in Seq(TableEntries) /\ \A k : Form(m, k) = k
  BY DEF MapperStates, Form
<1>2. CASE i = None
  BY <1>2 DEF LookupEntry
<1>3. CASE i \in 1 .. Len(m.entries) /\ i # None /\ m.entries[i].key = key
  <2> HIDE DEF i
  <2>1. PICK k \in DOMAIN Table :
          m.entries[i] = [sig |-> Hash[Table[k].key], key |-> Table[k].key, value |-> Table[k].value]
    BY <1>1, <1>3 DEF TableEntries
  <2>2. Table[k].key = key
    BY <1>3, <2>1
  <2>3. LookupEntry(m, key) = Table[k].value
    BY <1>3, <2>1 DEF LookupEntry, i
  <2> QED BY <2>2, <2>3 DEF FilesOf
<1> QED BY <1>2, <1>3, LookupFinds

LEMMA LookupHas ==
  ASSUME NEW m \in MapperStates, NEW k \in DOMAIN Table, Has(m, k)
  PROVE  LookupEntry(m, Table[k].key) = Table[k].value
<1> DEFINE key == Table[k].key
           i == LookupRawEntry(m, key)
<1>1. m.entries \in Seq(TableEntries) /\ \A x : Form(m, x) = x
  BY DEF MapperStates, Form
<1>2. PICK j \in 1 .. Len(m.entries) : m.entries[j].key = key
  BY <1>1 DEF Has
<1>3. i \in 1 .. Len(m.entries) /\ i # None /\ m.entries[i].key = key
  BY <1>2, LookupFinds
<1> HIDE DEF i
<1>4. PICK x \in DOMAIN Table :
        m.entries[i] = [sig |-> Hash[Table[x].key], key |-> Table[x].key, value |-> Table[x].value]
  BY <1>1, <1>3 DEF TableEntries
<1>5. Table[x].key = key
  BY <1>3, <1>4
<1>6. LookupEntry(m, key) = Table[x].value
  BY <1>3, <1>4 DEF LookupEntry, i
<1> QED BY <1>5, <1>6, TableType

-----------------------------------------------------------------------------
(* What the threads know and do in the hook.                               *)

Files == {Table[i].value : i \in DOMAIN Table} \cup {Unknown}
Waiting == [pc : {"check", "create", "allocate", "fill", "lookup", "generic"}, m : Messages]
Filler(pcs, left) ==
  [pc : pcs, m : Messages, filling : [mapper : 1 .. Len(mappers), left : left]]
Writer == [pc : {"write", "generic"}, m : Messages, file : Files]
ThreadStates ==
  {Idle} \cup Waiting \cup Writer
    \cup Filler({"insert"}, 1 .. Len(Table)) \cup Filler({"lookup"}, {0})

Lines == {NoLine, [kind |-> "generic"]}
           \cup [kind : {"loader"}, file : Files, function : {Parsed(m).function : m \in Messages}]

AdvType ==
  /\ mappers \in Seq(MapperStates)
  /\ stringMapper \in (1 .. Len(mappers)) \cup {NoMapper}
  /\ thread \in [Threads -> ThreadStates]
  /\ history \in [Threads -> Seq([message : Messages, line : Lines])]
  /\ failed \in Nat /\ lost \in BOOLEAN

LEMMA AdvTypeInit == Init => AdvType
<1> SUFFICES ASSUME Init PROVE AdvType
  OBVIOUS
<1>1. /\ mappers = <<>> /\ stringMapper = NoMapper /\ thread = [t \in Threads |-> Idle]
      /\ history = [t \in Threads |-> <<>>] /\ failed = 0 /\ lost = FALSE
  BY DEF Init, AdvInit
<1>2. \A S : <<>> \in Seq(S)
  OBVIOUS
<1>3. Idle \in ThreadStates
  BY DEF ThreadStates
<1> QED BY <1>1, <1>2, <1>3 DEF AdvType

(* Where the message of a thread is known, and that new mappers only make  *)
(* more states possible.                                                   *)
LEMMA ThreadKnows ==
  ASSUME AdvType, NEW t \in Threads
  PROVE  /\ thread[t] \in ThreadStates
         /\ ~At(t, "idle") => thread[t].m \in Messages
         /\ thread[t].pc \in {"check", "create", "allocate", "fill"} => thread[t] \in Waiting
         /\ At(t, "insert") => thread[t] \in Filler({"insert"}, 1 .. Len(Table))
         /\ At(t, "write") => thread[t] \in Writer
BY DEF AdvType, ThreadStates, Waiting, Writer, Filler, Idle, At

LEMMA ThreadStep ==
  ASSUME AdvType, NEW t \in Threads, NEW r, thread' = [thread EXCEPT ![t] = r],
         mappers' \in Seq(MapperStates), Len(mappers') >= Len(mappers), r \in ThreadStates'
  PROVE  thread' \in [Threads -> ThreadStates']
<1>1. ThreadStates \subseteq ThreadStates'
  <2>1. Len(mappers) \in Nat /\ Len(mappers') \in Nat
    BY DEF AdvType
  <2>2. 1 .. Len(mappers) \subseteq 1 .. Len(mappers')
    BY <2>1
  <2>3. /\ Filler({"insert"}, 1 .. Len(Table)) \subseteq Filler({"insert"}, 1 .. Len(Table))'
        /\ Filler({"lookup"}, {0}) \subseteq Filler({"lookup"}, {0})'
    BY <2>2 DEF Filler
  <2> QED BY <2>3 DEF ThreadStates, Waiting, Writer
<1> QED BY <1>1 DEF AdvType

(* A message is at its end.                                                *)
LEMMA ReturnType ==
  ASSUME AdvType, NEW t \in Threads, NEW m \in Messages, NEW line \in Lines, Return(t, m, line),
         UNCHANGED <<mappers, stringMapper>>, failed' \in Nat, lost' \in BOOLEAN
  PROVE  AdvType'
<1>1. thread' \in [Threads -> ThreadStates']
  BY DEF Return, AdvType, ThreadStates, Waiting, Writer, Filler
<1>2. history' \in [Threads -> Seq([message : Messages, line : Lines])]
  <2>1. history[t] \in Seq([message : Messages, line : Lines])
    BY DEF AdvType
  <2>2. Append(history[t], [message |-> m, line |-> line]) \in Seq([message : Messages, line : Lines])
    BY <2>1
  <2> QED BY <2>2 DEF Return, AdvType
<1> QED BY <1>1, <1>2 DEF AdvType, Lines

LEMMA HookTypeStep ==
  ASSUME AdvType, NEW t \in Threads, InHook(t)
  PROVE  AdvType'
<1> DEFINE r == thread[t]
<1>0. failed' \in Nat
  <2>1. failed' = failed \/ failed' = failed + 1
    BY HookLeaves
  <2> QED BY <2>1 DEF AdvType
<1>1. CASE DbgPrint(t)
  <2>1. PICK m \in Messages :
          \/ Return(t, m, NoLine)
          \/ /\ thread' = [thread EXCEPT ![t] =
                 [pc |-> IF m.component = "Loader" THEN "check" ELSE "generic", m |-> m]]
             /\ UNCHANGED history
    BY <1>1 DEF DbgPrint
  <2>2. UNCHANGED <<stringMapper, mappers, failed, lost>>
    BY <1>1 DEF DbgPrint
  <2>3. CASE Return(t, m, NoLine)
    BY <1>0, <2>2, <2>3, ReturnType DEF Lines, AdvType
  <2>4. CASE /\ thread' = [thread EXCEPT ![t] =
                 [pc |-> IF m.component = "Loader" THEN "check" ELSE "generic", m |-> m]]
             /\ UNCHANGED history
    <3>1. [pc |-> IF m.component = "Loader" THEN "check" ELSE "generic", m |-> m] \in Waiting
      BY DEF Waiting
    <3>2. thread' \in [Threads -> ThreadStates']
      BY <2>4, <3>1, <2>2 DEF ThreadStates, AdvType, Writer, Filler
    <3> QED BY <3>2, <2>2, <2>4 DEF AdvType, Lines
  <2> QED BY <2>1, <2>3, <2>4
<1>2. CASE Check(t) \/ Reset(t)
  <2>1. r \in Waiting
    BY <1>2, ThreadKnows DEF Check, Reset, Step, At
  <2>2. PICK x \in {"create", "lookup", "allocate"} : thread' = [thread EXCEPT ![t].pc = x]
    BY <1>2 DEF Check, Reset, Goto
  <2>3. thread' = [thread EXCEPT ![t] = [r EXCEPT !.pc = x]] /\ [r EXCEPT !.pc = x] \in Waiting
    BY <2>1, <2>2 DEF Waiting, AdvType
  <2>4. stringMapper' \in {stringMapper, NoMapper} /\ UNCHANGED <<mappers, failed, lost, history>>
    BY <1>2 DEF Check, Reset, Rest
  <2>5. thread' \in [Threads -> ThreadStates']
    BY <2>3, <2>4 DEF ThreadStates, AdvType, Writer, Filler
  <2> QED BY <2>4, <2>5 DEF AdvType, Lines
<1>3. CASE Publish(t)
  <2>1. r \in Waiting
    BY <1>3, ThreadKnows DEF Publish, Step, At
  <2>2. /\ mappers' = Append(mappers, CreateStringMapper(FALSE)) /\ stringMapper' = Len(mappers) + 1
        /\ thread' = [thread EXCEPT ![t] = [r EXCEPT !.pc = "fill"]]
        /\ UNCHANGED <<failed, lost, history>>
    BY <1>3, <2>1 DEF Publish, Goto, Waiting, AdvType
  <2>3. mappers' \in Seq(MapperStates) /\ Len(mappers') = Len(mappers) + 1 /\ Len(mappers) \in Nat
    <3> DEFINE new == CreateStringMapper(FALSE)
    <3>1. mappers \in Seq(MapperStates) /\ new \in MapperStates /\ mappers' = Append(mappers, new)
      BY <2>2, NewMapper DEF AdvType
    <3> HIDE DEF new
    <3> QED BY <3>1
  <2>4. [r EXCEPT !.pc = "fill"] \in ThreadStates'
    BY <2>1 DEF ThreadStates, Waiting
  <2>5. thread' \in [Threads -> ThreadStates']
    <3>1. Len(mappers') >= Len(mappers)
      BY <2>3
    <3> QED BY <2>2, <2>3, <2>4, <3>1, ThreadStep
  <2>6. stringMapper' \in 1 .. Len(mappers')
    BY <2>2, <2>3
  <2> QED BY <2>2, <2>3, <2>5, <2>6 DEF AdvType, Lines
<1>4. CASE AllocateFails(t) \/ Lookup(t)
  <2>1. ~At(t, "idle") /\ r.m \in Messages
    BY <1>4, ThreadKnows DEF AllocateFails, Lookup, Step, At
  <2>2. PICK file \in Files : WithFile(t, file)
    <3>1. CASE AllocateFails(t)
      BY <3>1 DEF AllocateFails, Files
    <3>2. CASE Lookup(t) /\ stringMapper = NoMapper
      BY <3>2 DEF Lookup, Files
    <3>3. CASE Lookup(t) /\ stringMapper # NoMapper
      <4> DEFINE key == Parsed(r.m).function
                 found == LookupEntry(mappers[stringMapper], key)
      <4>1. mappers[stringMapper] \in MapperStates
        BY <3>3 DEF AdvType
      <4>2. found \in FilesOf(key) \cup {NotFound}
        BY <4>1, LookupFile
      <4>3. WithFile(t, IF found = NotFound THEN Unknown ELSE found)
        BY <3>3 DEF Lookup
      <4> HIDE DEF found
      <4> QED BY <4>2, <4>3 DEF FilesOf, Files
    <3> QED BY <1>4, <3>1, <3>2, <3>3
  <2>3. UNCHANGED <<mappers, stringMapper, lost, history>>
    BY <1>4 DEF AllocateFails, Lookup, Rest
  <2>4. [pc |-> "write", m |-> r.m, file |-> file] \in ThreadStates'
    BY <2>1, <2>2 DEF ThreadStates, Writer, Files
  <2>5. thread' \in [Threads -> ThreadStates']
    <3>1. thread' = [thread EXCEPT ![t] = [pc |-> "write", m |-> r.m, file |-> file]]
      BY <2>2 DEF WithFile, AdvType
    <3> QED BY <2>3, <2>4, <3>1 DEF AdvType, ThreadStates, Filler, Waiting, Writer
  <2> QED BY <1>0, <2>3, <2>5 DEF AdvType, Lines
<1>5. CASE Fill(t)
  <2>1. r \in Waiting
    BY <1>5, ThreadKnows DEF Fill, Step, At
  <2>2. UNCHANGED <<mappers, stringMapper, failed, lost, history>>
    BY <1>5 DEF Fill, Rest
  <2>3. CASE stringMapper = NoMapper
    <3>1. thread' = [thread EXCEPT ![t] = [r EXCEPT !.pc = "lookup"]]
          /\ [r EXCEPT !.pc = "lookup"] \in Waiting
      BY <1>5, <2>1, <2>3 DEF Fill, Goto, Waiting, AdvType
    <3> QED BY <2>2, <3>1 DEF AdvType, Lines, ThreadStates, Filler
  <2>4. CASE stringMapper # NoMapper
    <3> DEFINE q == [pc |-> "insert", m |-> r.m,
                     filling |-> [mapper |-> stringMapper, left |-> Len(Table)]]
    <3>1. thread' = [thread EXCEPT ![t] = q]
      BY <1>5, <2>4 DEF Fill, AdvType
    <3>2. q \in Filler({"insert"}, 1 .. Len(Table))
      BY <2>1, <2>4, TableType DEF Filler, AdvType, Waiting
    <3> HIDE DEF q
    <3> QED BY <2>2, <3>1, <3>2 DEF AdvType, Lines, ThreadStates, Filler
  <2> QED BY <2>3, <2>4
<1>6. CASE Insert(t) \/ InsertIsLost(t)
  <2>1. r \in Filler({"insert"}, 1 .. Len(Table))
    BY <1>6, ThreadKnows DEF Insert, InsertIsLost, Step, At
  <2>2. /\ mappers' \in Seq(MapperStates) /\ Len(mappers') = Len(mappers)
        /\ UNCHANGED <<stringMapper, history>> /\ lost' \in BOOLEAN
    <3>1. CASE Insert(t)
      <4>1. r.filling.left \in DOMAIN Table /\ r.filling.mapper \in 1 .. Len(mappers)
        BY <2>1, TableType DEF Filler
      <4>2. mappers[r.filling.mapper] \in MapperStates
        BY <4>1 DEF AdvType
      <4> DEFINE i == r.filling.left
                 k == r.filling.mapper
      <4>3. mappers' = [mappers EXCEPT ![k] = InsertEntry(mappers[k], Table[i].key, Table[i].value)]
        BY <3>1 DEF Insert, Filling
      <4>4. InsertEntry(mappers[k], Table[i].key, Table[i].value) \in MapperStates
        BY <4>1, <4>2, InsertTableEntry
      <4>5. k \in 1 .. Len(mappers) /\ mappers \in Seq(MapperStates)
            /\ UNCHANGED <<stringMapper, history, lost>> /\ lost \in BOOLEAN
        BY <3>1, <4>1 DEF Insert, AdvType
      <4> DEFINE m == InsertEntry(mappers[k], Table[i].key, Table[i].value)
      <4> HIDE DEF i, k, m
      <4>6. mappers' = [mappers EXCEPT ![k] = m] /\ m \in MapperStates
        BY <4>3, <4>4 DEF i, k, m
      <4> QED BY <4>5, <4>6
    <3>2. CASE InsertIsLost(t)
      BY <3>2 DEF InsertIsLost, AdvType
    <3> QED BY <1>6, <3>1, <3>2
  <2>3. /\ thread' \in [Threads -> ThreadStates']
    <3> DEFINE to == IF r.filling.left = 1 THEN "lookup" ELSE "insert"
               q == [pc |-> to, m |-> r.m,
                     filling |-> [mapper |-> r.filling.mapper, left |-> r.filling.left - 1]]
    <3>1. thread' = [thread EXCEPT ![t] = q]
      BY <1>6 DEF Insert, InsertIsLost, Inserted, LastEntry, Filling, AdvType
    <3>2. q \in Filler({"insert"}, 1 .. Len(Table)) \cup Filler({"lookup"}, {0})
      BY <2>1, TableType DEF Filler
    <3> HIDE DEF q
    <3> QED BY <2>2, <3>1, <3>2 DEF AdvType, ThreadStates, Filler
  <2> QED BY <1>0, <2>2, <2>3 DEF AdvType, Lines
<1>7. CASE Write(t) \/ Generic(t)
  <2>1. r.m \in Messages /\ ~At(t, "idle")
    BY <1>7, ThreadKnows DEF Write, Generic, Step, At
  <2>2. UNCHANGED <<mappers, stringMapper, lost>>
    BY <1>7 DEF Write, Generic
  <2>3. CASE \E line \in Lines : Return(t, r.m, line)
    BY <1>0, <2>1, <2>2, <2>3, ReturnType DEF AdvType
  <2>4. CASE Write(t) /\ Goto(t, "generic") /\ UNCHANGED history
    <3>1. r \in Writer
      BY <2>4, ThreadKnows DEF Write, Step, At
    <3>2. /\ thread' = [thread EXCEPT ![t] = [r EXCEPT !.pc = "generic"]]
          /\ [r EXCEPT !.pc = "generic"] \in Writer
      BY <2>4, <3>1 DEF Goto, Writer, AdvType
    <3> QED BY <1>0, <2>2, <2>4, <3>2 DEF AdvType, Lines, ThreadStates, Filler
  <2>5. CASE Write(t) /\ Return(t, r.m, [kind |-> "loader", file |-> r.file, function |-> Parsed(r.m).function])
    <3>1. r \in Writer
      BY <2>5, ThreadKnows DEF Write, Step, At
    <3>2. [kind |-> "loader", file |-> r.file, function |-> Parsed(r.m).function] \in Lines
      BY <3>1 DEF Lines, Writer
    <3> QED BY <2>3, <2>5, <3>2
  <2>6. CASE Generic(t)
    BY <2>3, <2>6 DEF Generic, Lines
  <2> QED BY <1>7, <2>4, <2>5, <2>6 DEF Write
<1> QED BY <1>1, <1>2, <1>3, <1>4, <1>5, <1>6, <1>7 DEF InHook

(* DllMain does nothing to the threads and their mappers.                  *)
LEMMA MainLeaves ==
  ASSUME DllMain
  PROVE  /\ UNCHANGED Logging
         /\ failed' = failed \/ failed' = failed + 1
<1> USE DEF Logging, advVars, MayFail, Install
<1>1. CASE Simple
  BY <1>1 DEF Simple
<1>2. CASE OpenLog \/ RewriteFails \/ InitializeAdvancedLogging \/ Detach
  BY <1>2 DEF OpenLog, RewriteFails, InitializeAdvancedLogging, Detach
<1>3. CASE DisableAVrf \/ NoSpoof \/ SpoofPeb \/ SpoofSharedUserData
  BY <1>3 DEF DisableAVrf, NoSpoof, SpoofPeb, SpoofSharedUserData
<1>4. CASE InstallVersionHook \/ ProtectFails \/ InstallTimeHook
  BY <1>4 DEF InstallVersionHook, ProtectFails, InstallTimeHook
<1> QED BY <1>1, <1>2, <1>3, <1>4 DEF DllMain

LEMMA AliveAreThreads == Alive \subseteq Threads
BY KexDllAssumption DEF Alive

LEMMA AdvTypeStep == AdvType /\ [Next]_vars => AdvType'
<1> SUFFICES ASSUME AdvType, [Next]_vars PROVE AdvType'
  OBVIOUS
<1>1. CASE DllMain
  <2>1. UNCHANGED Logging /\ failed' \in Nat
    BY <1>1, MainLeaves DEF AdvType
  <2> QED BY <2>1 DEF Logging, AdvType, ThreadStates, Filler, Lines
<1>2. CASE UNCHANGED vars
  BY <1>2 DEF vars, advVars, AdvType, ThreadStates, Filler, Lines
<1>3. CASE \E t \in Alive : InHook(t)
  BY <1>3, AliveAreThreads, HookTypeStep
<1> QED BY <1>1, <1>2, <1>3 DEF Next

-----------------------------------------------------------------------------
(* Under which file a message is logged.                                   *)

FileInv ==
  /\ \A t \in Threads : At(t, "write") =>
        thread[t].file \in FilesOf(Parsed(thread[t].m).function) \cup {Unknown}
  /\ \A t \in Threads : \A i \in Logged(t) :
        LET line == history[t][i].line
        IN line.file \in FilesOf(line.function) \cup {Unknown}

(* What a step in the hook does to the thread and to the messages.         *)
LEMMA HookFrame ==
  ASSUME AdvType, NEW t \in Threads, InHook(t)
  PROVE  /\ \A u \in Threads \ {t} : thread'[u] = thread[u] /\ history'[u] = history[u]
         /\ \/ history'[t] = history[t]
            \/ /\ \E m \in Messages : \E line : history'[t] = Append(history[t], [message |-> m, line |-> line])
               /\ thread'[t] = Idle
<1> USE DEF AdvType, Rest
<1>1. CASE \E m \in Messages : \E line : Return(t, m, line)
  BY <1>1 DEF Return
<1>2. CASE (\E q : thread' = [thread EXCEPT ![t] = q]) /\ history' = history
  BY <1>2
<1>3. CASE DbgPrint(t)
  <2>1. PICK m \in Messages :
          \/ Return(t, m, NoLine)
          \/ /\ thread' = [thread EXCEPT ![t] =
                 [pc |-> IF m.component = "Loader" THEN "check" ELSE "generic", m |-> m]]
             /\ UNCHANGED history
    BY <1>3 DEF DbgPrint
  <2> QED BY <1>1, <1>2, <2>1
<1>4. CASE Check(t) \/ Reset(t) \/ Publish(t)
  BY <1>2, <1>4 DEF Check, Reset, Publish, Goto
<1>5. CASE AllocateFails(t) \/ Lookup(t)
  BY <1>2, <1>5 DEF AllocateFails, Lookup, WithFile
<1>6. CASE Fill(t)
  BY <1>2, <1>6 DEF Fill, Goto
<1>7. CASE Insert(t) \/ InsertIsLost(t)
  BY <1>2, <1>7 DEF Insert, InsertIsLost, Inserted
<1>8. CASE Write(t) \/ Generic(t)
  <2>1. thread[t].m \in Messages
    BY <1>8, ThreadKnows DEF Write, Generic, Step, At
  <2> QED BY <1>1, <1>2, <1>8, <2>1 DEF Write, Generic, Goto
<1> QED BY <1>3, <1>4, <1>5, <1>6, <1>7, <1>8 DEF InHook

LEMMA AppendElements ==
  ASSUME NEW S, NEW h \in Seq(S), NEW e \in S, NEW i \in DOMAIN Append(h, e)
  PROVE  \/ i \in DOMAIN h /\ Append(h, e)[i] = h[i]
         \/ Append(h, e)[i] = e
OBVIOUS

(* Where a line of the log comes from.                                     *)
LoggedAs(t, m, line) ==
  /\ Return(t, m, line)
  /\ \/ /\ DbgPrint(t) /\ line = NoLine
        /\ ~m.fits \/ (m.component = "Loader" /\ ~IsError(m))
     \/ /\ Write(t) /\ m = thread[t].m
        /\ line = [kind |-> "loader", file |-> thread[t].file, function |-> Parsed(m).function]
     \/ /\ Generic(t) /\ m = thread[t].m
        /\ \/ line = [kind |-> "generic"] /\ log = "open"
           \/ line = NoLine /\ (log = "open" => MayFail)

LEMMA HookLines ==
  ASSUME AdvType, NEW t \in Threads, InHook(t), NEW u \in Threads, NEW i \in DOMAIN history'[u]
  PROVE  \/ i \in DOMAIN history[u] /\ history'[u][i] = history[u][i]
         \/ u = t /\ \E m \in Messages, line \in Lines :
              history'[u][i] = [message |-> m, line |-> line] /\ LoggedAs(t, m, line)
<1>1. CASE history'[u] = history[u]
  BY <1>1
<1>2. CASE u = t /\ \E m \in Messages, line \in Lines : LoggedAs(t, m, line)
  <2>1. PICK m \in Messages, line \in Lines : LoggedAs(t, m, line)
    BY <1>2
  <2> DEFINE e == [message |-> m, line |-> line]
             S == [message : Messages, line : Lines]
  <2>2. history[t] \in Seq(S) /\ e \in S
    BY DEF AdvType
  <2>3. history'[t] = Append(history[t], e)
    BY <2>1 DEF LoggedAs, Return, AdvType
  <2>4. \/ i \in DOMAIN history[t] /\ history'[t][i] = history[t][i]
        \/ history'[t][i] = e
    <3> HIDE DEF e, S
    <3> QED BY <1>2, <2>2, <2>3, AppendElements
  <2> QED BY <1>2, <2>1, <2>4
<1>3. CASE u # t
  BY <1>1, <1>3, HookFrame
<1>4. CASE u = t
  <2>1. CASE Check(t) \/ Reset(t) \/ Publish(t) \/ AllocateFails(t) \/ Fill(t) \/ Insert(t)
             \/ InsertIsLost(t) \/ Lookup(t)
    BY <1>1, <2>1 DEF Check, Reset, Publish, AllocateFails, Fill, Insert, InsertIsLost, Lookup, Rest
  <2>2. CASE DbgPrint(t)
    <3>1. PICK m \in Messages :
            \/ Return(t, m, NoLine) /\ (~m.fits \/ (m.component = "Loader" /\ ~IsError(m)))
            \/ UNCHANGED history
      BY <2>2 DEF DbgPrint
    <3>2. NoLine \in Lines
      BY DEF Lines
    <3> QED BY <1>1, <1>2, <1>4, <2>2, <3>1, <3>2 DEF LoggedAs
  <2>3. CASE Write(t)
    <3>1. thread[t] \in Writer
      BY <2>3, ThreadKnows DEF Write, Step
    <3>2. [kind |-> "loader", file |-> thread[t].file, function |-> Parsed(thread[t].m).function] \in Lines
      BY <3>1 DEF Lines, Writer
    <3>3. thread[t].m \in Messages
      BY <3>1 DEF Writer
    <3> QED BY <1>1, <1>2, <1>4, <2>3, <3>2, <3>3 DEF LoggedAs, Write
  <2>4. CASE Generic(t)
    <3>1. thread[t].m \in Messages
      BY <2>4, ThreadKnows DEF Generic, Step, At
    <3>2. NoLine \in Lines /\ [kind |-> "generic"] \in Lines
      BY DEF Lines
    <3> QED BY <1>2, <1>4, <2>4, <3>1, <3>2 DEF LoggedAs, Generic, MayFail
  <2> QED BY <2>1, <2>2, <2>3, <2>4 DEF InHook
<1> QED BY <1>3, <1>4

(* Where a thread is after a step.                                         *)
LEMMA HookThread ==
  ASSUME AdvType, NEW t \in Threads, InHook(t)
  PROVE  \/ thread'[t] = Idle
         \/ \E m \in Messages :
              /\ thread'[t] = [pc |-> IF m.component = "Loader" THEN "check" ELSE "generic", m |-> m]
              /\ m.fits /\ (m.component = "Loader" => IsError(m))
         \/ /\ ~At(t, "idle") /\ thread'[t].pc # "idle" /\ thread'[t].m = thread[t].m
            /\ thread'[t].pc = "write" =>
                 thread'[t].file \in FilesOf(Parsed(thread[t].m).function) \cup {Unknown}
            /\ thread'[t].pc = "generic" =>
                 At(t, "write") /\ (log = "open" => failed' = failed + 1)
            /\ At(t, "generic") => thread'[t] = thread[t]
<1> USE DEF AdvType
<1>1. CASE \E m, line : Return(t, m, line)
  BY <1>1 DEF Return
<1>2. CASE DbgPrint(t)
  <2>1. PICK m \in Messages :
          \/ Return(t, m, NoLine)
          \/ /\ thread' = [thread EXCEPT ![t] =
                 [pc |-> IF m.component = "Loader" THEN "check" ELSE "generic", m |-> m]]
             /\ m.fits /\ (m.component = "Loader" => IsError(m))
    BY <1>2 DEF DbgPrint
  <2> QED BY <1>1, <2>1
<1>3. CASE Check(t) \/ Reset(t) \/ Publish(t)
  <2>1. thread[t] \in Waiting /\ ~At(t, "idle") /\ ~At(t, "generic")
    BY <1>3, ThreadKnows DEF Check, Reset, Publish, Step, At
  <2>2. PICK x \in {"create", "lookup", "allocate", "fill"} : thread'[t] = [thread[t] EXCEPT !.pc = x]
    BY <1>3 DEF Check, Reset, Publish, Goto
  <2>3. thread'[t] = [pc |-> x, m |-> thread[t].m]
    BY <2>1, <2>2 DEF Waiting
  <2> QED BY <2>1, <2>3
<1>4. CASE AllocateFails(t) \/ Lookup(t)
  <2>1. ~At(t, "idle") /\ ~At(t, "generic")
    BY <1>4 DEF AllocateFails, Lookup, Step, At
  <2> DEFINE key == Parsed(thread[t].m).function
             found == LookupEntry(mappers[stringMapper], key)
  <2>2. PICK file \in FilesOf(key) \cup {Unknown} : WithFile(t, file)
    <3>1. CASE AllocateFails(t) \/ stringMapper = NoMapper
      BY <1>4, <3>1 DEF AllocateFails, Lookup
    <3>2. CASE Lookup(t) /\ stringMapper # NoMapper
      <4>1. found \in FilesOf(key) \cup {NotFound}
        BY <3>2, LookupFile
      <4>2. WithFile(t, IF found = NotFound THEN Unknown ELSE found)
        BY <3>2 DEF Lookup
      <4> HIDE DEF found, key
      <4> QED BY <4>1, <4>2
    <3> QED BY <1>4, <3>1, <3>2
  <2>3. thread'[t] = [pc |-> "write", m |-> thread[t].m, file |-> file]
    BY <2>2 DEF WithFile
  <2> QED BY <2>1, <2>2, <2>3
<1>5. CASE Fill(t)
  <2>1. thread[t] \in Waiting /\ ~At(t, "idle") /\ ~At(t, "generic")
    BY <1>5, ThreadKnows DEF Fill, Step, At
  <2>2. CASE stringMapper = NoMapper
    <3>1. thread'[t] = [pc |-> "lookup", m |-> thread[t].m]
      BY <1>5, <2>1, <2>2 DEF Fill, Goto, Waiting
    <3> QED BY <2>1, <3>1
  <2>3. CASE stringMapper # NoMapper
    <3>1. thread'[t].pc = "insert" /\ thread'[t].m = thread[t].m
      BY <1>5, <2>3 DEF Fill
    <3> QED BY <2>1, <3>1
  <2> QED BY <2>2, <2>3
<1>6. CASE Insert(t) \/ InsertIsLost(t)
  <2>1. ~At(t, "idle") /\ ~At(t, "generic") /\ Inserted(t)
    BY <1>6 DEF Insert, InsertIsLost, Step, At
  <2>2. thread'[t].pc \in {"lookup", "insert"} /\ thread'[t].m = thread[t].m
    BY <2>1 DEF Inserted
  <2> QED BY <2>1, <2>2
<1>7. CASE Write(t)
  <2>1. thread[t] \in Writer /\ At(t, "write")
    BY <1>7, ThreadKnows DEF Write, Step
  <2>2. CASE Goto(t, "generic") /\ (log = "open" => MayFail)
    <3>1. thread'[t].pc = "generic" /\ thread'[t].m = thread[t].m
      BY <2>1, <2>2 DEF Goto, Writer
    <3> QED BY <2>1, <2>2, <3>1 DEF MayFail, At
  <2> QED BY <1>1, <1>7, <2>2 DEF Write
<1>8. CASE Generic(t)
  BY <1>1, <1>8 DEF Generic
<1> QED BY <1>2, <1>3, <1>4, <1>5, <1>6, <1>7, <1>8 DEF InHook

LEMMA FileInit == Init => FileInv
BY DEF Init, AdvInit, FileInv, At, Idle, Logged

LEMMA FileHookStep ==
  ASSUME AdvType, FileInv, NEW t \in Threads, InHook(t)
  PROVE  FileInv'
<1>1. ASSUME NEW u \in Threads, At(u, "write")'
      PROVE  thread'[u].file \in FilesOf(Parsed(thread'[u].m).function) \cup {Unknown}
  <2>1. CASE thread'[u] = thread[u]
    BY <1>1, <2>1 DEF FileInv, At
  <2>2. CASE u = t
    <3>1. thread'[t].pc = "write"
      BY <1>1, <2>2 DEF At
    <3>2. thread'[t] # Idle
      BY <3>1 DEF Idle
    <3>3. ASSUME NEW m, thread'[t] =
                   [pc |-> IF m.component = "Loader" THEN "check" ELSE "generic", m |-> m]
          PROVE  FALSE
      BY <3>1, <3>3
    <3>4. /\ thread'[t].m = thread[t].m
          /\ thread'[t].file \in FilesOf(Parsed(thread[t].m).function) \cup {Unknown}
      BY <3>1, <3>2, <3>3, HookThread
    <3> QED BY <2>2, <3>4
  <2> QED BY <2>1, <2>2, HookFrame
<1>2. ASSUME NEW u \in Threads, NEW i \in Logged(u)'
      PROVE  LET line == history'[u][i].line
             IN line.file \in FilesOf(line.function) \cup {Unknown}
  <2>1. CASE i \in DOMAIN history[u] /\ history'[u][i] = history[u][i]
    BY <1>2, <2>1 DEF FileInv, Logged
  <2>2. CASE u = t /\ \E m \in Messages, line \in Lines :
              history'[u][i] = [message |-> m, line |-> line] /\ LoggedAs(t, m, line)
    <3>1. PICK m \in Messages, line \in Lines :
              history'[u][i] = [message |-> m, line |-> line] /\ LoggedAs(t, m, line)
      BY <2>2
    <3>2. line.kind = "loader"
      BY <1>2, <3>1 DEF Logged
    <3>3. /\ At(t, "write") /\ m = thread[t].m
          /\ line = [kind |-> "loader", file |-> thread[t].file, function |-> Parsed(m).function]
      BY <3>1, <3>2 DEF LoggedAs, NoLine, Write, Step
    <3>4. thread[t].file \in FilesOf(Parsed(m).function) \cup {Unknown}
      BY <3>3 DEF FileInv
    <3> QED BY <3>1, <3>3, <3>4
  <2> QED BY <1>2, <2>1, <2>2, HookLines DEF Logged
<1> QED BY <1>1, <1>2 DEF FileInv

-----------------------------------------------------------------------------
(* Whether the mapper has every function.                                  *)

(* Thread t has inserted into the mapper everything behind its entry.      *)
Fills(t) ==
  /\ At(t, "insert") /\ Filling(t).mapper = stringMapper
  /\ \A i \in DOMAIN Table : i > Filling(t).left => Has(mappers[stringMapper], i)

(* The mapper that all later messages use is filled by now, or somebody    *)
(* still has to do it: whoever stored it, if it was not replaced since.    *)
FillInv ==
  stringMapper # NoMapper /\ failed = 0 /\ ~lost =>
    \/ \E t \in Threads : At(t, "fill") \/ Fills(t)
    \/ \A i \in DOMAIN Table : Has(mappers[stringMapper], i)

LEMMA InsertDoes ==
  ASSUME AdvType, NEW t \in Threads, Insert(t)
  PROVE  LET i == Filling(t).left
             k == Filling(t).mapper
             m == InsertEntry(mappers[k], Table[i].key, Table[i].value)
         IN /\ i \in DOMAIN Table /\ k \in 1 .. Len(mappers) /\ mappers[k] \in MapperStates
            /\ mappers' = [mappers EXCEPT ![k] = m]
            /\ thread'[t] = [pc |-> IF i = 1 THEN "lookup" ELSE "insert", m |-> thread[t].m,
                             filling |-> [mapper |-> k, left |-> i - 1]]
            /\ Has(mappers'[k], i)
            /\ \A j \in 1 .. Len(mappers), x \in DOMAIN Table :
                 Has(mappers[j], x) => Has(mappers'[j], x)
<1> DEFINE i == Filling(t).left
           k == Filling(t).mapper
           m == InsertEntry(mappers[k], Table[i].key, Table[i].value)
<1>1. thread[t] \in Filler({"insert"}, 1 .. Len(Table))
  BY ThreadKnows DEF Insert, Step
<1>2. i \in DOMAIN Table /\ k \in 1 .. Len(mappers)
  BY <1>1, TableType DEF Filler, Filling
<1>3. mappers[k] \in MapperStates /\ mappers \in Seq(MapperStates)
  BY <1>2 DEF AdvType
<1>4. mappers' = [mappers EXCEPT ![k] = m]
  BY DEF Insert
<1>5. thread'[t] = [pc |-> IF i = 1 THEN "lookup" ELSE "insert", m |-> thread[t].m,
                    filling |-> [mapper |-> k, left |-> i - 1]]
  BY DEF Insert, Inserted, LastEntry, AdvType
<1>6. Has(m, i) /\ \A x \in DOMAIN Table : Has(mappers[k], x) => Has(m, x)
  BY <1>2, <1>3, InsertTableEntry
<1>7. mappers'[k] = m /\ \A j \in 1 .. Len(mappers) : j # k => mappers'[j] = mappers[j]
  <2> HIDE DEF m, k
  <2> QED BY <1>2, <1>3, <1>4
<1> HIDE DEF m, k, i
<1>8. \A j \in 1 .. Len(mappers), x \in DOMAIN Table : Has(mappers[j], x) => Has(mappers'[j], x)
  BY <1>6, <1>7
<1> QED BY <1>2, <1>3, <1>4, <1>5, <1>6, <1>7, <1>8 DEF m, k, i

LEMMA FillInit == Init => FillInv
BY DEF Init, AdvInit, FillInv

LEMMA FillHookStep ==
  ASSUME AdvType, FillInv, NEW t \in Threads, InHook(t)
  PROVE  FillInv'
<1>1. SUFFICES ASSUME stringMapper' # NoMapper, failed' = 0, ~lost'
      PROVE  (\/ \E u \in Threads : At(u, "fill") \/ Fills(u)
              \/ \A i \in DOMAIN Table : Has(mappers[stringMapper], i))'
  BY DEF FillInv
<1>2. failed = 0
  <2>1. failed' = failed \/ failed' = failed + 1
    BY HookLeaves
  <2>2. failed \in Nat
    BY DEF AdvType
  <2> QED BY <1>1, <2>1, <2>2
<1>3. ~lost
  BY <1>1 DEF InHook, DbgPrint, Check, Reset, Publish, AllocateFails, Fill, Insert, InsertIsLost,
              Lookup, Write, Generic, Rest, AdvType
<1>4. ~InsertIsLost(t)
  <2>1. InsertIsLost(t) => failed' = failed + 1 \/ lost' = TRUE
    BY DEF InsertIsLost, MayFail
  <2> QED BY <1>1, <1>2, <2>1
<1>5. ~Reset(t)
  BY <1>1 DEF Reset
<1>6. CASE Publish(t)
  <2>1. thread[t] \in Waiting
    BY <1>6, ThreadKnows DEF Publish, Step, At
  <2>2. At(t, "fill")'
    BY <1>6, <2>1 DEF Publish, Goto, At, AdvType, Waiting
  <2> QED BY <2>2
<1>7. CASE ~Publish(t)
  <2>1. stringMapper' = stringMapper /\ (Insert(t) \/ mappers' = mappers)
    BY <1>4, <1>5, <1>7 DEF InHook, DbgPrint, Check, AllocateFails, Fill, Insert, Lookup, Write,
                            Generic, Rest
  <2>2. stringMapper \in 1 .. Len(mappers) /\ stringMapper # NoMapper
    BY <1>1, <2>1 DEF AdvType
  <2>3. \A i \in DOMAIN Table : Has(mappers[stringMapper], i) => Has(mappers'[stringMapper], i)
    BY <2>1, <2>2, InsertDoes
  <2>4. CASE \A i \in DOMAIN Table : Has(mappers[stringMapper], i)
    BY <2>1, <2>3, <2>4
  <2>5. ASSUME NEW u \in Threads, u # t, At(u, "fill") \/ Fills(u)
        PROVE  At(u, "fill")' \/ Fills(u)'
    <3>1. thread'[u] = thread[u]
      BY <2>5, HookFrame
    <3> QED BY <2>1, <2>3, <2>5, <3>1 DEF At, Fills, Filling
  <2>6. CASE At(t, "fill")
    <3>1. Fill(t)
      BY <1>7, <2>6, <1>4, <1>5 DEF InHook, DbgPrint, Check, AllocateFails, Insert, Lookup, Write,
                            Generic, Step, At
    <3>2. thread'[t] = [pc |-> "insert", m |-> thread[t].m,
                        filling |-> [mapper |-> stringMapper, left |-> Len(Table)]]
      BY <2>2, <3>1 DEF Fill, AdvType
    <3>3. \A i \in DOMAIN Table : ~(i > Len(Table))
      BY TableType
    <3>4. Fills(t)'
      BY <2>1, <3>2, <3>3 DEF Fills, At, Filling
    <3> QED BY <3>4
  <2>7. CASE Fills(t)
    <3>1. Insert(t)
      BY <1>7, <2>7, <1>4, <1>5 DEF Fills, InHook, DbgPrint, Check, AllocateFails, Fill, Lookup, Write,
                            Generic, Step, At
    <3> DEFINE i == Filling(t).left
    <3>2. /\ i \in DOMAIN Table /\ Has(mappers'[stringMapper], i)
          /\ thread'[t] = [pc |-> IF i = 1 THEN "lookup" ELSE "insert", m |-> thread[t].m,
                            filling |-> [mapper |-> stringMapper, left |-> i - 1]]
      BY <2>7, <3>1, InsertDoes DEF Fills
    <3>3. \A x \in DOMAIN Table : x > i => Has(mappers'[stringMapper], x)
      BY <2>3, <2>7 DEF Fills
    <3> HIDE DEF i
    <3>4. \A x \in DOMAIN Table : x > i - 1 => Has(mappers'[stringMapper], x)
      BY <3>2, <3>3, TableType
    <3>5. CASE i = 1
      BY <2>1, <3>4, <3>5, TableType
    <3>6. CASE i # 1
      <4>1. Fills(t)'
        BY <2>1, <3>2, <3>4, <3>6 DEF Fills, At, Filling
      <4> QED BY <4>1
    <3> QED BY <3>5, <3>6
  <2> QED BY <1>2, <1>3, <2>2, <2>4, <2>5, <2>6, <2>7 DEF FillInv
<1> QED BY <1>6, <1>7

LEMMA SourceMainStep ==
  ASSUME AdvType, FileInv, FillInv, DllMain \/ UNCHANGED vars
  PROVE  FileInv' /\ FillInv'
<1>1. /\ thread' = thread /\ history' = history /\ mappers' = mappers
      /\ stringMapper' = stringMapper /\ lost' = lost
      /\ failed' = failed \/ failed' = failed + 1
  BY MainLeaves DEF Logging, vars, advVars
<1>2. failed' = 0 => failed = 0
  BY <1>1 DEF AdvType
<1> QED BY <1>1, <1>2 DEF FileInv, FillInv, Fills, Filling, At, Logged

SourceInv == AdvType /\ FileInv /\ FillInv

LEMMA SourceStep == SourceInv /\ [Next]_vars => SourceInv'
<1> SUFFICES ASSUME SourceInv, [Next]_vars PROVE SourceInv'
  OBVIOUS
<1>1. AdvType'
  BY AdvTypeStep DEF SourceInv
<1>2. CASE DllMain \/ UNCHANGED vars
  BY <1>1, <1>2, SourceMainStep DEF SourceInv
<1>3. CASE \E t \in Alive : InHook(t)
  BY <1>1, <1>3, AliveAreThreads, FileHookStep, FillHookStep DEF SourceInv
<1> QED BY <1>2, <1>3 DEF Next

LEMMA SourceIsRight == SourceInv => SourceFileIsRight
<1> SUFFICES ASSUME SourceInv PROVE SourceFileIsRight
  OBVIOUS
<1>1. ASSUME NEW t \in Threads, NEW i \in Logged(t)
      PROVE  LET line == history[t][i].line
             IN line.file \in FilesOf(line.function) \cup {Unknown}
  BY DEF SourceInv, FileInv
<1>2. ASSUME stringMapper # NoMapper, failed = 0, ~lost, \A t \in Threads : ~Busy(t),
             NEW i \in DOMAIN Table
      PROVE  LookupEntry(mappers[stringMapper], Table[i].key) = Table[i].value
  <2>1. \A t \in Threads : ~At(t, "fill") /\ ~Fills(t)
    BY <1>2 DEF Busy, Fills, At
  <2>2. Has(mappers[stringMapper], i)
    BY <1>2, <2>1 DEF SourceInv, FillInv
  <2>3. mappers[stringMapper] \in MapperStates
    BY <1>2 DEF SourceInv, AdvType
  <2> QED BY <2>2, <2>3, LookupHas
<1> QED BY <1>1, <1>2 DEF SourceFileIsRight

(* A line of the loader in the log names the file of its function or none, *)
(* and the mapper has every function once nobody is at work on it,         *)
(* whichever of the threads created and filled which mapper (advlog.c      *)
(* 226-245).                                                               *)
THEOREM SourceFileIsAlwaysRight == Spec => []SourceFileIsRight
<1>1. Init => SourceInv
  BY AdvTypeInit, FileInit, FillInit DEF SourceInv
<1> QED BY <1>1, SourceStep, SourceIsRight, PTL DEF Spec

-----------------------------------------------------------------------------
(* The text of a prefix.                                                   *)

(* What is behind the first k elements.                                    *)
LEMMA TailPlaces ==
  ASSUME NEW S, NEW p \in Seq(S), NEW k \in Nat, NEW n \in Nat, Len(p) = k + n,
         NEW b, b = SubSeq(p, k + 1, Len(p))
  PROVE  /\ b \in Seq(S) /\ Len(b) = n
         /\ \A i \in 1 .. n : b[i] = p[k + i]
<1>1. \A i \in (k + 1) .. Len(p) : p[i] \in S
  <2>1. \A i \in (k + 1) .. Len(p) : i \in 1 .. Len(p)
    OBVIOUS
  <2> QED BY <2>1, ElementOfSeq
<1> DEFINE L == Len(p)
           F == k + 1
           c == SubSeq(p, F, L)
<1>2. F \in Int /\ L \in Int /\ b = c /\ L = k + n
  OBVIOUS
<1> HIDE DEF L, F
<1>3. /\ c \in Seq(S) /\ Len(c) = IF F <= L THEN L - F + 1 ELSE 0
      /\ \A i \in 1 .. L - F + 1 : c[i] = p[F + i - 1]
  BY <1>1, <1>2, SubSeqProperties DEF F, L
<1> HIDE DEF c
<1>4. F = k + 1
  BY DEF F
<1> QED BY <1>2, <1>3, <1>4

(* The name of the function and the severity, behind the fixed part.       *)
IsBehind(S, zeros, dash, f, s, tail, b) ==
  /\ zeros \in Seq(S) /\ dash \in Seq(S) /\ f \in Seq(S) /\ s \in Seq(S) /\ tail \in Seq(S)
  /\ Len(dash) >= 1 /\ Len(s) >= 2
  /\ LET p == zeros \o dash \o f \o dash \o s \o tail
     IN b = SubSeq(p, Len(zeros) + Len(dash) + 1, Len(p))

LEMMA BehindFixedPart ==
  ASSUME NEW S, NEW zeros, NEW dash, NEW f, NEW s, NEW tail, NEW b,
         IsBehind(S, zeros, dash, f, s, tail, b)
  PROVE  /\ b \in Seq(S) /\ Len(b) = Len(f) + Len(dash) + Len(s) + Len(tail)
         /\ \A i \in 1 .. Len(f) : b[i] = f[i]
         /\ b[Len(f) + 1] = dash[1] /\ b[Len(f) + Len(dash) + 2] = s[2]
<1> DEFINE z == Len(zeros)
           d == Len(dash)
           n == Len(f)
           e == Len(s)
           l == Len(tail)
           p == zeros \o dash \o f \o dash \o s \o tail
           p2 == zeros \o dash
           p3 == p2 \o f
           p4 == p3 \o dash
           p5 == p4 \o s
           p6 == p5 \o tail
<1>s. /\ zeros \in Seq(S) /\ dash \in Seq(S) /\ f \in Seq(S) /\ s \in Seq(S) /\ tail \in Seq(S)
      /\ d >= 1 /\ e >= 2 /\ b = SubSeq(p, z + d + 1, Len(p))
  BY DEF IsBehind
<1>0. z \in Nat /\ d \in Nat /\ n \in Nat /\ e \in Nat /\ l \in Nat
  BY <1>s, LenProperties
<1>a. /\ p2 = zeros \o dash /\ p3 = p2 \o f /\ p4 = p3 \o dash /\ p5 = p4 \o s /\ p6 = p5 \o tail
      /\ p = p6
      /\ z = Len(zeros) /\ d = Len(dash) /\ n = Len(f) /\ e = Len(s) /\ l = Len(tail)
  OBVIOUS
<1> HIDE DEF z, d, n, e, l, p, p2, p3, p4, p5, p6
<1>1. p2 \in Seq(S) /\ Len(p2) = z + d
  BY <1>s, <1>a
<1>2. p3 \in Seq(S) /\ Len(p3) = z + d + n
  BY <1>s, <1>a, <1>1
<1>2a. \A i \in 1 .. n : p3[z + d + i] = f[i]
  BY <1>0, <1>s, <1>a, <1>1
<1>3. p4 \in Seq(S) /\ Len(p4) = z + d + n + d
  BY <1>s, <1>a, <1>2
<1>3a. \A i \in 1 .. z + d + n : p4[i] = p3[i]
  BY <1>0, <1>s, <1>a, <1>2
<1>3b. p4[z + d + n + 1] = dash[1]
  BY <1>0, <1>s, <1>a, <1>2
<1>4. p5 \in Seq(S) /\ Len(p5) = z + d + n + d + e
  BY <1>s, <1>a, <1>3
<1>4a. \A i \in 1 .. z + d + n + d : p5[i] = p4[i]
  BY <1>0, <1>s, <1>a, <1>3
<1>4b. p5[z + d + n + d + 2] = s[2]
  BY <1>0, <1>s, <1>a, <1>3
<1>5. p \in Seq(S) /\ Len(p) = z + d + n + d + e + l
  BY <1>s, <1>a, <1>4
<1>5a. \A i \in 1 .. z + d + n + d + e : p[i] = p5[i]
  <2>1. p5 \in Seq(S) /\ tail \in Seq(S) /\ p6 = p5 \o tail
    BY <1>s, <1>a, <1>4
  <2>2. \A i \in 1 .. Len(p5) : p6[i] = p5[i]
    BY <2>1
  <2> QED BY <1>a, <1>4, <2>2
<1>6. p[z + d + n + 1] = dash[1] /\ p[z + d + n + d + 2] = s[2]
  <2>1. z + d + n + 1 \in 1 .. z + d + n + d /\ z + d + n + 1 \in 1 .. z + d + n + d + e
    BY <1>0, <1>s
  <2>2. z + d + n + d + 2 \in 1 .. z + d + n + d + e
    BY <1>0, <1>s
  <2> QED BY <1>3b, <1>4a, <1>4b, <1>5a, <2>1, <2>2
<1>7. \A i \in 1 .. n : p[z + d + i] = f[i]
  <2> SUFFICES ASSUME NEW i \in 1 .. n PROVE p[z + d + i] = f[i]
    OBVIOUS
  <2>1. /\ z + d + i \in 1 .. z + d + n
        /\ z + d + i \in 1 .. z + d + n + d
        /\ z + d + i \in 1 .. z + d + n + d + e
    BY <1>0, <1>s
  <2> QED BY <1>2a, <1>3a, <1>4a, <1>5a, <2>1
<1>10. /\ b \in Seq(S) /\ Len(b) = n + d + e + l
       /\ \A i \in 1 .. n + d + e + l : b[i] = p[z + d + i]
  <2> DEFINE k == z + d
             r == n + d + e + l
  <2>1. k \in Nat /\ r \in Nat /\ Len(p) = k + r /\ b = SubSeq(p, k + 1, Len(p))
    BY <1>0, <1>s, <1>5
  <2> HIDE DEF k, r
  <2>2. /\ b \in Seq(S) /\ Len(b) = r
        /\ \A i \in 1 .. r : b[i] = p[k + i]
    BY <1>5, <2>1, TailPlaces
  <2> QED BY <2>2 DEF k, r
<1>11. (\A i \in 1 .. n : b[i] = f[i]) /\ b[n + 1] = dash[1] /\ b[n + d + 2] = s[2]
  <2>1. \A i \in 1 .. n : i \in 1 .. n + d + e + l
    BY <1>0, <1>s
  <2>2. n + 1 \in 1 .. n + d + e + l /\ z + d + (n + 1) = z + d + n + 1
    BY <1>0, <1>s
  <2>3. n + d + 2 \in 1 .. n + d + e + l /\ z + d + (n + d + 2) = z + d + n + d + 2
    BY <1>0, <1>s
  <2> QED BY <1>6, <1>7, <1>10, <2>1, <2>2, <2>3
<1> QED BY <1>a, <1>10, <1>11

LEMMA SeverityLetters ==
  ASSUME NEW s \in Severities
  PROVE  /\ Len(s) = 2 /\ s \in Seq({"E", "R", "W", "A", "I", "N"})
         /\ s[2] = "R" <=> s = ErrorSeverity
<1> DEFINE L == {"E", "R", "W", "A", "I", "N"}
<1>1. ASSUME NEW x \in L, NEW y \in L, s = <<x, y>>
      PROVE  Len(s) = 2 /\ s \in Seq(L) /\ s[2] = y
  <2> HIDE DEF L
  <2> QED BY <1>1
<1>2. CASE s = <<"E", "R">>
  BY <1>1, <1>2 DEF ErrorSeverity
<1>3. CASE s = <<"W", "A">>
  BY <1>1, <1>3 DEF ErrorSeverity
<1>4. CASE s = <<"I", "N">>
  BY <1>1, <1>4 DEF ErrorSeverity
<1>5. CASE s = <<"E", "N">>
  BY <1>1, <1>5 DEF ErrorSeverity
<1>6. CASE s = <<"R", "E">>
  BY <1>1, <1>6 DEF ErrorSeverity
<1> QED BY <1>2, <1>3, <1>4, <1>5, <1>6 DEF Severities, ErrorSeverity

(* When the characters that are skipped end at the beginning of the name   *)
(* or inside of it, what is left of the name and the severity are found.   *)
LEMMA PrefixIsParsed ==
  ASSUME NEW m \in Messages, NEW k, k = SkipCch - m.lead, k \in 0 .. Len(m.function)
  PROVE  /\ Parsed(m).function = SubSeq(m.function, k + 1, Len(m.function))
         /\ IsError(m) <=> m.severity = ErrorSeverity
<1> DEFINE f == m.function
           s == m.severity
           n == Len(f)
           tail == <<":", Blank>>
           zeros == [i \in 1 .. (m.lead - 3) |-> "0"]
           b == Behind(m)
           q == m.lead
<1>q. q \in Nat /\ q >= 3 /\ k \in Nat /\ q + k = 25
  BY AdvLogAssumption DEF SkipCch
<1>1. /\ f \in Seq(STRING) /\ \A i \in DOMAIN f : f[i] # Blank
      /\ s \in Severities
  BY AdvLogAssumption
<1>2. n \in Nat /\ DOMAIN f = 1 .. n /\ k <= n
  BY <1>1, <1>q, LenProperties
<1> DEFINE S == {"0", "-", ":", Blank, "E", "R", "W", "A", "I", "N"} \cup {f[i] : i \in 1 .. n}
<1>f. f \in Seq(S)
  <2> DEFINE T == {f[i] : i \in 1 .. n}
  <2>1. f \in [1 .. n -> T]
    BY <1>1, <1>2
  <2>2. T \subseteq S
    OBVIOUS
  <2>3. f \in Seq(T)
    <3> HIDE DEF T
    <3> QED BY <1>2, <2>1
  <2> HIDE DEF S, T
  <2> QED BY <2>2, <2>3
<1>3. Len(s) = 2 /\ s \in Seq(S) /\ (s[2] = "R" <=> s = ErrorSeverity)
  <2>1. s \in Seq({"E", "R", "W", "A", "I", "N"})
    BY <1>1, SeverityLetters
  <2>2. {"E", "R", "W", "A", "I", "N"} \subseteq S
    OBVIOUS
  <2>3. s \in Seq(S)
    <3> HIDE DEF S, s
    <3> QED BY <2>1, <2>2, SeqMonotonic
  <2> QED BY <1>1, <2>3, SeverityLetters
<1>4. Dash \in Seq(S) /\ Len(Dash) = 3 /\ Dash[1] = Blank
  BY DEF Dash
<1>5. zeros \in Seq(S) /\ Len(zeros) = q - 3
  <2>1. q - 3 \in Nat /\ zeros = [i \in 1 .. (q - 3) |-> "0"]
    BY <1>q
  <2>2. "0" \in S
    OBVIOUS
  <2> HIDE DEF S, zeros, q
  <2> QED BY <2>1, <2>2
<1>6. tail \in Seq(S) /\ Len(tail) = 2
  OBVIOUS
<1> DEFINE z == Len(zeros)
           d == Len(Dash)
           e == Len(s)
           l == Len(tail)
<1> DEFINE p == Prefix(m)
           a == SubSeq(p, q + 1, Len(p))
<1>7. /\ p = zeros \o Dash \o f \o Dash \o s \o tail
      /\ b = SubSeq(p, 26, Len(p)) /\ q + 1 = z + d + 1
      /\ n = Len(f) /\ z = q - 3 /\ d = 3 /\ e = 2 /\ l = 2
  <2>1. p = zeros \o Dash \o f \o Dash \o s \o tail
    BY DEF Prefix
  <2>2. b = SubSeq(p, 26, Len(p))
    BY DEF Behind, SkipCch
  <2> HIDE DEF p, b, zeros, tail, s
  <2> QED BY <2>1, <2>2, <1>q, <1>3, <1>4, <1>5, <1>6
<1>a. z = Len(zeros) /\ d = Len(Dash) /\ e = Len(s) /\ l = Len(tail) /\ d >= 1 /\ e >= 2
  BY <1>7
<1>p. a = SubSeq(p, q + 1, Len(p))
  OBVIOUS
<1>p2. p \in Seq(S)
  <2> HIDE DEF S, f, s, zeros, tail, p
  <2>1. zeros \o Dash \in Seq(S)
    BY <1>4, <1>5, ConcatProperties
  <2>2. (zeros \o Dash) \o f \in Seq(S)
    BY <2>1, <1>f, ConcatProperties
  <2>3. ((zeros \o Dash) \o f) \o Dash \in Seq(S)
    BY <2>2, <1>4, ConcatProperties
  <2>4. (((zeros \o Dash) \o f) \o Dash) \o s \in Seq(S)
    BY <2>3, <1>3, ConcatProperties
  <2>5. ((((zeros \o Dash) \o f) \o Dash) \o s) \o tail \in Seq(S)
    BY <2>4, <1>6, ConcatProperties
  <2> QED BY <2>5, <1>7
<1> HIDE DEF S, f, s, zeros, tail, b, z, d, e, l, n, p, a, q
<1>b. /\ a \in Seq(S) /\ Len(a) = n + d + e + l
      /\ \A i \in 1 .. n : a[i] = f[i]
      /\ a[n + 1] = Dash[1] /\ a[n + d + 2] = s[2]
  <2>1. a = SubSeq(p, z + d + 1, Len(p))
    BY <1>7, <1>p
  <2>2. IsBehind(S, zeros, Dash, f, s, tail, a)
    BY <1>f, <1>3, <1>4, <1>5, <1>6, <1>7, <1>a, <2>1 DEF IsBehind
  <2>3. n = Len(f)
    BY <1>7
  <2> QED BY <1>a, <2>2, <2>3, BehindFixedPart
<1>c. /\ a \in Seq(S) /\ Len(a) = n + 7
      /\ \A i \in 1 .. n : a[i] = f[i]
      /\ a[n + 1] = Blank /\ a[n + 5] = s[2]
  <2>1. n + d + e + l = n + 7 /\ n + d + 2 = n + 5
    BY <1>2, <1>7
  <2>2. Dash[1] = Blank
    BY <1>4
  <2> QED BY <1>b, <2>1, <2>2
<1> DEFINE w == n - k
<1>w. w \in Nat /\ w + k = n
  BY <1>2, <1>q
<1> HIDE DEF w
<1>d. /\ b \in Seq(S) /\ Len(b) = w + 7
      /\ \A i \in 1 .. w + 7 : b[i] = a[k + i]
  <2>1. Len(p) = q + (n + 7) /\ \A i \in 1 .. n + 7 : a[i] = p[q + i]
    <3>1. Len(p) \in Nat /\ q <= Len(p)
      <4>1. Len(p) \in Nat
        BY <1>p2, LenProperties
      <4>2. (\A i \in (q + 1) .. Len(p) : p[i] \in S)
        <5>1. \A i \in (q + 1) .. Len(p) : i \in 1 .. Len(p)
          BY <4>1, <1>q
        <5> QED BY <5>1, <1>p2, ElementOfSeq
      <4>3. Len(a) = IF q + 1 <= Len(p) THEN Len(p) - (q + 1) + 1 ELSE 0
        <5>1. q + 1 \in Int /\ Len(p) \in Int
          BY <4>1, <1>q
        <5> DEFINE F == q + 1
                   L == Len(p)
        <5>2. a = SubSeq(p, F, L) /\ F \in Int /\ L \in Int /\ \A i \in F .. L : p[i] \in S
          BY <5>1, <4>2, <1>p
        <5> HIDE DEF F, L
        <5>3. Len(a) = IF F <= L THEN L - F + 1 ELSE 0
          BY <5>2, SubSeqProperties
        <5> QED BY <5>3 DEF F, L
      <4>4. Len(a) > 0
        BY <1>c, <1>2
      <4> QED BY <4>1, <4>3, <4>4, <1>q
    <3> DEFINE r == Len(p) - q
    <3>2. r \in Nat /\ Len(p) = q + r
      BY <3>1, <1>q
    <3> HIDE DEF r
    <3>3. Len(a) = r /\ \A i \in 1 .. r : a[i] = p[q + i]
      BY <3>2, <1>q, <1>p, <1>p2, TailPlaces
    <3>4. r = n + 7
      BY <3>3, <1>c
    <3> QED BY <3>2, <3>3, <3>4
  <2>2. Len(p) = 25 + (w + 7) /\ w + 7 \in Nat /\ 25 + 1 = 26
    BY <2>1, <1>q, <1>w, <1>2
  <2> DEFINE v == w + 7
  <2>3. v \in Nat /\ Len(p) = 25 + v /\ b = SubSeq(p, 25 + 1, Len(p))
    BY <2>2, <1>7
  <2> HIDE DEF v
  <2>4. b \in Seq(S) /\ Len(b) = v /\ \A i \in 1 .. v : b[i] = p[25 + i]
    BY <2>3, <1>p2, TailPlaces
  <2>5. ASSUME NEW i \in 1 .. w + 7 PROVE b[i] = a[k + i]
    <3>1. k + i \in 1 .. n + 7 /\ q + (k + i) = 25 + i
      BY <1>q, <1>w, <1>2
    <3>2. b[i] = p[25 + i]
      BY <2>4 DEF v
    <3>3. a[k + i] = p[q + (k + i)]
      BY <2>1, <3>1
    <3> QED BY <3>1, <3>2, <3>3
  <2> QED BY <2>4, <2>5 DEF v
<1>8. /\ b \in Seq(S) /\ Len(b) = w + 7
      /\ \A i \in 1 .. w : b[i] = f[k + i]
      /\ b[w + 1] = Blank /\ b[w + 5] = s[2]
  <2>1. ASSUME NEW i \in 1 .. w PROVE b[i] = f[k + i]
    <3>1. i \in 1 .. w + 7 /\ k + i \in 1 .. n
      BY <1>q, <1>w, <1>2
    <3> QED BY <3>1, <1>c, <1>d
  <2>2. /\ w + 1 \in 1 .. w + 7 /\ k + (w + 1) = n + 1
        /\ w + 5 \in 1 .. w + 7 /\ k + (w + 5) = n + 5
    BY <1>q, <1>w, <1>2
  <2>3. b[w + 1] = a[n + 1] /\ b[w + 5] = a[n + 5]
    BY <1>d, <2>2
  <2> QED BY <1>c, <1>d, <2>1, <2>3
<1>9. DOMAIN b = 1 .. w + 7
  BY <1>8, LenProperties
<1> DEFINE blanks == {i \in DOMAIN b : b[i] = Blank}
<1>10. w + 1 \in blanks /\ \A i \in blanks : i \in Int /\ w + 1 <= i
  <2>1. w + 1 \in blanks
    BY <1>w, <1>8, <1>9
  <2>2. ASSUME NEW i \in blanks PROVE i \in Int /\ w + 1 <= i
    <3>1. i \in 1 .. w + 7 /\ b[i] = Blank
      BY <1>9
    <3>2. ASSUME i <= w PROVE FALSE
      <4>1. i \in 1 .. w /\ k + i \in 1 .. n
        BY <3>1, <3>2, <1>w, <1>q, <1>2
      <4>2. b[i] = f[k + i] /\ f[k + i] # Blank
        BY <4>1, <1>1, <1>2, <1>8
      <4> QED BY <3>1, <4>2
    <3> QED BY <3>1, <3>2, <1>w
  <2> QED BY <2>1, <2>2
<1> DEFINE end == (CHOOSE i \in blanks : \A j \in blanks : i <= j) - 1
<1>11. end = w
  <2> DEFINE c == CHOOSE i \in blanks : \A j \in blanks : i <= j
  <2>0. end = c - 1
    OBVIOUS
  <2> HIDE DEF blanks, end
  <2>1. c \in blanks /\ \A j \in blanks : c <= j
    BY <1>10
  <2> HIDE DEF c
  <2>2. c = w + 1
    BY <1>w, <1>10, <2>1
  <2> QED BY <1>w, <2>0, <2>2
<1> DEFINE g == SubSeq(b, 1, end)
           x == b[end + 3 + 2]
<1>12. Parsed(m) = [function |-> g, letter |-> x]
  BY DEF Parsed, b
<1> HIDE DEF end
<1>13. Parsed(m).function = SubSeq(b, 1, w) /\ Parsed(m).letter = b[w + 5]
  <2>1. w + 3 + 2 = w + 5
    BY <1>w
  <2>2. g = SubSeq(b, 1, w) /\ x = b[w + 5]
    BY <1>11, <2>1
  <2> HIDE DEF g, x
  <2>3. Parsed(m).function = g /\ Parsed(m).letter = x
    BY <1>12
  <2> QED BY <2>2, <2>3
<1>14. SubSeq(b, 1, w) = SubSeq(f, k + 1, n)
  <2> DEFINE h == SubSeq(b, 1, w)
             t == SubSeq(f, k + 1, n)
  <2>1. \A i \in 1 .. w : b[i] \in S
    <3>1. \A i \in 1 .. w : i \in 1 .. Len(b)
      BY <1>w, <1>8
    <3> QED BY <1>8, <3>1, ElementOfSeq
  <2>2. /\ h \in Seq(S) /\ Len(h) = IF 1 <= w THEN w - 1 + 1 ELSE 0
        /\ \A i \in 1 .. w - 1 + 1 : h[i] = b[1 + i - 1]
    BY <1>w, <2>1, SubSeqProperties
  <2>t. t \in Seq(S) /\ Len(t) = w /\ \A i \in 1 .. w : t[i] = f[k + i]
    <3>1. k \in Nat /\ w \in Nat /\ Len(f) = k + w /\ n = Len(f) /\ t = SubSeq(f, k + 1, Len(f))
      BY <1>7, <1>w, <1>q
    <3>2. f \in Seq(S)
      BY <1>f
    <3> HIDE DEF t
    <3>3. \A kk, nn \in Nat : Len(f) = kk + nn /\ t = SubSeq(f, kk + 1, Len(f)) =>
            t \in Seq(S) /\ Len(t) = nn /\ \A i \in 1 .. nn : t[i] = f[kk + i]
      BY <3>2, TailPlaces
    <3>4. Len(f) = k + w /\ t = SubSeq(f, k + 1, Len(f))
      BY <3>1
    <3> QED BY <3>1, <3>3, <3>4
  <2> HIDE DEF h, t
  <2>3. Len(h) = w /\ \A i \in 1 .. w : h[i] = b[i]
    BY <1>w, <2>2
  <2>4. Len(h) = Len(t) /\ \A i \in 1 .. Len(h) : h[i] = t[i]
    BY <1>8, <2>3, <2>t
  <2>5. h = t
    BY <2>2, <2>t, <2>4, SeqEqual
  <2> QED BY <2>5 DEF h, t
<1> QED BY <1>3, <1>7, <1>8, <1>13, <1>14 DEF IsError, f, s

-----------------------------------------------------------------------------
(* Which messages are logged.                                              *)

Early == {"data", "log", "channel", "errors", "advanced"}

(* Until the hook is installed, which is after the log is opened, nothing  *)
(* is printed through it.                                                  *)
NotYet ==
  /\ pc \in Early => ~hooked
  /\ ~hooked => \A t \in Threads : thread[t] = Idle /\ history[t] = <<>>

ForLog(m) == m.component = "Loader" /\ m.fits /\ IsError(m)

(* What is logged of message m, while nothing fails.                       *)
LineOf(m, line) ==
  m.component = "Loader" =>
    IF m.fits /\ IsError(m)
    THEN line.kind = "loader" /\ line.function = Parsed(m).function
    ELSE line = NoLine

MessagesInv ==
  log = "open" /\ failed = 0 =>
    \A t \in Threads :
      /\ thread[t].pc \notin {"idle", "generic"} => ForLog(thread[t].m)
      /\ At(t, "generic") => thread[t].m.component # "Loader"
      /\ \A i \in DOMAIN history[t] : LineOf(history[t][i].message, history[t][i].line)

LEMMA MainOpens ==
  ASSUME DllMain
  PROVE  /\ hooked => hooked'
         /\ pc' \in Early => pc \in Early /\ hooked' = hooked
         /\ log' = "open" => log = "open" \/ pc = "log"
<1> USE AfterIs DEF GoFrom, Do, Early
<1>1. CASE Simple
  BY <1>1 DEF Simple, advVars
<1>2. CASE OpenLog
  BY <1>2 DEF OpenLog
<1>3. CASE RewriteFails
  BY <1>3 DEF RewriteFails
<1>4. CASE InitializeAdvancedLogging
  BY <1>4 DEF InitializeAdvancedLogging, Install
<1>5. CASE DisableAVrf \/ NoSpoof \/ SpoofPeb
  BY <1>5 DEF DisableAVrf, NoSpoof, SpoofPeb, advVars
<1>6. CASE InstallVersionHook
  BY <1>6 DEF InstallVersionHook
<1>7. CASE SpoofSharedUserData
  BY <1>7 DEF SpoofSharedUserData, advVars
<1>8. CASE ProtectFails \/ InstallTimeHook
  BY <1>8 DEF ProtectFails, InstallTimeHook
<1>9. CASE Detach
  BY <1>9 DEF Detach
<1> QED BY <1>1, <1>2, <1>3, <1>4, <1>5, <1>6, <1>7, <1>8, <1>9 DEF DllMain

LEMMA MessagesInit == Init => NotYet /\ MessagesInv
BY DEF Init, AdvInit, NotYet, MessagesInv, Early

LEMMA MessagesMainStep ==
  ASSUME AdvType, NotYet, MessagesInv, DllMain
  PROVE  NotYet' /\ MessagesInv'
<1>1. thread' = thread /\ history' = history /\ (failed' = failed \/ failed' = failed + 1)
  BY MainLeaves DEF Logging
<1>2. failed' = 0 => failed = 0
  BY <1>1 DEF AdvType
<1>3. NotYet'
  BY <1>1, MainOpens DEF NotYet
<1>4. MessagesInv'
  <2> SUFFICES ASSUME log' = "open", failed' = 0, NEW t \in Threads
               PROVE  /\ thread[t].pc \notin {"idle", "generic"} => ForLog(thread[t].m)
                      /\ At(t, "generic") => thread[t].m.component # "Loader"
                      /\ \A i \in DOMAIN history[t] :
                           LineOf(history[t][i].message, history[t][i].line)
    BY <1>1 DEF MessagesInv, At
  <2>1. CASE log = "open"
    BY <1>2, <2>1 DEF MessagesInv
  <2>2. CASE pc = "log"
    <3>1. thread[t] = Idle /\ history[t] = <<>>
      BY <2>2 DEF NotYet, Early
    <3> QED BY <3>1 DEF Idle, At
  <2> QED BY <2>1, <2>2, MainOpens
<1> QED BY <1>3, <1>4

LEMMA NotYetHookStep ==
  ASSUME NotYet, NEW t \in Threads, InHook(t), pc' = pc
  PROVE  NotYet'
<1>1. hooked
  <2>1. hooked \/ At(t, "idle")
    BY DEF NotYet, At, Idle
  <2> QED BY <2>1 DEF NotYet, InHook, DbgPrint, Check, Reset, Publish, AllocateFails, Fill, Insert,
                      InsertIsLost, Lookup, Write, Generic, Step, At
<1>2. hooked' = hooked
  BY HookLeaves
<1> QED BY <1>1, <1>2 DEF NotYet

LEMMA MessagesHookStep ==
  ASSUME AdvType, MessagesInv, NEW t \in Threads, InHook(t)
  PROVE  MessagesInv'
<1>0. SUFFICES ASSUME log' = "open", failed' = 0, NEW u \in Threads
               PROVE  /\ thread'[u].pc \notin {"idle", "generic"} => ForLog(thread'[u].m)
                      /\ thread'[u].pc = "generic" => thread'[u].m.component # "Loader"
                      /\ \A i \in DOMAIN history'[u] :
                           LineOf(history'[u][i].message, history'[u][i].line)
  BY DEF MessagesInv, At
<1>1. log = "open" /\ failed = 0 /\ failed' # failed + 1
  BY <1>0, HookLeaves DEF AdvType
<1>2. \A v \in Threads :
        /\ thread[v].pc \notin {"idle", "generic"} => ForLog(thread[v].m)
        /\ thread[v].pc = "generic" => thread[v].m.component # "Loader"
        /\ \A i \in DOMAIN history[v] : LineOf(history[v][i].message, history[v][i].line)
  BY <1>1 DEF MessagesInv, At
<1>3. /\ thread'[u].pc \notin {"idle", "generic"} => ForLog(thread'[u].m)
      /\ thread'[u].pc = "generic" => thread'[u].m.component # "Loader"
  <2>1. CASE thread'[u] = thread[u]
    BY <1>2, <2>1
  <2>2. CASE u = t
    <3>1. CASE thread'[t] = Idle
      BY <2>2, <3>1 DEF Idle
    <3>2. CASE \E m \in Messages :
              /\ thread'[t] = [pc |-> IF m.component = "Loader" THEN "check" ELSE "generic", m |-> m]
              /\ m.fits /\ (m.component = "Loader" => IsError(m))
      <4>1. PICK m \in Messages :
              /\ thread'[t] = [pc |-> IF m.component = "Loader" THEN "check" ELSE "generic", m |-> m]
              /\ m.fits /\ (m.component = "Loader" => IsError(m))
        BY <3>2
      <4>2. CASE m.component = "Loader"
        BY <2>2, <4>1, <4>2 DEF ForLog
      <4>3. CASE m.component # "Loader"
        BY <2>2, <4>1, <4>3
      <4> QED BY <4>2, <4>3
    <3>3. CASE /\ ~At(t, "idle") /\ thread'[t].pc # "idle" /\ thread'[t].m = thread[t].m
               /\ thread'[t].pc = "generic" =>
                    At(t, "write") /\ (log = "open" => failed' = failed + 1)
               /\ At(t, "generic") => thread'[t] = thread[t]
      <4>1. thread'[t].pc # "generic"
        BY <1>1, <3>3
      <4>2. thread[t].pc \notin {"idle", "generic"}
        BY <3>3, <4>1 DEF At
      <4> QED BY <1>2, <2>2, <3>3, <4>1, <4>2
    <3> QED BY <3>1, <3>2, <3>3, HookThread
  <2> QED BY <2>1, <2>2, HookFrame
<1>4. ASSUME NEW i \in DOMAIN history'[u]
      PROVE  LineOf(history'[u][i].message, history'[u][i].line)
  <2>1. CASE i \in DOMAIN history[u] /\ history'[u][i] = history[u][i]
    BY <1>2, <2>1
  <2>2. CASE \E m \in Messages, line \in Lines :
              history'[u][i] = [message |-> m, line |-> line] /\ LoggedAs(t, m, line)
    <3>1. PICK m \in Messages, line \in Lines :
              history'[u][i] = [message |-> m, line |-> line] /\ LoggedAs(t, m, line)
      BY <2>2
    <3>2. CASE DbgPrint(t) /\ line = NoLine /\ (~m.fits \/ (m.component = "Loader" /\ ~IsError(m)))
      BY <3>1, <3>2 DEF LineOf
    <3>3. CASE /\ Write(t) /\ m = thread[t].m
               /\ line = [kind |-> "loader", file |-> thread[t].file, function |-> Parsed(m).function]
      <4>1. thread[t].pc = "write"
        BY <3>3 DEF Write, Step, At
      <4>2. ForLog(m)
        BY <1>2, <3>3, <4>1
      <4> QED BY <3>1, <3>3, <4>2 DEF ForLog, LineOf
    <3>4. CASE Generic(t) /\ m = thread[t].m
      <4>1. m.component # "Loader"
        BY <1>2, <3>4 DEF Generic, Step, At
      <4> QED BY <3>1, <4>1 DEF LineOf
    <3> QED BY <3>1, <3>2, <3>3, <3>4 DEF LoggedAs
  <2> QED BY <1>4, <2>1, <2>2, HookLines
<1> QED BY <1>3, <1>4

LoggedInv == AdvType /\ NotYet /\ MessagesInv

LEMMA LoggedStep == LoggedInv /\ [Next]_vars => LoggedInv'
<1> SUFFICES ASSUME LoggedInv, [Next]_vars PROVE LoggedInv'
  OBVIOUS
<1>1. AdvType'
  BY AdvTypeStep DEF LoggedInv
<1>2. CASE DllMain
  BY <1>1, <1>2, MessagesMainStep DEF LoggedInv
<1>3. CASE UNCHANGED vars
  BY <1>1, <1>3 DEF LoggedInv, NotYet, MessagesInv, At, vars, advVars
<1>4. CASE (\E t \in Alive : InHook(t)) /\ UNCHANGED <<pc, startVars>>
  BY <1>1, <1>4, AliveAreThreads, NotYetHookStep, MessagesHookStep DEF LoggedInv
<1> QED BY <1>2, <1>3, <1>4 DEF Next

LEMMA ErrorsAreLoggedIf == LoggedInv => ErrorsAreLogged
<1>0. SUFFICES ASSUME LoggedInv, log = "open", failed = 0, NEW t \in Threads,
                      NEW i \in DOMAIN history[t],
                      history[t][i].message.component = "Loader",
                      SkipCch - history[t][i].message.lead
                        \in 0 .. Len(history[t][i].message.function)
               PROVE  LET m == history[t][i].message
                          line == history[t][i].line
                          missing == SkipCch - m.lead
                      IN /\ m.severity = ErrorSeverity /\ m.fits =>
                              /\ line.kind = "loader"
                              /\ line.function = SubSeq(m.function, missing + 1, Len(m.function))
                         /\ ~(m.severity = ErrorSeverity /\ m.fits) => line = NoLine
  BY DEF ErrorsAreLogged
<1> DEFINE m == history[t][i].message
           line == history[t][i].line
           missing == SkipCch - m.lead
           rest == SubSeq(m.function, missing + 1, Len(m.function))
<1>1. m \in Messages
  <2>1. history[t] \in Seq([message : Messages, line : Lines])
    BY <1>0 DEF LoggedInv, AdvType
  <2>2. i \in 1 .. Len(history[t])
    BY <1>0, <2>1, LenProperties
  <2>3. history[t][i] \in [message : Messages, line : Lines]
    BY <2>1, <2>2, ElementOfSeq
  <2> QED BY <2>3
<1>2. LineOf(m, line)
  BY <1>0 DEF LoggedInv, MessagesInv
<1>3. m.component = "Loader" /\ missing \in 0 .. Len(m.function)
  BY <1>0
<1> HIDE DEF m, line
<1>4. Parsed(m).function = rest /\ (IsError(m) <=> m.severity = ErrorSeverity)
  <2>1. missing = SkipCch - m.lead
    OBVIOUS
  <2> HIDE DEF missing
  <2> QED BY <1>1, <1>3, <2>1, PrefixIsParsed DEF rest
<1> HIDE DEF rest
<1>5. /\ m.severity = ErrorSeverity /\ m.fits => line.kind = "loader" /\ line.function = rest
      /\ ~(m.severity = ErrorSeverity /\ m.fits) => line = NoLine
  BY <1>2, <1>3, <1>4 DEF LineOf
<1> QED BY <1>5 DEF m, line, rest

(* While nothing fails, an error of the loader whose text fits is in the   *)
(* log, and no other message of the loader is, whatever the threads do at  *)
(* once, for every name of a function and every prefix that puts the name  *)
(* where the 25 skipped characters end, or before and not wholly among     *)
(* them; what is logged is the part of the name behind those characters    *)
(* (advlog.c 248-389).                                                     *)
THEOREM ErrorsAreAlwaysLogged == Spec => []ErrorsAreLogged
<1>1. Init => LoggedInv
  BY AdvTypeInit, MessagesInit DEF LoggedInv
<1> QED BY <1>1, LoggedStep, ErrorsAreLoggedIf, PTL DEF Spec
-----------------------------------------------------------------------------
(* The configuration of KexData.                                           *)

CONSTANT NUL
Data == INSTANCE KexData

Values(C) == [type : STRING, data : Seq(C)]
Over(value, buffer) ==
  [i \in DOMAIN buffer |-> IF i \in DOMAIN value.data THEN value.data[i] ELSE buffer[i]]
Read(value, types, writable, buffer) ==
  IF writable /\ Data!Usable(value, types, buffer) THEN Over(value, buffer) ELSE buffer

LEMMA QueryReads ==
  ASSUME NEW C, NEW value \in Values(C), NEW buffer \in Seq(C), NEW types, NEW writable \in BOOLEAN
  PROVE  Data!QueryKeyValueData(value, buffer, types, writable).buffer
           = Read(value, types, writable, buffer)
<1> DEFINE missing == value = Data!Absent
           large == value # Data!Absent /\ Len(value.data) > Len(buffer)
           other == value # Data!Absent /\ Len(value.data) <= Len(buffer) /\ value.type \notin types
           status == CASE missing -> "not found" [] large -> "overflow" [] other -> "type mismatch"
                       [] OTHER -> IF writable THEN "success" ELSE "exception"
<1>0. Len(value.data) \in Nat /\ Len(buffer) \in Nat
  BY DEF Values
<1>1. CASE value = Data!Absent
  <2>1. status # "success" /\ ~Data!Usable(value, types, buffer)
    BY <1>1 DEF Data!Usable
  <2> HIDE DEF status
  <2> QED BY <2>1 DEF Data!QueryKeyValueData, Read, status
<1>2. CASE value # Data!Absent /\ Len(value.data) > Len(buffer)
  <2>1. status # "success" /\ ~Data!Usable(value, types, buffer)
    BY <1>0, <1>2 DEF Data!Usable
  <2> HIDE DEF status
  <2> QED BY <2>1 DEF Data!QueryKeyValueData, Read, status
<1>3. CASE value # Data!Absent /\ Len(value.data) <= Len(buffer) /\ value.type \notin types
  <2>1. status # "success" /\ ~Data!Usable(value, types, buffer)
    BY <1>0, <1>3 DEF Data!Usable
  <2> HIDE DEF status
  <2> QED BY <2>1 DEF Data!QueryKeyValueData, Read, status
<1>4. CASE value # Data!Absent /\ Len(value.data) <= Len(buffer) /\ value.type \in types
  <2>1. status = IF writable THEN "success" ELSE "exception"
    <3>1. ~missing /\ ~large /\ ~other
      BY <1>0, <1>4
    <3> HIDE DEF missing, large, other
    <3> QED BY <3>1
  <2>2. Data!Usable(value, types, buffer)
    BY <1>4 DEF Data!Usable
  <2> HIDE DEF status
  <2> QED BY <2>1, <2>2 DEF Data!QueryKeyValueData, Read, Over, status
<1> QED BY <1>0, <1>1, <1>2, <1>3, <1>4

LEMMA ReadIsBuffer ==
  ASSUME NEW C, NEW value \in Values(C), NEW buffer \in Seq(C), NEW types, NEW writable \in BOOLEAN
  PROVE  /\ Read(value, types, writable, buffer) \in Seq(C)
         /\ Len(Read(value, types, writable, buffer)) = Len(buffer)
<1> DEFINE new == Over(value, buffer)
<1>1. /\ \A i \in 1 .. Len(buffer) : new[i] \in C
      /\ new = [i \in 1 .. Len(buffer) |-> new[i]]
  BY DEF Values, Over
<1> HIDE DEF new
<1>2. [i \in 1 .. Len(buffer) |-> new[i]] \in Seq(C)
  BY <1>1, IsASeq
<1>3. new \in Seq(C) /\ DOMAIN new = 1 .. Len(buffer)
  BY <1>1, <1>2
<1>4. Len(new) = Len(buffer)
  BY <1>3
<1> QED BY <1>3, <1>4 DEF Read, new

(* What the calls for several values leave, which do not stop at a failure. *)
BothBuffers(v, w, a, b, writable) ==
  Data!QueryKeyMultipleValueData(<<v, w>>, <<a, b>>, <<Data!StringTypes, Data!StringTypes>>,
                                 FALSE, writable).buffers
OneBuffer(v, a, writable) ==
  Data!QueryKeyMultipleValueData(<<v>>, <<a>>, <<Data!StringTypes>>, FALSE, writable).buffers[1]

LEMMA MultipleReads ==
  ASSUME NEW C, NEW v \in Values(C), NEW w \in Values(C), NEW a \in Seq(C), NEW b \in Seq(C),
         NEW writable \in BOOLEAN
  PROVE  /\ BothBuffers(v, w, a, b, writable)[1] = Read(v, Data!StringTypes, writable, a)
         /\ BothBuffers(v, w, a, b, writable)[2] = Read(w, Data!StringTypes, writable, b)
<1> DEFINE T == Data!StringTypes
           values == <<v, w>>
           entry == [i \in DOMAIN values |->
                       Data!QueryKeyValueData(values[i], <<a, b>>[i], <<T, T>>[i], writable)]
           q == BothBuffers(v, w, a, b, writable)
<1>1. DOMAIN values = 1 .. 2 /\ Len(values) = 2
  OBVIOUS
<1>2. q = [i \in DOMAIN values |-> IF i <= 3 THEN entry[i].buffer ELSE <<a, b>>[i]]
  BY <1>1 DEF Data!QueryKeyMultipleValueData, BothBuffers
<1> HIDE DEF q, entry, values
<1>3. q[1] = entry[1].buffer /\ q[2] = entry[2].buffer
  BY <1>1, <1>2
<1>4. /\ entry[1] = Data!QueryKeyValueData(v, a, T, writable)
      /\ entry[2] = Data!QueryKeyValueData(w, b, T, writable)
  BY <1>1 DEF entry, values
<1>5. q[1] = Read(v, T, writable, a) /\ q[2] = Read(w, T, writable, b)
  BY <1>3, <1>4, QueryReads
<1> QED BY <1>5 DEF q

LEMMA SingleRead ==
  ASSUME NEW C, NEW v \in Values(C), NEW a \in Seq(C), NEW writable \in BOOLEAN
  PROVE  OneBuffer(v, a, writable) = Read(v, Data!StringTypes, writable, a)
<1> DEFINE T == Data!StringTypes
           values == <<v>>
           entry == [i \in DOMAIN values |->
                       Data!QueryKeyValueData(values[i], <<a>>[i], <<T>>[i], writable)]
           q == Data!QueryKeyMultipleValueData(values, <<a>>, <<T>>, FALSE, writable)
<1>1. DOMAIN values = 1 .. 1 /\ Len(values) = 1
  OBVIOUS
<1>2. q.buffers = [i \in DOMAIN values |-> IF i <= 2 THEN entry[i].buffer ELSE <<a>>[i]]
  BY <1>1 DEF Data!QueryKeyMultipleValueData
<1> HIDE DEF q, entry, values
<1>3. q.buffers[1] = entry[1].buffer
  BY <1>1, <1>2
<1>4. entry[1] = Data!QueryKeyValueData(v, a, T, writable)
  BY <1>1 DEF entry, values
<1>5. q.buffers[1] = Read(v, T, writable, a)
  BY <1>3, <1>4, QueryReads
<1> QED BY <1>5 DEF q, values, OneBuffer

(* The text of a value that ends with NUL, once it is in a buffer.         *)
LEMMA TextOfRead ==
  ASSUME NEW C, NEW value \in Values(C), Data!EndsWithNul(value), NEW buffer \in Seq(C),
         Data!Usable(value, Data!StringTypes, buffer)
  PROVE  Data!String(Over(value, buffer)) = Data!String(value.data)
<1> DEFINE d == value.data
           new == Over(value, buffer)
           nuls(s) == {i \in DOMAIN s : s[i] = NUL}
           first(s) == CHOOSE i \in nuls(s) : \A j \in nuls(s) : i <= j
<1>1. /\ d \in Seq(C) /\ Len(d) \in Nat /\ Len(buffer) \in Nat /\ Len(d) <= Len(buffer)
      /\ DOMAIN d = 1 .. Len(d) /\ DOMAIN buffer = 1 .. Len(buffer)
  BY DEF Values, Data!Usable
<1>2. /\ DOMAIN new = 1 .. Len(buffer) /\ DOMAIN d \subseteq DOMAIN new
      /\ \A i \in DOMAIN d : new[i] = d[i]
  BY <1>1 DEF Over
<1>3. nuls(d) # {}
  BY DEF Data!EndsWithNul
<1> HIDE DEF new, d
<1>4. first(d) \in nuls(d) /\ \A j \in nuls(d) : first(d) <= j
  <2>1. nuls(d) \subseteq Nat
    BY <1>1
  <2> HIDE DEF nuls
  <2> QED BY <1>3, <2>1, LeastNumber
<1>5. nuls(new) # {} /\ first(d) \in nuls(new)
  BY <1>2, <1>4
<1>6. first(new) \in nuls(new) /\ \A j \in nuls(new) : first(new) <= j
  <2>1. nuls(new) \subseteq Nat
    BY <1>2
  <2> HIDE DEF nuls
  <2> QED BY <1>5, <2>1, LeastNumber
<1> HIDE DEF first
<1>7. first(d) \in DOMAIN d /\ first(new) \in DOMAIN new
  BY <1>4, <1>6
<1>8. first(new) <= first(d)
  BY <1>5, <1>6
<1>9. first(new) \in nuls(d)
  <2>1. first(new) \in DOMAIN d
    BY <1>1, <1>2, <1>7, <1>8
  <2> QED BY <1>2, <1>6, <2>1
<1>10. first(new) = first(d)
  BY <1>1, <1>2, <1>4, <1>7, <1>8, <1>9
<1> DEFINE n == first(d) - 1
<1>11. Data!String(d) = SubSeq(d, 1, n)
  BY <1>3 DEF Data!String, first
<1>12. Data!String(new) = SubSeq(new, 1, n)
  <2>1. Data!String(new) = SubSeq(new, 1, first(new) - 1)
    BY <1>5 DEF Data!String, first
  <2> QED BY <1>10, <2>1
<1>13. SubSeq(new, 1, n) = SubSeq(d, 1, n)
  <2>1. n \in Nat /\ 1 .. n \subseteq DOMAIN d
    BY <1>1, <1>7
  <2>2. \A i \in 1 .. n : new[i] = d[i]
    BY <1>2, <2>1
  <2>3. /\ SubSeq(new, 1, n) = [i \in 1 .. n |-> new[i]]
        /\ SubSeq(d, 1, n) = [i \in 1 .. n |-> d[i]]
    BY <2>1
  <2> QED BY <2>2, <2>3
<1> QED BY <1>11, <1>12, <1>13 DEF new, d

(* The text of one without NUL begins with it.                             *)
LEMMA TextBegins ==
  ASSUME NEW C, NEW value \in Values(C), ~Data!EndsWithNul(value), NEW buffer \in Seq(C),
         Data!Usable(value, Data!StringTypes, buffer)
  PROVE  SubSeq(Data!String(Over(value, buffer)), 1, Len(value.data)) = value.data
<1> DEFINE d == value.data
           new == Over(value, buffer)
           nuls == {i \in DOMAIN new : new[i] = NUL}
           first == CHOOSE i \in nuls : \A j \in nuls : i <= j
           n == IF nuls = {} THEN Len(new) ELSE first - 1
           l == Len(d)
<1>1. /\ d \in Seq(C) /\ l \in Nat /\ Len(buffer) \in Nat /\ l <= Len(buffer)
      /\ DOMAIN d = 1 .. l /\ DOMAIN buffer = 1 .. Len(buffer)
  BY DEF Values, Data!Usable
<1>2. /\ DOMAIN new = 1 .. Len(buffer) /\ \A i \in 1 .. l : new[i] = d[i]
  BY <1>1 DEF Over
<1>3. new \in Seq(C) /\ Len(new) = Len(buffer)
  <2>1. Read(value, Data!StringTypes, TRUE, buffer) = new
    BY DEF Read
  <2> HIDE DEF new
  <2> QED BY <2>1, ReadIsBuffer
<1>4. \A i \in 1 .. l : d[i] # NUL
  BY <1>1 DEF Data!EndsWithNul
<1>5. Data!String(new) = SubSeq(new, 1, n)
  BY DEF Data!String
<1> HIDE DEF new, d, l
<1>6. n \in Nat /\ l <= n /\ n <= Len(buffer)
  <2>1. CASE nuls = {}
    BY <1>1, <1>3, <2>1
  <2>2. CASE nuls # {}
    <3>1. nuls \subseteq Nat
      BY <1>2
    <3>2. first \in nuls
      <4> HIDE DEF nuls
      <4> QED BY <2>2, <3>1, LeastNumber
    <3> HIDE DEF first
    <3>3. first \in 1 .. Len(buffer) /\ new[first] = NUL
      BY <1>2, <3>2
    <3>4. ~(first <= l)
      <4> SUFFICES ASSUME first <= l PROVE FALSE
        OBVIOUS
      <4>1. first \in 1 .. l
        BY <1>1, <3>3
      <4> QED BY <1>2, <1>4, <3>3, <4>1
    <3> QED BY <1>1, <2>2, <3>3, <3>4
  <2> QED BY <2>1, <2>2
<1> HIDE DEF n
<1> DEFINE s == SubSeq(new, 1, n)
<1>7. s = [i \in 1 .. n |-> new[i]] /\ s \in Seq(C)
  <2>1. n - 1 + 1 = n /\ \A i \in 1 .. n : 1 + i - 1 = i
    BY <1>6
  <2>2. \A i \in 1 .. n : new[i] \in C
    <3>1. \A i \in 1 .. n : i \in 1 .. Len(new)
      BY <1>1, <1>3, <1>6
    <3> QED BY <3>1, <1>3, ElementOfSeq
  <2>3. s = [i \in 1 .. n |-> new[i]]
    BY <1>6
  <2> HIDE DEF s
  <2> QED BY <2>2, <2>3, <1>6, IsASeq
<1> HIDE DEF s
<1>8. SubSeq(s, 1, l) = [i \in 1 .. l |-> s[i]]
  BY <1>1
<1>9. \A i \in 1 .. l : s[i] = d[i]
  <2>1. \A i \in 1 .. l : i \in 1 .. n
    BY <1>1, <1>6
  <2> QED BY <1>2, <1>7, <2>1
<1>10. d = [i \in 1 .. l |-> d[i]]
  BY <1>1
<1>11. SubSeq(s, 1, l) = d
  BY <1>8, <1>9, <1>10
<1> QED BY <1>5, <1>11 DEF s, d, l, new

LEMMA TextOfOver ==
  ASSUME NEW C, NEW value \in Values(C), NEW buffer \in Seq(C),
         Data!Usable(value, Data!StringTypes, buffer)
  PROVE  Data!TextIs(Over(value, buffer), value)
<1>1. CASE Data!EndsWithNul(value)
  BY <1>1, TextOfRead DEF Data!TextIs
<1>2. CASE ~Data!EndsWithNul(value)
  BY <1>2, TextBegins DEF Data!TextIs
<1> QED BY <1>1, <1>2

(* The name behind the last backslash of a path.                           *)
LEMMA FileNameIs ==
  ASSUME NEW memory, NEW path \in [pos : Nat, len : Nat]
  PROVE  LET name == Data!PathFindFileName(memory, path)
         IN /\ Data!EndOf(name) = Data!EndOf(path) /\ name.pos >= path.pos
            /\ \A i \in DOMAIN Data!Sub(memory, name) : Data!Sub(memory, name)[i] # "\\"
            /\ name.pos > path.pos => Data!Cell(memory, name.pos - 1) = "\\"
<1> DEFINE found == {i \in 0 .. (path.len - 1) : Data!Cell(memory, path.pos + i) \in {"\\"}}
           last == Data!LastOf(memory, path, {"\\"})
           name == Data!PathFindFileName(memory, path)
<1>1. /\ last \in -1 .. (path.len - 1)
      /\ last # -1 => Data!Cell(memory, path.pos + last) = "\\"
      /\ \A i \in 0 .. (path.len - 1) : i > last => Data!Cell(memory, path.pos + i) # "\\"
  <2>1. CASE found = {}
    BY <2>1 DEF Data!LastOf
  <2>2. CASE found # {}
    <3>1. last = CHOOSE i \in found : \A j \in found : j <= i
      BY <2>2 DEF Data!LastOf
    <3> DEFINE D == {path.len - i : i \in found}
    <3>2. D \subseteq Nat /\ D # {}
      <4>1. \A i \in found : i \in Nat /\ path.len - i \in Nat
        OBVIOUS
      <4> QED BY <2>2, <4>1
    <3>3. PICK e \in D : \A f \in D : e <= f
      BY <3>2, LeastNumber
    <3>4. PICK i \in found : e = path.len - i
      OBVIOUS
    <3>5. ASSUME NEW j \in found PROVE j <= i
      <4>1. path.len - j \in D
        OBVIOUS
      <4>2. path.len - i <= path.len - j /\ i \in Int /\ j \in Int /\ path.len \in Int
        BY <3>3, <3>4, <4>1
      <4> QED BY <4>2
    <3>6. last \in found /\ \A j \in found : j <= last
      BY <3>1, <3>4, <3>5
    <3> HIDE DEF last
    <3> QED BY <3>6
  <2> QED BY <2>1, <2>2
<1>2. name = [pos |-> path.pos + (last + 1), len |-> path.len - (last + 1)]
  BY DEF Data!PathFindFileName, Data!Advance, Data!Str, Data!LengthWithoutLastElement
<1> HIDE DEF last, name
<1>3. name.pos = path.pos + (last + 1) /\ name.len = path.len - (last + 1)
  BY <1>2
<1>4. Data!EndOf(name) = Data!EndOf(path) /\ name.pos >= path.pos
  BY <1>1, <1>3 DEF Data!EndOf
<1>5. ASSUME NEW i \in DOMAIN Data!Sub(memory, name) PROVE Data!Sub(memory, name)[i] # "\\"
  <2>1. i \in 1 .. name.len /\ Data!Sub(memory, name)[i] = Data!Cell(memory, name.pos + i - 1)
    BY DEF Data!Sub
  <2>2. /\ last + i \in 0 .. (path.len - 1) /\ last + i > last
        /\ name.pos + i - 1 = path.pos + (last + i)
    BY <1>1, <1>3, <2>1
  <2> QED BY <1>1, <2>1, <2>2
<1>6. name.pos > path.pos => Data!Cell(memory, name.pos - 1) = "\\"
  <2>1. name.pos > path.pos => last # -1 /\ name.pos - 1 = path.pos + last
    BY <1>1, <1>3
  <2> QED BY <1>1, <2>1
<1> QED BY <1>4, <1>5, <1>6 DEF name

DataStates(C) ==
  [initialized : {FALSE}, propagated : BOOLEAN, version : {s \in Seq(C) : Len(s) = 1},
   ifeo : [{"WinVerSpoof", "StrongVersionSpoof"} -> Nat], winDir : STRING,
   imageBaseName : [pos : Nat, len : Nat], kexDir : Seq(C), logDir : Seq(C)]
(* A number has one element; a string may lack the NUL at its end.         *)
Environments(C) ==
  {env \in [magic : BOOLEAN, systemRoot : STRING, memory : Seq(C),
            imagePath : [pos : Nat, len : Nat], writable : BOOLEAN,
            machine : [exists : BOOLEAN, version : Values(C), kexDir : Values(C), logDir : Values(C)],
            user : [opened : BOOLEAN, exists : BOOLEAN, logDir : Values(C)],
            ifeo : [exists : BOOLEAN, options : UNION {[P -> Nat] : P \in SUBSET STRING}]] :
     env.machine.version.type = "REG_DWORD" => Len(env.machine.version.data) = 1}

(* For every content of the registry: the user's value is taken before the *)
(* machine's and that before the default, each if it can be used; the text *)
(* is all of a value that ends with NUL, and begins with one that does     *)
(* not; once initialized, the process data stay as they are.               *)
THEOREM ConfigurationAlwaysHasPrecedence ==
  ASSUME NEW C, NEW data \in DataStates(C), NEW env \in Environments(C), NEW later
  PROVE  Data!HasPrecedence(data, env, later)
<1> DEFINE name == Data!PathFindFileName(env.memory, env.imagePath)
           ifeo == [p \in DOMAIN data.ifeo |->
                      IF env.ifeo.exists /\ p \in DOMAIN env.ifeo.options
                      THEN env.ifeo.options[p] ELSE data.ifeo[p]]
           version == IF env.machine.exists
                      THEN Read(env.machine.version, {"REG_DWORD"}, TRUE, data.version)
                      ELSE data.version
           kexDir == IF env.machine.exists
                     THEN Read(env.machine.kexDir, Data!StringTypes, env.writable, data.kexDir)
                     ELSE data.kexDir
           log1 == IF env.machine.exists
                   THEN Read(env.machine.logDir, Data!StringTypes, env.writable, data.logDir)
                   ELSE data.logDir
           log2 == IF env.user.opened /\ env.user.exists
                   THEN Read(env.user.logDir, Data!StringTypes, env.writable, log1)
                   ELSE log1
           Holds(x, i, v, k, l) ==
             /\ DOMAIN x = {"initialized", "propagated", "version", "ifeo", "winDir",
                            "imageBaseName", "kexDir", "logDir"}
             /\ x.initialized = TRUE /\ x.imageBaseName = name
             /\ x.ifeo = i /\ x.version = v /\ x.kexDir = k /\ x.logDir = l
           d == Data!DataInitialize(data, env)
<1>1. /\ data.version \in Seq(C) /\ Len(data.version) = 1 /\ data.initialized = FALSE
      /\ data.kexDir \in Seq(C) /\ data.logDir \in Seq(C)
  BY DEF DataStates
<1>2. /\ env.writable \in BOOLEAN /\ env.machine.exists \in BOOLEAN
      /\ env.user.opened \in BOOLEAN /\ env.user.exists \in BOOLEAN
      /\ env.machine.version \in Values(C) /\ env.machine.kexDir \in Values(C)
      /\ env.machine.logDir \in Values(C) /\ env.user.logDir \in Values(C)
      /\ env.imagePath \in [pos : Nat, len : Nat]
      /\ env.machine.version.type = "REG_DWORD" => Len(env.machine.version.data) = 1
  BY DEF Environments
<1> DEFINE base == [data EXCEPT !.initialized = TRUE, !.propagated = env.magic,
                                !.winDir = env.systemRoot, !.imageBaseName = name]
<1>3. Holds(base, data.ifeo, data.version, data.kexDir, data.logDir)
  <2> HIDE DEF name
  <2>1. DOMAIN data = {"initialized", "propagated", "version", "ifeo", "winDir",
                       "imageBaseName", "kexDir", "logDir"}
    BY DEF DataStates
  <2> QED BY <2>1
<1> HIDE DEF name, base
<1> DEFINE configured == Data!IfeoParameters(base, env.ifeo)
<1>4. Holds(configured, ifeo, data.version, data.kexDir, data.logDir)
  <2>1. CASE ~env.ifeo.exists
    <3>1. ifeo = data.ifeo
      BY <2>1 DEF DataStates
    <3>2. configured = base
      BY <2>1 DEF Data!IfeoParameters
    <3> HIDE DEF configured, ifeo
    <3> QED BY <1>3, <3>1, <3>2
  <2>2. CASE env.ifeo.exists
    <3>1. configured = [base EXCEPT !.ifeo = ifeo]
      BY <1>3, <2>2 DEF Data!IfeoParameters
    <3> HIDE DEF configured, ifeo
    <3> QED BY <1>3, <3>1
  <2> QED BY <2>1, <2>2
<1>5. d = Data!Configuration(configured, env)
  <2>1. data.initialized = FALSE
    BY <1>1
  <2> QED BY <2>1 DEF Data!DataInitialize, base, name
<1> HIDE DEF ifeo, d, configured
<1> DEFINE global == Data!GlobalConfig(configured, env.machine, env.writable)
<1>6. Holds(global, ifeo, version, kexDir, log1)
  <2>1. CASE ~env.machine.exists
    <3>1. /\ global = configured /\ version = data.version
          /\ kexDir = data.kexDir /\ log1 = data.logDir
      BY <2>1 DEF Data!GlobalConfig
    <3> HIDE DEF version, kexDir, log1, global
    <3> QED BY <1>4, <3>1
  <2>2. CASE env.machine.exists
    <3> DEFINE q == BothBuffers(env.machine.kexDir, env.machine.logDir, data.kexDir, data.logDir,
                                env.writable)
               v == Data!QueryKeyValueData(env.machine.version, data.version, {"REG_DWORD"}, TRUE)
    <3>1. q[1] = kexDir /\ q[2] = log1
      <4>0. /\ env.machine.kexDir \in Values(C) /\ env.machine.logDir \in Values(C)
            /\ data.kexDir \in Seq(C) /\ data.logDir \in Seq(C) /\ env.writable \in BOOLEAN
        BY <1>1, <1>2
      <4>1. /\ q[1] = Read(env.machine.kexDir, Data!StringTypes, env.writable, data.kexDir)
            /\ q[2] = Read(env.machine.logDir, Data!StringTypes, env.writable, data.logDir)
        BY <4>0, MultipleReads
      <4> HIDE DEF q
      <4> QED BY <2>2, <4>1
    <3>2. v.buffer = version
      <4>1. \A w \in BOOLEAN :
               Data!QueryKeyValueData(env.machine.version, data.version, {"REG_DWORD"}, w).buffer
                 = Read(env.machine.version, {"REG_DWORD"}, w, data.version)
        BY <1>1, <1>2, QueryReads
      <4>2. v.buffer = Read(env.machine.version, {"REG_DWORD"}, TRUE, data.version)
        BY <4>1
      <4> HIDE DEF v
      <4> QED BY <2>2, <4>2
    <3>3. global = [configured EXCEPT !.version = v.buffer, !.kexDir = q[1], !.logDir = q[2]]
      BY <1>4, <2>2 DEF Data!GlobalConfig, BothBuffers
    <3> HIDE DEF q, v, kexDir, log1, version, global
    <3> QED BY <1>4, <3>1, <3>2, <3>3
  <2> QED BY <1>2, <2>1, <2>2
<1> HIDE DEF global
<1>7. log1 \in Seq(C) /\ Len(log1) = Len(data.logDir)
  BY <1>1, <1>2, ReadIsBuffer
<1>8. Holds(d, ifeo, version, kexDir, log2)
  <2>1. d = Data!LocalConfig(global, env.user, env.writable)
    BY <1>5 DEF Data!Configuration, global
  <2> HIDE DEF version, kexDir, log1
  <2>2. CASE ~(env.user.opened /\ env.user.exists)
    <3>1. d = global /\ log2 = log1
      BY <2>1, <2>2 DEF Data!LocalConfig
    <3> HIDE DEF log2
    <3> QED BY <1>6, <3>1
  <2>3. CASE env.user.opened /\ env.user.exists
    <3> DEFINE b == OneBuffer(env.user.logDir, log1, env.writable)
    <3>1. b = log2
      <4>1. b = Read(env.user.logDir, Data!StringTypes, env.writable, log1)
        BY <1>2, <1>7, SingleRead
      <4> HIDE DEF b
      <4> QED BY <2>3, <4>1
    <3>2. d = [global EXCEPT !.logDir = b]
      BY <1>6, <2>1, <2>3 DEF Data!LocalConfig, OneBuffer
    <3> HIDE DEF b, log2
    <3> QED BY <1>6, <3>1, <3>2
  <2> QED BY <1>2, <2>2, <2>3
<1> DEFINE userHas == /\ env.writable /\ env.user.opened /\ env.user.exists
                      /\ Data!Usable(env.user.logDir, Data!StringTypes, data.logDir)
           MachineHas(value, buffer) ==
             env.writable /\ env.machine.exists /\ Data!Usable(value, Data!StringTypes, buffer)
<1>9. IF userHas THEN Data!TextIs(log2, env.user.logDir)
      ELSE IF MachineHas(env.machine.logDir, data.logDir)
           THEN Data!TextIs(log2, env.machine.logDir)
           ELSE log2 = data.logDir
  <2>1. CASE userHas
    <3>1. Data!Usable(env.user.logDir, Data!StringTypes, log1)
      BY <1>7, <2>1 DEF Data!Usable
    <3>2. log2 = Over(env.user.logDir, log1)
      BY <2>1, <3>1 DEF Read
    <3> HIDE DEF log1, log2
    <3>3. Data!TextIs(log2, env.user.logDir)
      BY <1>2, <1>7, <3>1, <3>2, TextOfOver
    <3> QED BY <2>1, <3>3
  <2>2. CASE ~userHas /\ MachineHas(env.machine.logDir, data.logDir)
    <3>1. log2 = log1
      BY <1>2, <1>7, <2>2 DEF Read, Data!Usable
    <3>2. log1 = Over(env.machine.logDir, data.logDir)
      BY <2>2 DEF Read
    <3>3. Data!TextIs(Over(env.machine.logDir, data.logDir), env.machine.logDir)
      BY <1>1, <1>2, <2>2, TextOfOver
    <3> HIDE DEF log1, log2
    <3> QED BY <2>2, <3>1, <3>2, <3>3
  <2>3. CASE ~userHas /\ ~MachineHas(env.machine.logDir, data.logDir)
    <3>1. log1 = data.logDir
      BY <2>3 DEF Read
    <3>2. log2 = log1
      BY <1>2, <1>7, <2>3 DEF Read, Data!Usable
    <3> HIDE DEF log1, log2
    <3> QED BY <2>3, <3>1, <3>2
  <2> QED BY <2>1, <2>2, <2>3
<1>10. IF MachineHas(env.machine.kexDir, data.kexDir) THEN Data!TextIs(kexDir, env.machine.kexDir)
       ELSE kexDir = data.kexDir
  <2>1. CASE MachineHas(env.machine.kexDir, data.kexDir)
    <3>1. kexDir = Over(env.machine.kexDir, data.kexDir)
      BY <2>1 DEF Read
    <3>2. Data!TextIs(Over(env.machine.kexDir, data.kexDir), env.machine.kexDir)
      BY <1>1, <1>2, <2>1, TextOfOver
    <3> QED BY <2>1, <3>1, <3>2
  <2>2. CASE ~MachineHas(env.machine.kexDir, data.kexDir)
    BY <2>2 DEF Read
  <2> QED BY <2>1, <2>2
<1>11. version = IF env.machine.exists /\ Data!Usable(env.machine.version, {"REG_DWORD"}, data.version)
                 THEN env.machine.version.data ELSE data.version
  <2>1. CASE env.machine.exists /\ Data!Usable(env.machine.version, {"REG_DWORD"}, data.version)
    <3> DEFINE x == env.machine.version.data
    <3>1. x \in Seq(C) /\ Len(x) = 1
      BY <1>2, <2>1 DEF Data!Usable, Values
    <3>2. version = Over(env.machine.version, data.version)
      BY <2>1 DEF Read
    <3>3. version = [i \in 1 .. 1 |-> x[i]]
      <4>1. DOMAIN x = 1 .. 1 /\ DOMAIN data.version = 1 .. 1
        BY <1>1, <3>1
      <4>2. Over(env.machine.version, data.version)
              = [i \in DOMAIN data.version |-> IF i \in DOMAIN x THEN x[i] ELSE data.version[i]]
        BY DEF Over
      <4> HIDE DEF x, version
      <4> QED BY <3>2, <4>1, <4>2
    <3>4. x = [i \in 1 .. 1 |-> x[i]]
      BY <3>1
    <3> HIDE DEF x, version
    <3>5. version = x
      BY <3>3, <3>4
    <3> QED BY <2>1, <3>5 DEF x
  <2>2. CASE ~(env.machine.exists /\ Data!Usable(env.machine.version, {"REG_DWORD"}, data.version))
    BY <2>2 DEF Read
  <2> QED BY <2>1, <2>2
<1> HIDE DEF version, kexDir, log1, log2
<1>12. /\ d.initialized = TRUE /\ d.logDir = log2 /\ d.kexDir = kexDir /\ d.version = version
       /\ d.ifeo = ifeo /\ d.imageBaseName = name
  BY <1>8
<1>13. Data!DataInitialize(d, later) = d
  BY <1>12 DEF Data!DataInitialize
<1>14. /\ Data!EndOf(name) = Data!EndOf(env.imagePath) /\ name.pos >= env.imagePath.pos
       /\ \A i \in DOMAIN Data!Sub(env.memory, name) : Data!Sub(env.memory, name)[i] # "\\"
       /\ name.pos > env.imagePath.pos => Data!Cell(env.memory, name.pos - 1) = "\\"
  BY <1>2, FileNameIs DEF name
<1> QED BY <1>9, <1>10, <1>11, <1>12, <1>13, <1>14 DEF Data!HasPrecedence, ifeo, d


-----------------------------------------------------------------------------
(* The directories that CreateDirectoryRecursive makes.  It can make the   *)
(* first k elements of a path (Reaches) if the first of them exists and    *)
(* none of the others is missing and denied.                               *)

UpTo(path, k) == SubSeq(path, 1, k)
Reaches(path, dirs, denied, k) ==
  /\ k >= 1 /\ UpTo(path, 1) \in dirs
  /\ \A j \in 1 .. k : UpTo(path, j) \in denied => UpTo(path, j) \in dirs
MadeUpTo(path, dirs, denied, k) ==
  dirs \cup {UpTo(path, j) : j \in {i \in 1 .. k : Reaches(path, dirs, denied, i)}}
Made(path, dirs, denied, k) ==
  IF Reaches(path, dirs, denied, k)
  THEN [ok |-> TRUE, dirs |-> MadeUpTo(path, dirs, denied, k)]
  ELSE [ok |-> FALSE, dirs |-> MadeUpTo(path, dirs, denied, k)]

(* One call, as the code does it, given what the call for k - 1 returns.   *)
Try(path, denied, k, there) ==
  IF UpTo(path, k) \in there THEN [ok |-> TRUE, dirs |-> there]
  ELSE IF k > 1 /\ UpTo(path, k - 1) \in there /\ UpTo(path, k) \notin denied
       THEN [ok |-> TRUE, dirs |-> there \cup {UpTo(path, k)}]
  ELSE [ok |-> FALSE, dirs |-> there]
CreateStep(path, dirs, denied, create, k) ==
  IF k = 0 THEN [ok |-> FALSE, dirs |-> dirs]
  ELSE LET first == Try(path, denied, k, dirs)
       IN IF first.ok THEN first
          ELSE IF ~create[k - 1].ok THEN create[k - 1]
          ELSE Try(path, denied, k, create[k - 1].dirs)

LEMMA UpToIs ==
  ASSUME NEW C, NEW path \in Seq(C), NEW k \in 1 .. Len(path)
  PROVE  /\ Len(UpTo(path, k)) = k
         /\ k > 1 => SubSeq(UpTo(path, k), 1, Len(UpTo(path, k)) - 1) = UpTo(path, k - 1)
         /\ \A j \in 1 .. Len(path) : UpTo(path, j) = UpTo(path, k) => j = k
<1>1. \A j \in 1 .. Len(path) : UpTo(path, j) = [i \in 1 .. j |-> path[i]] /\ Len(UpTo(path, j)) = j
  <2> SUFFICES ASSUME NEW j \in 1 .. Len(path)
               PROVE  UpTo(path, j) = [i \in 1 .. j |-> path[i]] /\ Len(UpTo(path, j)) = j
    OBVIOUS
  <2>1. j \in Nat /\ UpTo(path, j) = [i \in 1 .. j |-> path[i]]
    BY DEF UpTo
  <2> QED BY <2>1
<1>2. ASSUME k > 1 PROVE SubSeq(UpTo(path, k), 1, Len(UpTo(path, k)) - 1) = UpTo(path, k - 1)
  <2> DEFINE u == UpTo(path, k)
  <2>1. Len(u) = k /\ u = [i \in 1 .. k |-> path[i]] /\ k - 1 \in 1 .. Len(path)
    BY <1>1, <1>2
  <2>2. UpTo(path, k - 1) = [i \in 1 .. (k - 1) |-> path[i]]
    BY <1>1, <2>1
  <2> HIDE DEF u
  <2>3. SubSeq(u, 1, k - 1) = [i \in 1 .. (k - 1) |-> u[i]]
    <3>1. k - 1 \in Int /\ (k - 1) - 1 + 1 = k - 1 /\ \A i \in 1 .. (k - 1) : i + 1 - 1 = i
      OBVIOUS
    <3> QED BY <3>1
  <2>4. \A i \in 1 .. (k - 1) : u[i] = path[i]
    BY <2>1
  <2>5. SubSeq(u, 1, k - 1) = UpTo(path, k - 1)
    BY <2>2, <2>3, <2>4
  <2> QED BY <2>1, <2>5 DEF u
<1> QED BY <1>1, <1>2

(* All directories above one that exists exist too.                        *)
LEMMA TreeIsClosed ==
  ASSUME NEW C, NEW path \in Seq(C), NEW dirs, Data!IsTree(dirs), NEW k \in 1 .. Len(path),
         UpTo(path, k) \in dirs
  PROVE  \A j \in 1 .. k : UpTo(path, j) \in dirs
<1> DEFINE Gaps == {g \in 0 .. (k - 1) : UpTo(path, k - g) \notin dirs}
<1>1. Gaps = {}
  <2> SUFFICES ASSUME Gaps # {} PROVE FALSE
    OBVIOUS
  <2>1. Gaps \subseteq Nat
    OBVIOUS
  <2>2. PICK g \in Gaps : \A h \in Gaps : g <= h
    BY <2>1, LeastNumber
  <2>3. g \in 0 .. (k - 1) /\ UpTo(path, k - g) \notin dirs
    OBVIOUS
  <2>4. g # 0
    <3> SUFFICES ASSUME g = 0 PROVE FALSE
      OBVIOUS
    <3>1. k - g = k
      OBVIOUS
    <3> QED BY <2>3, <3>1
  <2>5. g - 1 \in 0 .. (k - 1) /\ g - 1 < g
    BY <2>3, <2>4
  <2>6. g - 1 \notin Gaps
    <3>1. g - 1 \in Int /\ g \in Int /\ ~(g <= g - 1)
      BY <2>5
    <3> HIDE DEF Gaps
    <3> QED BY <2>2, <3>1
  <2>7. UpTo(path, k - (g - 1)) \in dirs
    BY <2>5, <2>6
  <2> DEFINE j == k - (g - 1)
  <2>8. j \in 1 .. Len(path) /\ j > 1 /\ j - 1 = k - g
    BY <2>3, <2>4
  <2> HIDE DEF j
  <2>9. /\ Len(UpTo(path, j)) = j
        /\ SubSeq(UpTo(path, j), 1, Len(UpTo(path, j)) - 1) = UpTo(path, j - 1)
    BY <2>8, UpToIs
  <2>10. UpTo(path, j) \in dirs
    BY <2>7 DEF j
  <2>11. UpTo(path, j - 1) \in dirs
    BY <2>8, <2>9, <2>10 DEF Data!IsTree
  <2> QED BY <2>3, <2>8, <2>11
<1>2. ASSUME NEW j \in 1 .. k PROVE UpTo(path, j) \in dirs
  <2>1. k - j \in 0 .. (k - 1) /\ k - (k - j) = j
    OBVIOUS
  <2>2. UpTo(path, k - (k - j)) \in dirs
    BY <1>1, <2>1
  <2> QED BY <2>1, <2>2
<1> QED BY <1>2

LEMMA ReachesExisting ==
  ASSUME NEW C, NEW path \in Seq(C), NEW dirs, Data!IsTree(dirs), NEW denied,
         NEW k \in 1 .. Len(path), UpTo(path, k) \in dirs
  PROVE  /\ Reaches(path, dirs, denied, k)
         /\ MadeUpTo(path, dirs, denied, k) = dirs
<1>1. \A j \in 1 .. k : UpTo(path, j) \in dirs
  BY TreeIsClosed
<1>2. Reaches(path, dirs, denied, k)
  BY <1>1 DEF Reaches
<1>3. MadeUpTo(path, dirs, denied, k) = dirs
  BY <1>1 DEF MadeUpTo
<1> QED BY <1>2, <1>3

(* A missing element is made if the one above it is reached and it is not  *)
(* denied.                                                                 *)
LEMMA ReachesOneMore ==
  ASSUME NEW C, NEW path \in Seq(C), NEW dirs, NEW denied,
         NEW k \in 1 .. Len(path), UpTo(path, k) \notin dirs
  PROVE  /\ Reaches(path, dirs, denied, k) <=>
              k > 1 /\ Reaches(path, dirs, denied, k - 1) /\ UpTo(path, k) \notin denied
         /\ MadeUpTo(path, dirs, denied, k)
              = IF Reaches(path, dirs, denied, k)
                THEN MadeUpTo(path, dirs, denied, k - 1) \cup {UpTo(path, k)}
                ELSE MadeUpTo(path, dirs, denied, k - 1)
<1>0. k \in Nat /\ k >= 1 /\ 1 .. k = (1 .. (k - 1)) \cup {k}
  OBVIOUS
<1>1. Reaches(path, dirs, denied, k) =>
        k > 1 /\ Reaches(path, dirs, denied, k - 1) /\ UpTo(path, k) \notin denied
  <2> SUFFICES ASSUME Reaches(path, dirs, denied, k)
               PROVE  k > 1 /\ Reaches(path, dirs, denied, k - 1) /\ UpTo(path, k) \notin denied
    OBVIOUS
  <2>1. /\ UpTo(path, 1) \in dirs
        /\ \A j \in 1 .. k : UpTo(path, j) \in denied => UpTo(path, j) \in dirs
    BY DEF Reaches
  <2>2. k # 1
    BY <2>1
  <2>3. k > 1 /\ k - 1 >= 1 /\ \A j \in 1 .. (k - 1) : j \in 1 .. k
    BY <1>0, <2>2
  <2> QED BY <1>0, <2>1, <2>3 DEF Reaches
<1>2. k > 1 /\ Reaches(path, dirs, denied, k - 1) /\ UpTo(path, k) \notin denied
        => Reaches(path, dirs, denied, k)
  BY <1>0 DEF Reaches
<1>3. {i \in 1 .. k : Reaches(path, dirs, denied, i)}
        = IF Reaches(path, dirs, denied, k)
          THEN {i \in 1 .. (k - 1) : Reaches(path, dirs, denied, i)} \cup {k}
          ELSE {i \in 1 .. (k - 1) : Reaches(path, dirs, denied, i)}
  BY <1>0
<1>4. MadeUpTo(path, dirs, denied, k)
        = IF Reaches(path, dirs, denied, k)
          THEN MadeUpTo(path, dirs, denied, k - 1) \cup {UpTo(path, k)}
          ELSE MadeUpTo(path, dirs, denied, k - 1)
  <2> DEFINE K == {i \in 1 .. (k - 1) : Reaches(path, dirs, denied, i)}
             R == Reaches(path, dirs, denied, k)
             S == {i \in 1 .. k : Reaches(path, dirs, denied, i)}
  <2>1. /\ MadeUpTo(path, dirs, denied, k) = dirs \cup {UpTo(path, j) : j \in S}
        /\ MadeUpTo(path, dirs, denied, k - 1) = dirs \cup {UpTo(path, j) : j \in K}
    BY DEF MadeUpTo
  <2>2. S = IF R THEN K \cup {k} ELSE K
    BY <1>3
  <2> HIDE DEF K, R, S
  <2>3. dirs \cup {UpTo(path, j) : j \in S}
          = IF R THEN (dirs \cup {UpTo(path, j) : j \in K}) \cup {UpTo(path, k)}
            ELSE dirs \cup {UpTo(path, j) : j \in K}
    <3>1. CASE R
      <4>1. S = K \cup {k}
        BY <2>2, <3>1
      <4>2. \A x : x \in {UpTo(path, j) : j \in S}
                     <=> x \in {UpTo(path, j) : j \in K} \/ x = UpTo(path, k)
        BY <4>1
      <4> QED BY <3>1, <4>2
    <3>2. CASE ~R
      BY <2>2, <3>2
    <3> QED BY <3>1, <3>2
  <2> QED BY <2>1, <2>3 DEF R
<1> QED BY <1>1, <1>2, <1>4

LEMMA MadeIsMore ==
  ASSUME NEW C, NEW path \in Seq(C), NEW dirs, NEW denied, NEW k \in 1 .. Len(path), k > 1,
         UpTo(path, k) \notin dirs, Reaches(path, dirs, denied, k - 1)
  PROVE  /\ UpTo(path, k) \notin MadeUpTo(path, dirs, denied, k - 1)
         /\ UpTo(path, k - 1) \in MadeUpTo(path, dirs, denied, k - 1)
<1>1. k - 1 \in 1 .. (k - 1) /\ \A j \in 1 .. (k - 1) : j # k /\ j \in 1 .. Len(path)
  OBVIOUS
<1>2. \A j \in 1 .. (k - 1) : UpTo(path, j) # UpTo(path, k)
  BY <1>1, UpToIs
<1> QED BY <1>1, <1>2 DEF MadeUpTo

LEMMA MadeSteps ==
  ASSUME NEW C, NEW path \in Seq(C), NEW dirs, Data!IsTree(dirs), NEW denied,
         NEW k \in 0 .. Len(path), NEW create,
         k > 0 => create[k - 1] = Made(path, dirs, denied, k - 1)
  PROVE  CreateStep(path, dirs, denied, create, k) = Made(path, dirs, denied, k)
<1> DEFINE first == Try(path, denied, k, dirs)
           above == Made(path, dirs, denied, k - 1)
<1>1. CASE k = 0
  <2>1. ~Reaches(path, dirs, denied, k) /\ 1 .. k = {}
    BY <1>1 DEF Reaches
  <2>2. MadeUpTo(path, dirs, denied, k) = dirs
    BY <2>1 DEF MadeUpTo
  <2> QED BY <1>1, <2>1, <2>2 DEF CreateStep, Made
<1>2. CASE k > 0 /\ UpTo(path, k) \in dirs
  <2>1. Reaches(path, dirs, denied, k) /\ MadeUpTo(path, dirs, denied, k) = dirs
    BY <1>2, ReachesExisting
  <2>2. first = [ok |-> TRUE, dirs |-> dirs]
    BY <1>2 DEF Try
  <2>3. CreateStep(path, dirs, denied, create, k) = first
    BY <1>2, <2>2 DEF CreateStep
  <2> QED BY <2>1, <2>2, <2>3 DEF Made
<1>3. CASE k > 0 /\ UpTo(path, k) \notin dirs /\ first.ok
  <2>1. /\ k > 1 /\ UpTo(path, k - 1) \in dirs /\ UpTo(path, k) \notin denied
        /\ first = [ok |-> TRUE, dirs |-> dirs \cup {UpTo(path, k)}]
    BY <1>3 DEF Try
  <2>2. k \in 1 .. Len(path) /\ k - 1 \in 1 .. Len(path)
    BY <2>1
  <2>3. Reaches(path, dirs, denied, k - 1) /\ MadeUpTo(path, dirs, denied, k - 1) = dirs
    BY <2>1, <2>2, ReachesExisting
  <2>4. /\ Reaches(path, dirs, denied, k)
        /\ MadeUpTo(path, dirs, denied, k) = dirs \cup {UpTo(path, k)}
    BY <1>3, <2>1, <2>2, <2>3, ReachesOneMore
  <2>5. CreateStep(path, dirs, denied, create, k) = first
    BY <1>3 DEF CreateStep
  <2> QED BY <2>1, <2>4, <2>5 DEF Made
<1>4. CASE k > 0 /\ UpTo(path, k) \notin dirs /\ ~first.ok
  <2>0. k \in 1 .. Len(path)
    BY <1>4
  <2>1. CreateStep(path, dirs, denied, create, k)
          = IF ~above.ok THEN above ELSE Try(path, denied, k, above.dirs)
    BY <1>4 DEF CreateStep
  <2>2. CASE ~Reaches(path, dirs, denied, k - 1)
    <3>1. ~Reaches(path, dirs, denied, k)
      BY <1>4, <2>0, <2>2, ReachesOneMore
    <3>2. MadeUpTo(path, dirs, denied, k) = MadeUpTo(path, dirs, denied, k - 1)
      BY <1>4, <2>0, <3>1, ReachesOneMore
    <3>3. above = [ok |-> FALSE, dirs |-> MadeUpTo(path, dirs, denied, k - 1)]
      BY <2>2 DEF Made
    <3> HIDE DEF above
    <3>4. CreateStep(path, dirs, denied, create, k) = above
      BY <2>1, <3>3
    <3> QED BY <3>1, <3>2, <3>3, <3>4 DEF Made
  <2>3. CASE Reaches(path, dirs, denied, k - 1)
    <3>0. k > 1
      BY <2>0, <2>3 DEF Reaches
    <3>1. above = [ok |-> TRUE, dirs |-> MadeUpTo(path, dirs, denied, k - 1)]
      BY <2>3 DEF Made
    <3> DEFINE there == MadeUpTo(path, dirs, denied, k - 1)
    <3> HIDE DEF above
    <3>2. CreateStep(path, dirs, denied, create, k) = Try(path, denied, k, there)
      BY <2>1, <3>1
    <3>3. UpTo(path, k) \notin there /\ UpTo(path, k - 1) \in there
      BY <1>4, <2>0, <2>3, <3>0, MadeIsMore
    <3> HIDE DEF there
    <3>4. Try(path, denied, k, there)
            = IF UpTo(path, k) \notin denied
              THEN [ok |-> TRUE, dirs |-> there \cup {UpTo(path, k)}]
              ELSE [ok |-> FALSE, dirs |-> there]
      BY <3>0, <3>3 DEF Try
    <3>5. CASE UpTo(path, k) \notin denied
      <4>1. Reaches(path, dirs, denied, k)
        BY <1>4, <2>0, <2>3, <3>0, <3>5, ReachesOneMore
      <4>2. MadeUpTo(path, dirs, denied, k) = there \cup {UpTo(path, k)}
        BY <1>4, <2>0, <4>1, ReachesOneMore DEF there
      <4> QED BY <3>2, <3>4, <3>5, <4>1, <4>2 DEF Made
    <3>6. CASE UpTo(path, k) \in denied
      <4>1. ~Reaches(path, dirs, denied, k)
        BY <1>4, <2>0, <3>6, ReachesOneMore
      <4>2. MadeUpTo(path, dirs, denied, k) = there
        BY <1>4, <2>0, <4>1, ReachesOneMore DEF there
      <4> QED BY <3>2, <3>4, <3>6, <4>1, <4>2 DEF Made
    <3> QED BY <3>5, <3>6
  <2> QED BY <2>2, <2>3
<1> QED BY <1>1, <1>2, <1>3, <1>4

LEMMA DirectoriesAreMade ==
  ASSUME NEW C, NEW path \in Seq(C), NEW dirs, Data!IsTree(dirs), NEW denied
  PROVE  Data!CreateDirectoryRecursive(path, dirs, denied) = Made(path, dirs, denied, Len(path))
<1> DEFINE L == Len(path)
           w == CHOOSE w : w = [k \in 0 .. L |-> CreateStep(path, dirs, denied, w, k)]
           v == [k \in 0 .. L |-> Made(path, dirs, denied, k)]
<1>0. L \in Nat
  OBVIOUS
<1>1. v = [k \in 0 .. L |-> CreateStep(path, dirs, denied, v, k)]
  <2>1. ASSUME NEW k \in 0 .. L PROVE v[k] = CreateStep(path, dirs, denied, v, k)
    <3>1. v[k] = Made(path, dirs, denied, k)
      OBVIOUS
    <3>2. k > 0 => v[k - 1] = Made(path, dirs, denied, k - 1)
      OBVIOUS
    <3> HIDE DEF v
    <3> QED BY <3>1, <3>2, MadeSteps
  <2> QED BY <2>1
<1>2. w = [k \in 0 .. L |-> CreateStep(path, dirs, denied, w, k)]
  BY <1>1
<1>3. Data!CreateDirectoryRecursive(path, dirs, denied) = w[L]
  BY DEF Data!CreateDirectoryRecursive, CreateStep, Try, UpTo
<1> HIDE DEF w, v
<1> DEFINE Bad == {k \in 0 .. L : w[k] # Made(path, dirs, denied, k)}
<1>4. Bad = {}
  <2> SUFFICES ASSUME Bad # {} PROVE FALSE
    OBVIOUS
  <2>1. Bad \subseteq Nat
    OBVIOUS
  <2>2. PICK k \in Bad : \A j \in Bad : k <= j
    BY <2>1, LeastNumber
  <2>3. k \in 0 .. L /\ w[k] = CreateStep(path, dirs, denied, w, k)
    BY <1>2
  <2>4. k > 0 => w[k - 1] = Made(path, dirs, denied, k - 1)
    <3> SUFFICES ASSUME k > 0, w[k - 1] # Made(path, dirs, denied, k - 1) PROVE FALSE
      OBVIOUS
    <3>1. k - 1 \in 0 .. L /\ k - 1 < k
      BY <2>3
    <3>2. k - 1 \in Bad
      BY <3>1
    <3> HIDE DEF Bad
    <3> QED BY <2>2, <2>3, <3>1, <3>2
  <2>5. CreateStep(path, dirs, denied, w, k) = Made(path, dirs, denied, k)
    BY <2>3, <2>4, MadeSteps
  <2> QED BY <2>3, <2>5
<1> QED BY <1>0, <1>3, <1>4

(* For every path, every tree of directories and every set of directories  *)
(* that cannot be made: the directory is there at the end exactly if the   *)
(* call says so and exactly if none of those missing above it is denied;   *)
(* nothing else is made and nothing goes away.                             *)
THEOREM DirectoryIsAlwaysMade ==
  ASSUME NEW C, NEW path \in Seq(C), path # <<>>, NEW dirs, Data!IsTree(dirs), NEW denied
  PROVE  Data!DirectoryIsMade(path, dirs, denied)
<1> DEFINE L == Len(path)
           r == Data!CreateDirectoryRecursive(path, dirs, denied)
           Reached(k) == Reaches(path, dirs, denied, k)
           above == {SubSeq(path, 1, n) : n \in 1 .. L}
<1>1. L \in Nat /\ L >= 1 /\ UpTo(path, L) = path
  <2>1. L \in Nat /\ L >= 1
    BY EmptySeq
  <2>2. UpTo(path, L) = [i \in 1 .. L |-> path[i]]
    BY <2>1 DEF UpTo
  <2>3. path = [i \in 1 .. L |-> path[i]]
    OBVIOUS
  <2> QED BY <2>1, <2>2, <2>3
<1>2. r = Made(path, dirs, denied, L)
  BY DirectoriesAreMade
<1>3. /\ r.ok <=> Reached(L)
      /\ r.dirs = MadeUpTo(path, dirs, denied, L)
  <2> HIDE DEF r
  <2> QED BY <1>2 DEF Made
<1> HIDE DEF r
<1>4. above = {UpTo(path, n) : n \in 1 .. L}
  BY DEF UpTo
<1>5. Reached(L) <=> UpTo(path, 1) \in dirs /\ above \cap denied \subseteq dirs
  BY <1>1, <1>4 DEF Reaches
<1>6. Reached(L) <=> path \in r.dirs
  <2>1. Reached(L) => path \in r.dirs
    BY <1>1, <1>3 DEF MadeUpTo
  <2>2. ASSUME path \in dirs PROVE Reached(L)
    BY <1>1, <2>2, ReachesExisting
  <2>3. ASSUME NEW j \in 1 .. L, Reached(j), path = UpTo(path, j) PROVE Reached(L)
    <3>1. L \in 1 .. L
      BY <1>1
    <3>2. j = L
      BY <1>1, <2>3, <3>1, UpToIs
    <3> QED BY <2>3, <3>2
  <2> QED BY <1>3, <2>1, <2>2, <2>3 DEF MadeUpTo
<1>7. dirs \subseteq r.dirs /\ r.dirs \subseteq dirs \cup above
  BY <1>3, <1>4 DEF MadeUpTo
<1> QED BY <1>3, <1>5, <1>6, <1>7 DEF Data!DirectoryIsMade, UpTo, r
=============================================================================
