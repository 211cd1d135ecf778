--------------------------- MODULE VxlViewProofs ---------------------------
(***************************************************************************)
(* Proofs about the exports and the rows of VxlView, for every number of   *)
(* export threads, for logs of every length and whatever writers append.   *)
(*                                                                         *)
(* Rows are filled by a recursive function and counted with cardinalities; *)
(* inductions over rows rest on the least number of a set.                 *)
(***************************************************************************)
EXTENDS VxlView, SequenceTheorems, FiniteSetTheorems, WellFoundedInduction, TLAPS

(* What an export may hold or write.                                       *)
Held == Entry \cup {Unreadable, Freed, Lost, None}

ExportStates == {"idle", "start", "query", "failed", "fetch", "text", "finish"}

Export == [step : ExportStates, pos : Nat, max : Int, entry : Held,
           out : Seq(Held), same : BOOLEAN]

(* The log that is open has entries, and as many as were counted when it   *)
(* was opened; logs only grow.                                             *)
LogInv ==
  /\ log \in [Files -> Seq(Entry)]
  /\ view \in Seq(Held)
  /\ file # None => /\ file \in Files
                    /\ Len(view) > 0 /\ Len(view) <= Len(log[file])

(* While a log is being opened, the index built so far has entries; what   *)
(* is saved is a log that is open.                                         *)
WindowInv ==
  /\ ui = "opening" => /\ opening.file \in Files
                       /\ opening.index \in 1 .. Len(log[opening.file])
  /\ ui = "save" => file # None

(* How many entries an export x has written agrees with its EntryIndex,    *)
(* and they are the first ones of the log v, each of them as it is or lost;*)
(* it asks for no more than were counted, and for none less than there are.*)
Writing(x) == x.step \in {"fetch", "text", "finish"}
Written(x) == IF x.step = "text" THEN x.pos - 1 ELSE x.pos

Begun(x) == x.step \in {"start", "query"} => x.pos = 0 /\ x.out = <<>> /\ x.same
Bounded(x) ==
  /\ x.step = "fetch" => x.pos <= x.max
  /\ x.step = "text" => x.pos >= 1
  /\ x.step = "finish" => x.pos > x.max
Faithful(x, v) ==
  Writing(x) /\ x.same =>
    /\ Len(v) <= x.max + 1
    /\ Len(x.out) = Written(x)
    /\ \A i \in 1 .. Len(v) : i <= Len(x.out) => x.out[i] \in {v[i], Lost}
    /\ x.step = "text" /\ x.pos <= Len(v) => x.entry = v[x.pos]

ExportInv ==
  /\ exp \in [Exporters -> Export]
  /\ \A e \in Exporters :
       /\ exp[e].step # "idle" => file # None
       /\ Begun(exp[e]) /\ Bounded(exp[e]) /\ Faithful(exp[e], view)

Inv == LogInv /\ WindowInv /\ ExportInv

-----------------------------------------------------------------------------
LEMMA IdleIsExport ==
  /\ IdleExport \in Export
  /\ [IdleExport EXCEPT !.step = "start"] \in Export
<1>1. None \in Held /\ <<>> \in Seq(Held)
  BY DEF Held
<1>2. IdleExport \in Export
  BY <1>1 DEF IdleExport, Export, ExportStates
<1>3. [IdleExport EXCEPT !.step = "start"] \in Export
  BY <1>2 DEF Export, ExportStates
<1> QED
  BY <1>2, <1>3

LEMMA InitInv == Init => Inv
<1> SUFFICES ASSUME Init PROVE Inv
  OBVIOUS
<1>1. log \in [Files -> Seq(Entry)]
  <2>1. PICK logs \in [Files -> UNION {[1..n -> Entry] : n \in 0..MaxEntries}] : log = logs
    BY ConstantsAssumption DEF Init
  <2>2. ASSUME NEW f \in Files PROVE log[f] \in Seq(Entry)
    <3>1. PICK n \in 0..MaxEntries : log[f] \in [1..n -> Entry]
      BY <2>1
    <3>2. n \in Nat
      BY ConstantsAssumption
    <3> QED
      BY <3>1, <3>2
  <2> QED
    BY <2>1, <2>2
<1>2. LogInv
  BY <1>1 DEF Init, LogInv
<1>3. WindowInv
  BY DEF Init, WindowInv
<1>4. ExportInv
  BY IdleIsExport DEF Init, ExportInv, IdleExport, Begun, Bounded, Faithful, Writing
<1> QED
  BY <1>2, <1>3, <1>4 DEF Inv

(* What does not touch the logs, the view and the exports.                 *)
LEMMA OtherStepsKeepInv ==
  ASSUME Inv, UNCHANGED <<log, file, view, exp>>,
         \/ UNCHANGED <<ui, opening>>
         \/ ui' = "idle"
         \/ ui' \in {"open", "save"} /\ (ui' = "save" => file # None)
  PROVE  Inv'
<1>1. LogInv' /\ ExportInv'
  BY DEF Inv, LogInv, ExportInv
<1>2. WindowInv'
  BY DEF Inv, WindowInv
<1> QED
  BY <1>1, <1>2 DEF Inv

LEMMA EndKeepsInv ==
  ASSUME Inv, NEW cause, End(cause)
  PROVE  Inv'
BY OtherStepsKeepInv DEF End, uiVars, viewVars

-----------------------------------------------------------------------------
(* The logs and the window                                                 *)

LEMMA WriteKeepsInv ==
  ASSUME Inv, NEW f \in Files, NEW e \in Entries, Write(f, e)
  PROVE  Inv'
<1>1. log \in [Files -> Seq(Entry)] /\ e \in Entry
  BY ConstantsAssumption DEF Inv, LogInv
<1>2. log' \in [Files -> Seq(Entry)]
      /\ \A g \in Files : Len(log'[g]) >= Len(log[g]) /\ Len(log[g]) \in Nat
                          /\ Len(log'[g]) \in Nat
  <2>1. log' = [log EXCEPT ![f] = Append(log[f], e)]
    BY DEF Write
  <2>2. ASSUME NEW g \in Files
        PROVE  /\ log'[g] \in Seq(Entry)
               /\ Len(log'[g]) >= Len(log[g]) /\ Len(log[g]) \in Nat /\ Len(log'[g]) \in Nat
    <3>1. log[g] \in Seq(Entry) /\ log[f] \in Seq(Entry)
      BY <1>1
    <3>2. CASE g = f
      <4>1. log'[g] = Append(log[f], e)
        BY <1>1, <2>1, <3>2
      <4> QED
        BY <1>1, <3>1, <3>2, <4>1
    <3>3. CASE g # f
      <4>1. log'[g] = log[g]
        BY <1>1, <2>1, <3>3
      <4> QED
        BY <3>1, <4>1
    <3> QED
      BY <3>2, <3>3
  <2> QED
    BY <1>1, <2>1, <2>2
<1>3. UNCHANGED <<ui, opening, file, view, exp>>
  BY DEF Write, uiVars, viewVars
<1>4. LogInv'
  BY <1>2, <1>3 DEF Inv, LogInv
<1>5. WindowInv'
  BY <1>2, <1>3 DEF Inv, WindowInv
<1>6. ExportInv'
  BY <1>3 DEF Inv, ExportInv
<1> QED
  BY <1>4, <1>5, <1>6 DEF Inv

LEMMA VxlOpenLogKeepsInv ==
  ASSUME Inv, NEW f \in Files, VxlOpenLog(f)
  PROVE  Inv'
<1>1. UNCHANGED <<log, file, view, exp>> /\ ui' = "opening"
      /\ opening' = [file |-> f, index |-> Len(log[f])] /\ log[f] # <<>>
  BY DEF VxlOpenLog, viewVars
<1>2. log[f] \in Seq(Entry)
  BY DEF Inv, LogInv
<1>3. Len(log[f]) \in 1 .. Len(log[f])
  BY <1>1, <1>2
<1>4. LogInv' /\ ExportInv'
  BY <1>1 DEF Inv, LogInv, ExportInv
<1>5. WindowInv'
  BY <1>1, <1>3 DEF WindowInv
<1> QED
  BY <1>4, <1>5 DEF Inv

(* The new view has as many entries as the header says.                    *)
LEMMA ViewsAreWhole ==
  ASSUME Inv, ui = "opening", NEW v \in Views
  PROVE  /\ opening.file \in Files
         /\ v \in Seq(Held) /\ Len(v) > 0 /\ Len(v) = Len(log[opening.file])
<1> DEFINE s == log[opening.file]
           k == opening.index
           more == Len(s) - k
<1>1. opening.file \in Files /\ k \in 1 .. Len(s)
  BY DEF Inv, WindowInv
<1>2. s \in Seq(Entry) /\ Len(s) \in Nat
  BY <1>1 DEF Inv, LogInv
<1>3. PICK junk \in [1 .. more -> JunkReads] : v = SubSeq(s, 1, k) \o junk
  BY DEF Views
<1> HIDE DEF s, k
<1>4. k \in Nat /\ k >= 1 /\ more \in Nat
  BY <1>1, <1>2
<1> HIDE DEF more
<1>5. SubSeq(s, 1, k) \in Seq(Held) /\ Len(SubSeq(s, 1, k)) = k
  <2>1. s \in Seq(Held)
    BY <1>2 DEF Held
  <2> QED
    BY <1>1, <1>2, <2>1, SubSeqProperties
<1>6. junk \in Seq(Held) /\ Len(junk) = more
  <2>1. junk \in [1 .. more -> Held]
    BY <1>3, ConstantsAssumption DEF Held
  <2> QED
    BY <1>4, <2>1
<1>7. v \in Seq(Held) /\ Len(v) = k + more
  BY <1>3, <1>5, <1>6, ConcatProperties
<1> QED
  BY <1>1, <1>2, <1>4, <1>7 DEF more, s, k

(* An export that is at work belongs to the old log from then on.          *)
LEMMA OpenLogFileKeepsInv ==
  ASSUME Inv, OpenLogFile
  PROVE  Inv'
<1>1. CASE \E cause \in {"NULL entry", "NULL text", "NULL cache"} : End(cause)
  BY <1>1, EndKeepsInv
<1>2. CASE \E v \in Views :
             /\ file' = opening.file /\ view' = v /\ ui' = "idle"
             /\ exp' = [e \in Exporters |-> Abandon(exp[e])]
             /\ UNCHANGED log
  <2>1. PICK v \in Views :
             /\ file' = opening.file /\ view' = v /\ ui' = "idle"
             /\ exp' = [e \in Exporters |-> Abandon(exp[e])]
             /\ UNCHANGED log
    BY <1>2
  <2>2. /\ opening.file \in Files
        /\ v \in Seq(Held) /\ Len(v) > 0 /\ Len(v) = Len(log[opening.file])
    BY <2>1, ViewsAreWhole DEF OpenLogFile
  <2>3. file' # None
    BY <2>1, <2>2, ConstantsAssumption
  <2>4. LogInv'
    BY <2>1, <2>2 DEF Inv, LogInv
  <2>5. WindowInv'
    BY <2>1 DEF WindowInv
  <2>6. ASSUME NEW e \in Exporters
        PROVE  /\ Abandon(exp[e]) \in Export
               /\ Begun(Abandon(exp[e])) /\ Bounded(Abandon(exp[e]))
               /\ Faithful(Abandon(exp[e]), v)
    <3>1. exp[e] \in Export /\ Begun(exp[e]) /\ Bounded(exp[e])
      BY DEF Inv, ExportInv
    <3>2. CASE Writing(exp[e])
      <4> DEFINE y == IF exp[e].step = "text" THEN Freed ELSE exp[e].entry
      <4>1. Abandon(exp[e]) = [exp[e] EXCEPT !.same = FALSE, !.out = <<>>, !.entry = y]
        BY <3>2 DEF Abandon, Writing
      <4>3. y \in Held /\ <<>> \in Seq(Held)
        BY <3>1 DEF Export, Held
      <4> HIDE DEF y
      <4>2. /\ Abandon(exp[e]) \in Export /\ ~Abandon(exp[e]).same
            /\ Abandon(exp[e]).step = exp[e].step /\ Abandon(exp[e]).pos = exp[e].pos
            /\ Abandon(exp[e]).max = exp[e].max
        BY <3>1, <4>1, <4>3 DEF Export
      <4> QED
        BY <3>1, <3>2, <4>2 DEF Begun, Bounded, Faithful, Writing
    <3>3. CASE ~Writing(exp[e])
      BY <3>1, <3>3 DEF Abandon, Faithful, Writing
    <3> QED
      BY <3>2, <3>3
  <2>7. ExportInv'
    BY <2>1, <2>3, <2>6 DEF ExportInv
  <2> QED
    BY <2>4, <2>5, <2>7 DEF Inv
<1>3. \/ \E cause \in {"NULL entry", "NULL text", "NULL cache"} : End(cause)
      \/ \E v \in Views :
             /\ file' = opening.file /\ view' = v /\ ui' = "idle"
             /\ exp' = [e \in Exporters |-> Abandon(exp[e])]
             /\ UNCHANGED log
  BY DEF OpenLogFile, OpenFaults, EstimateFaults, Faults
<1> QED
  BY <1>1, <1>2, <1>3

-----------------------------------------------------------------------------
(* The export threads                                                      *)

(* A step of one export, when the window does not come to wait for a file. *)
LEMMA ExportKeepsInv ==
  ASSUME Inv, NEW e \in Exporters, NEW x \in Export, Becomes(e, x),
         UNCHANGED <<ui, opening>> \/ ui' = "idle",
         x.step # "idle" => file # None,
         Begun(x), Bounded(x), Faithful(x, view)
  PROVE  Inv'
<1>1. UNCHANGED <<log, file, view>> /\ exp' = [exp EXCEPT ![e] = x]
  BY DEF Becomes, viewVars
<1>2. LogInv' /\ WindowInv'
  BY <1>1 DEF Inv, LogInv, WindowInv
<1>3. exp' \in [Exporters -> Export]
  BY <1>1 DEF Inv, ExportInv
<1>4. ASSUME NEW d \in Exporters
      PROVE  /\ exp'[d].step # "idle" => file' # None
             /\ Begun(exp'[d]) /\ Bounded(exp'[d]) /\ Faithful(exp'[d], view')
  <2>1. CASE d = e
    <3>1. exp'[d] = x
      BY <1>1, <2>1 DEF Inv, ExportInv
    <3> QED
      BY <1>1, <3>1
  <2>2. CASE d # e
    <3>1. exp'[d] = exp[d]
      BY <1>1, <2>2 DEF Inv, ExportInv
    <3> QED
      BY <1>1, <3>1 DEF Inv, ExportInv
  <2> QED
    BY <2>1, <2>2
<1>5. ExportInv'
  BY <1>3, <1>4 DEF ExportInv
<1> QED
  BY <1>2, <1>5 DEF Inv

LEMMA StartExportKeepsInv ==
  ASSUME Inv, NEW e \in Exporters, StartExport(e)
  PROVE  Inv'
<1> DEFINE x == [IdleExport EXCEPT !.step = "start"]
<1>1. x \in Export /\ Begun(x) /\ Bounded(x) /\ Faithful(x, view) /\ x.step = "start"
  BY IdleIsExport DEF IdleExport, Begun, Bounded, Faithful, Writing
<1>2. file # None
  BY DEF StartExport, Inv, WindowInv
<1> HIDE DEF x
<1>3. Becomes(e, x) /\ ui' = "idle"
  BY DEF StartExport, x
<1> QED
  BY <1>1, <1>2, <1>3, ExportKeepsInv

LEMMA ExportDisableKeepsInv ==
  ASSUME Inv, NEW e \in Exporters, ExportDisable(e)
  PROVE  Inv'
<1> DEFINE x == [exp[e] EXCEPT !.step = "query"]
<1>1. /\ exp[e] \in Export /\ file # None
      /\ exp[e].pos = 0 /\ exp[e].out = <<>> /\ exp[e].same
  BY DEF ExportDisable, Inv, ExportInv, Begun
<1>2. /\ x \in Export /\ x.step = "query"
      /\ x.pos = exp[e].pos /\ x.out = exp[e].out /\ x.same = exp[e].same
  BY <1>1 DEF Export, ExportStates
<1> HIDE DEF x
<1>3. Begun(x) /\ Bounded(x) /\ Faithful(x, view)
  BY <1>1, <1>2 DEF Begun, Bounded, Faithful, Writing
<1>4. Becomes(e, x) /\ UNCHANGED <<ui, opening>>
  BY DEF ExportDisable, x
<1> QED
  BY <1>1, <1>2, <1>3, <1>4, ExportKeepsInv

LEMMA ExportQueryKeepsInv ==
  ASSUME Inv, NEW e \in Exporters, ExportQuery(e)
  PROVE  Inv'
<1>1. /\ exp[e] \in Export /\ file # None
      /\ exp[e].pos = 0 /\ exp[e].out = <<>> /\ exp[e].same
  BY DEF ExportQuery, Inv, ExportInv, Begun
<1>2. log[file] \in Seq(Entry) /\ view \in Seq(Held)
      /\ Len(view) > 0 /\ Len(view) <= Len(log[file])
  BY <1>1 DEF Inv, LogInv
<1>3. CASE Becomes(e, [exp[e] EXCEPT !.step = "fetch", !.max = Len(log[file]) - 1])
  <2> DEFINE max == Len(log[file]) - 1
             x == [exp[e] EXCEPT !.step = "fetch", !.max = max]
  <2>1. max \in Nat /\ Len(view) <= max + 1
    BY <1>2
  <2> HIDE DEF max
  <2>2. /\ x \in Export /\ x.step = "fetch" /\ x.max = max
        /\ x.pos = exp[e].pos /\ x.out = exp[e].out /\ x.same = exp[e].same
    <3>1. exp[e] \in Export
      BY <1>1
    <3>2. max \in Int /\ "fetch" \in ExportStates
      BY <2>1 DEF ExportStates
    <3> QED
      BY <3>1, <3>2 DEF Export
  <2> HIDE DEF x
  <2>4. Begun(x) /\ Bounded(x)
    BY <1>1, <2>1, <2>2 DEF Begun, Bounded
  <2>5. Faithful(x, view)
    BY <1>1, <1>2, <2>1, <2>2 DEF Faithful, Writing, Written
  <2>6. Becomes(e, x) /\ UNCHANGED <<ui, opening>>
    BY <1>3 DEF ExportQuery, uiVars, x, max
  <2> QED
    BY <1>1, <2>2, <2>4, <2>5, <2>6, ExportKeepsInv
<1>4. CASE Becomes(e, [exp[e] EXCEPT !.step = "failed"])
  <2> DEFINE x == [exp[e] EXCEPT !.step = "failed"]
  <2>1. x \in Export /\ x.step = "failed"
    BY <1>1 DEF Export, ExportStates
  <2> HIDE DEF x
  <2>2. Begun(x) /\ Bounded(x) /\ Faithful(x, view)
    BY <2>1 DEF Begun, Bounded, Faithful, Writing
  <2>3. Becomes(e, x) /\ UNCHANGED <<ui, opening>>
    BY <1>4 DEF ExportQuery, uiVars, x
  <2> QED
    BY <1>1, <2>1, <2>2, <2>3, ExportKeepsInv
<1> QED
  BY <1>3, <1>4 DEF ExportQuery

LEMMA ExportFetchKeepsInv ==
  ASSUME Inv, NEW e \in Exporters, ExportFetch(e)
  PROVE  Inv'
<1> DEFINE raw == IF exp[e].pos < N THEN {view[exp[e].pos + 1]} ELSE JunkReads
<1>1. exp[e] \in Export /\ exp[e].step = "fetch" /\ file # None
      /\ Bounded(exp[e]) /\ Faithful(exp[e], view) /\ view \in Seq(Held)
  BY DEF ExportFetch, Inv, ExportInv, LogInv
<1>2. CASE \E cause \in {"NULL entry", "past cache"} : End(cause)
  BY <1>2, EndKeepsInv
<1>3. ASSUME NEW y \in raw,
             Becomes(e, [exp[e] EXCEPT !.step = "text", !.entry = y, !.pos = @ + 1]),
             UNCHANGED uiVars
      PROVE  Inv'
  <2> DEFINE x == [exp[e] EXCEPT !.step = "text", !.entry = y, !.pos = @ + 1]
  <2>1. exp[e].pos \in Nat /\ Len(view) \in Nat /\ N = Len(view)
    BY <1>1 DEF Export, N
  <2>2. y \in Held
    <3>1. CASE exp[e].pos < N
      BY <1>1, <2>1, <3>1
    <3>2. CASE ~(exp[e].pos < N)
      BY <3>2, ConstantsAssumption DEF Held
    <3> QED
      BY <3>1, <3>2
  <2>3. /\ x \in Export /\ x.step = "text" /\ x.entry = y /\ x.pos = exp[e].pos + 1
        /\ x.max = exp[e].max /\ x.out = exp[e].out /\ x.same = exp[e].same
    <3>1. x = [exp[e] EXCEPT !.step = "text", !.entry = y, !.pos = exp[e].pos + 1]
      BY <1>1 DEF Export
    <3>2. exp[e].pos + 1 \in Nat /\ "text" \in ExportStates
      BY <2>1 DEF ExportStates
    <3> HIDE DEF x, raw
    <3> QED
      BY <1>1, <2>2, <3>1, <3>2 DEF Export
  <2>4. x.pos <= Len(view) => y = view[x.pos]
    BY <2>1, <2>3
  <2> HIDE DEF x, raw
  <2>5. Begun(x) /\ Bounded(x)
    BY <2>1, <2>3 DEF Begun, Bounded
  <2>6. Faithful(x, view)
    BY <1>1, <2>1, <2>3, <2>4 DEF Faithful, Writing, Written
  <2>7. Becomes(e, x) /\ UNCHANGED <<ui, opening>>
    BY <1>3 DEF uiVars, x
  <2> QED
    BY <1>1, <2>3, <2>5, <2>6, <2>7, ExportKeepsInv
<1> QED
  BY <1>2, <1>3 DEF ExportFetch

LEMMA ExportWriteKeepsInv ==
  ASSUME Inv, NEW e \in Exporters, ExportWrite(e)
  PROVE  Inv'
<1> DEFINE to == IF exp[e].pos <= exp[e].max THEN "fetch" ELSE "finish"
           after(y) == IF exp[e].same THEN Append(exp[e].out, y) ELSE exp[e].out
<1>1. exp[e] \in Export /\ exp[e].step = "text" /\ file # None
      /\ Bounded(exp[e]) /\ Faithful(exp[e], view) /\ view \in Seq(Held)
  BY DEF ExportWrite, Inv, ExportInv, LogInv
<1>2. CASE End("freed entry")
  BY <1>2, EndKeepsInv
<1>3. ASSUME NEW y \in Outputs(exp[e]), UNCHANGED uiVars,
             Becomes(e, [exp[e] EXCEPT !.step = to, !.entry = None, !.out = after(y)])
      PROVE  Inv'
  <2> DEFINE out == after(y)
             x == [exp[e] EXCEPT !.step = to, !.entry = None, !.out = out]
  <2>0. y \in {exp[e].entry, Lost}
    BY <1>3 DEF Outputs
  <2>6. Becomes(e, x) /\ UNCHANGED <<ui, opening>>
    BY <1>3 DEF uiVars
  <2>1. /\ exp[e].pos \in Nat /\ exp[e].max \in Int /\ Len(view) \in Nat
        /\ exp[e].out \in Seq(Held) /\ exp[e].entry \in Held /\ exp[e].pos >= 1
    BY <1>1 DEF Export, Bounded
  <2>2. out \in Seq(Held)
    <3>1. y \in Held
      BY <2>0, <2>1 DEF Held
    <3> QED
      BY <2>1, <3>1
  <2> HIDE DEF out
  <2>3. /\ x \in Export /\ x.step = to /\ x.pos = exp[e].pos /\ x.max = exp[e].max
        /\ x.out = out /\ x.same = exp[e].same
    BY <1>1, <2>2 DEF Export, ExportStates, Held
  <2> HIDE DEF x
  <2>4. Begun(x) /\ Bounded(x)
    BY <2>1, <2>3 DEF Begun, Bounded
  <2>5. Faithful(x, view)
    <3>1. SUFFICES ASSUME exp[e].same PROVE Faithful(x, view)
      BY <2>3 DEF Faithful
    <3>2. /\ Len(view) <= exp[e].max + 1 /\ Len(exp[e].out) = exp[e].pos - 1
          /\ \A i \in 1 .. Len(view) : i <= Len(exp[e].out) => exp[e].out[i] \in {view[i], Lost}
          /\ exp[e].pos <= Len(view) => exp[e].entry = view[exp[e].pos]
      BY <1>1, <3>1 DEF Faithful, Writing, Written
    <3>3. out = Append(exp[e].out, y)
      BY <3>1 DEF out
    <3>4. Len(out) = exp[e].pos
      BY <2>1, <3>2, <3>3
    <3>5. ASSUME NEW i \in 1 .. Len(view), i <= Len(out)
          PROVE  out[i] \in {view[i], Lost}
      <4>1. CASE i = exp[e].pos
        <5>1. out[i] = y
          BY <2>1, <3>2, <3>3, <4>1
        <5> QED
          BY <2>0, <3>2, <3>5, <4>1, <5>1
      <4>2. CASE i # exp[e].pos
        <5>1. i \in 1 .. Len(exp[e].out)
          BY <2>1, <3>2, <3>4, <3>5, <4>2
        <5>2. out[i] = exp[e].out[i]
          BY <2>1, <3>3, <5>1
        <5> QED
          BY <3>2, <5>1, <5>2
      <4> QED
        BY <4>1, <4>2
    <3>6. x.step # "text" /\ Written(x) = exp[e].pos
      BY <2>3 DEF Written
    <3> QED
      BY <2>3, <3>2, <3>4, <3>5, <3>6 DEF Faithful
  <2> QED
    BY <1>1, <2>3, <2>4, <2>5, <2>6, ExportKeepsInv
<1> QED
  BY <1>2, <1>3 DEF ExportWrite

LEMMA ExportFinishKeepsInv ==
  ASSUME Inv, NEW e \in Exporters, ExportFinish(e)
  PROVE  Inv'
<1>1. Begun(IdleExport) /\ Bounded(IdleExport) /\ Faithful(IdleExport, view)
      /\ IdleExport.step = "idle"
  BY DEF IdleExport, Begun, Bounded, Faithful, Writing
<1>2. Becomes(e, IdleExport) /\ UNCHANGED <<ui, opening>>
  BY DEF ExportFinish
<1> QED
  BY <1>1, <1>2, IdleIsExport, ExportKeepsInv

-----------------------------------------------------------------------------
LEMMA NextKeepsInv == Inv /\ [Next]_vars => Inv'
<1> SUFFICES ASSUME Inv, [Next]_vars PROVE Inv'
  OBVIOUS
<1>1. ASSUME NEW f \in Files, NEW e \in Entries, Write(f, e) PROVE Inv'
  BY <1>1, WriteKeepsInv
<1>2. ASSUME NEW f \in Filters, UpdateFilters(f) PROVE Inv'
  <2>1. CASE \E c \in EstimateFaults(view, f) : End(c)
    BY <2>1, EndKeepsInv
  <2>2. CASE UNCHANGED <<log, ended, uiVars, file, view, exp>>
    BY <2>2, OtherStepsKeepInv DEF uiVars
  <2> QED
    BY <1>2, <2>1, <2>2 DEF UpdateFilters
<1>3. ASSUME NEW d \in Rows(items), ShowRow(d) PROVE Inv'
  <2>1. CASE \E c : End(c)
    BY <2>1, EndKeepsInv
  <2>2. CASE UNCHANGED <<log, ended, uiVars, file, view, filter, exp>>
    BY <2>2, OtherStepsKeepInv DEF uiVars
  <2> QED
    BY <1>3, <2>1, <2>2 DEF ShowRow
<1>4. ASSUME NEW d \in {"open", "save"}, OpenDialog(d) PROVE Inv'
  BY <1>4, OtherStepsKeepInv DEF OpenDialog, viewVars
<1>5. CASE CloseDialog
  <2>1. CASE End("exit")
    BY <2>1, EndKeepsInv
  <2>2. CASE ui' = "idle" /\ UNCHANGED <<log, ended, opening, viewVars, exp>>
    BY <2>2, OtherStepsKeepInv DEF viewVars
  <2> QED
    BY <1>5, <2>1, <2>2 DEF CloseDialog
<1>6. ASSUME NEW f \in Files, VxlOpenLog(f) PROVE Inv'
  BY <1>6, VxlOpenLogKeepsInv
<1>7. CASE OpenLogFile
  BY <1>7, OpenLogFileKeepsInv
<1>8. ASSUME NEW e \in Exporters, StartExport(e) \/ ExportSteps(e) PROVE Inv'
  BY <1>8, StartExportKeepsInv, ExportDisableKeepsInv, ExportQueryKeepsInv,
     ExportFetchKeepsInv, ExportWriteKeepsInv, ExportFinishKeepsInv DEF ExportSteps
<1>9. CASE CloseWindow
  BY <1>9, EndKeepsInv DEF CloseWindow
<1>10. CASE UNCHANGED vars
  BY <1>10, OtherStepsKeepInv DEF vars, uiVars, viewVars
<1> QED
  BY <1>1, <1>2, <1>3, <1>4, <1>5, <1>6, <1>7, <1>8, <1>9, <1>10 DEF Next

(* An export asks for no more entries than it counted, and one that comes  *)
(* to its end without its log having been replaced has gone through every  *)
(* entry of the log, once and in order, and lost only those whose own      *)
(* conversion or write failed (backendp.c 10-154).                         *)
THEOREM ExportsAreComplete == Spec => []ExportIsComplete
<1>1. Inv => ExportIsComplete
  <2> SUFFICES ASSUME Inv PROVE ExportIsComplete
    OBVIOUS
  <2>1. file # None => N > 0
    BY DEF Inv, LogInv, N
  <2>2. ASSUME NEW e \in Exporters
        PROVE  /\ exp[e].step = "fetch" => exp[e].pos <= exp[e].max
               /\ exp[e].step = "finish" /\ exp[e].same =>
                    /\ Len(exp[e].out) >= N
                    /\ \A i \in 1..N : exp[e].out[i] \in {view[i], Lost}
    <3>1. exp[e] \in Export /\ Bounded(exp[e]) /\ Faithful(exp[e], view) /\ view \in Seq(Held)
      BY DEF Inv, ExportInv, LogInv
    <3>2. ASSUME exp[e].step = "finish", exp[e].same
          PROVE  /\ Len(exp[e].out) >= N
                 /\ \A i \in 1..N : exp[e].out[i] \in {view[i], Lost}
      <4>1. /\ exp[e].pos \in Nat /\ exp[e].max \in Int /\ exp[e].out \in Seq(Held)
            /\ N = Len(view) /\ N \in Nat
        BY <3>1 DEF Export, N
      <4>2. /\ Len(view) <= exp[e].max + 1 /\ Len(exp[e].out) = exp[e].pos
            /\ exp[e].pos > exp[e].max
            /\ \A i \in 1 .. Len(view) : i <= Len(exp[e].out) => exp[e].out[i] \in {view[i], Lost}
        BY <3>1, <3>2 DEF Bounded, Faithful, Writing, Written
      <4>3. Len(exp[e].out) >= N
        BY <4>1, <4>2
      <4>4. \A i \in 1..N : exp[e].out[i] \in {view[i], Lost}
        BY <4>1, <4>2, <4>3
      <4> QED
        BY <4>3, <4>4
    <3> QED
      BY <3>1, <3>2 DEF Bounded
  <2> QED
    BY <2>1, <2>2 DEF ExportIsComplete
<1> QED
  BY <1>1, InitInv, NextKeepsInv, PTL DEF Spec

-----------------------------------------------------------------------------
(* Numbers.  Every set of them has a least element.                        *)

LEMMA LeastNumber ==
  ASSUME NEW T, T \subseteq Nat, T # {}
  PROVE  \E x \in T : \A y \in T : x <= y
<1> DEFINE R == OpToRel(<, Nat)
<1>1. R = {ss \in Nat \X Nat : ss[1] < ss[2]}
  BY DEF OpToRel
<1>2. IsWellFoundedOn(R, Nat)
  BY NatLessThanWellFounded, Zenon
<1>3. PICK x \in T : \A y \in T : ~(<<y, x>> \in R)
  BY <1>2, WFMin
<1>4. \A y \in T : <<y, x>> \in Nat \X Nat
  OBVIOUS
<1>5. \A y \in T : ~(y < x)
  BY <1>1, <1>3, <1>4
<1> QED BY <1>5

(* The greatest element of a set of rows.                                  *)
LEMMA GreatestNumber ==
  ASSUME NEW T, NEW n \in Nat, T \subseteq 0 .. n, T # {}
  PROVE  Max(T) \in T /\ \A y \in T : Max(T) >= y
<1> DEFINE U == {n - x : x \in T}
<1>1. U \subseteq Nat /\ U # {}
  <2>1. \A x \in T : n - x \in Nat
    OBVIOUS
  <2> QED
    BY <2>1
<1>2. PICK u \in U : \A v \in U : u <= v
  BY <1>1, LeastNumber
<1>3. PICK x \in T : u = n - x
  BY <1>2
<1>4. \A y \in T : n - x <= n - y
  BY <1>2, <1>3
<1>5. \A y \in T : x >= y
  BY <1>3, <1>4
<1> QED
  BY <1>3, <1>5 DEF Max

-----------------------------------------------------------------------------
(* Ranks: how many of the raw indices in S come before i.                  *)

Rank(S, i) == Cardinality({j \in S : j < i})

IsRows(S) == \E n \in Nat : S \subseteq 0 .. n

LEMMA RowsAreFinite ==
  ASSUME NEW S, IsRows(S)
  PROVE  /\ S \subseteq Nat /\ IsFiniteSet(S) /\ Cardinality(S) \in Nat
         /\ \A i : IsFiniteSet({j \in S : j < i}) /\ Rank(S, i) \in Nat /\ Rank(S, i) <= Cardinality(S)
<1>1. PICK n \in Nat : S \subseteq 0 .. n
  BY DEF IsRows
<1>2. IsFiniteSet(S)
  <2>1. IsFiniteSet(0 .. n)
    BY FS_Interval
  <2> QED
    BY <1>1, <2>1, FS_Subset
<1>3. ASSUME NEW i
      PROVE  IsFiniteSet({j \in S : j < i}) /\ Rank(S, i) \in Nat /\ Rank(S, i) <= Cardinality(S)
  BY <1>2, FS_Subset, FS_CardinalityType DEF Rank
<1> QED
  BY <1>1, <1>2, <1>3, FS_CardinalityType

LEMMA FirstRank ==
  ASSUME NEW S, IsRows(S), NEW i \in S, \A j \in S : j >= i
  PROVE  Rank(S, i) = 0
<1>1. {j \in S : j < i} = {}
  BY RowsAreFinite
<1> QED
  BY <1>1, FS_EmptySet DEF Rank

LEMMA NextRank ==
  ASSUME NEW S, IsRows(S), NEW i \in S, NEW j \in S, i < j, \A k \in S : k > i => k >= j
  PROVE  Rank(S, j) = Rank(S, i) + 1
<1> DEFINE below == {k \in S : k < i}
<1>1. {k \in S : k < j} = below \cup {i} /\ i \notin below
  BY RowsAreFinite
<1>2. IsFiniteSet(below)
  BY RowsAreFinite
<1> QED
  BY <1>1, <1>2, FS_AddElement DEF Rank

LEMMA LastRank ==
  ASSUME NEW S, IsRows(S), NEW i \in S, \A k \in S : k <= i
  PROVE  Cardinality(S) = Rank(S, i) + 1
<1> DEFINE below == {k \in S : k < i}
<1>1. S = below \cup {i} /\ i \notin below
  BY RowsAreFinite
<1>2. IsFiniteSet(below)
  BY RowsAreFinite
<1>3. Cardinality(below \cup {i}) = Cardinality(below) + 1
  BY <1>1, <1>2, FS_AddElement
<1> QED
  BY <1>1, <1>3 DEF Rank

-----------------------------------------------------------------------------
(* The scan for a row.                                                     *)

LEMMA SelectedAreRows ==
  ASSUME NEW v \in Seq(Held), NEW f
  PROVE  IsRows(Selected(v, f)) /\ Selected(v, f) \subseteq Rows(Len(v))
BY DEF IsRows, Selected, Rows

LEMMA NextIsFirst ==
  ASSUME view \in Seq(Held), NEW r \in Int
  PROVE  LET S == Selected(view, filter)
             n == NextSelected(r)
         IN  \/ n = Unset /\ \A i \in S : i < r
             \/ n \in S /\ n # Unset /\ n >= r /\ \A i \in S : i >= r => i >= n
<1> DEFINE S == Selected(view, filter)
           later == {i \in S : i >= r}
<1>1. S \subseteq Nat
  BY SelectedAreRows, RowsAreFinite
<1> HIDE DEF S
<1>2. CASE later = {}
  <2>1. NextSelected(r) = Unset
    BY <1>2 DEF NextSelected, S
  <2> QED
    BY <1>1, <1>2, <2>1 DEF S
<1>3. CASE later # {}
  <2>1. \E x \in later : \A y \in later : x <= y
    BY <1>1, <1>3, LeastNumber
  <2>2. NextSelected(r) = Min(later)
    BY <1>3 DEF NextSelected, S
  <2>3. NextSelected(r) \in later /\ \A y \in later : NextSelected(r) <= y
    BY <2>1, <2>2 DEF Min
  <2> HIDE DEF later
  <2>4. NextSelected(r) \in S /\ NextSelected(r) >= r /\ NextSelected(r) \in Nat
    BY <1>1, <2>3 DEF later
  <2>5. NextSelected(r) # Unset
    BY <2>4 DEF Unset
  <2> QED
    BY <2>3, <2>4, <2>5 DEF later, S
<1> QED
  BY <1>2, <1>3

(* What Filled takes for row d when the rows of g come before it.          *)
Entered(e, g, d) ==
  IF d > e \/ lookup[d] # Unset THEN lookup[d]
  ELSE NextSelected(ScanStart(d, g[d - 1]))

(* The table is filled row by row, so there is one that agrees with its    *)
(* recursive definition.                                                   *)
LEMMA FilledIsFilled ==
  ASSUME NEW m \in Nat, DOMAIN lookup = Rows(m), NEW e
  PROVE  Filled(e) = [d \in Rows(m) |-> Entered(e, Filled(e), d)]
<1> DEFINE Agrees(g, n) == g = [d \in Rows(n) |-> Entered(e, g, d)]
           Missing == {n \in Nat : ~ \E g : Agrees(g, n)}
<1>1. Missing = {}
  <2> SUFFICES ASSUME Missing # {} PROVE FALSE
    OBVIOUS
  <2>1. PICK n \in Missing : \A k \in Missing : n <= k
    BY LeastNumber
  <2>2. CASE n = 0
    <3> DEFINE g == [d \in Rows(0) |-> 0]
    <3>1. Agrees(g, 0)
      BY DEF Rows
    <3> QED
      BY <2>1, <2>2, <3>1
  <2>3. CASE n # 0
    <3>1. n \in Nat /\ n - 1 \in Nat /\ n - 1 \notin Missing
      BY <2>1, <2>3
    <3>2. PICK g : Agrees(g, n - 1)
      BY <3>1
    <3> DEFINE h == [d \in Rows(n) |-> IF d = n - 1 THEN Entered(e, g, d) ELSE g[d]]
    <3>3. ASSUME NEW d \in Rows(n) PROVE h[d] = Entered(e, h, d)
      <4>1. d \in Int /\ (d = 0 \/ (d - 1 \in Rows(n) /\ d - 1 # n - 1))
        BY <3>1 DEF Rows
      <4>2. d = 0 \/ h[d - 1] = g[d - 1]
        BY <4>1
      <4>3. Entered(e, h, d) = Entered(e, g, d)
        <5> HIDE DEF h
        <5> QED
          BY <4>2 DEF Entered, ScanStart
      <4>4. CASE d = n - 1
        BY <4>3, <4>4
      <4>5. CASE d # n - 1
        <5>1. d \in Rows(n - 1) /\ h[d] = g[d]
          BY <3>1, <4>5 DEF Rows
        <5>2. g[d] = Entered(e, g, d)
          BY <3>2, <5>1
        <5> QED
          BY <4>3, <5>1, <5>2
      <4> QED
        BY <4>4, <4>5
    <3>4. Agrees(h, n)
      BY <3>3
    <3> QED
      BY <2>1, <3>4
  <2> QED
    BY <2>2, <2>3
<1>2. PICK g : Agrees(g, m)
  BY <1>1
<1>3. Filled(e) = CHOOSE table : table = [d \in Rows(m) |-> Entered(e, table, d)]
  BY DEF Filled, Entered
<1> QED
  BY <1>2, <1>3

(* What row d may show: a selected entry, no later one than the d-th, and  *)
(* the d-th if there is one.                                               *)
Placed(S, d, x) ==
  x # Unset => /\ x \in S /\ Rank(S, x) <= d
               /\ d < Cardinality(S) => Rank(S, x) = d

(* A row that was looked for in vain is behind all selected entries.       *)
Empty(S, d, x) == x = Unset => Cardinality(S) <= d

LEMMA NextIsPlaced ==
  ASSUME view \in Seq(Held), NEW d \in Nat, NEW p,
         d # 0 => Placed(Selected(view, filter), d - 1, p)
                  /\ Empty(Selected(view, filter), d - 1, p)
  PROVE  LET x == NextSelected(ScanStart(d, p))
         IN  Placed(Selected(view, filter), d, x) /\ Empty(Selected(view, filter), d, x)
<1> DEFINE S == Selected(view, filter)
           r == ScanStart(d, p)
           x == NextSelected(r)
           k == Cardinality(S)
<1> SUFFICES Placed(S, d, x) /\ Empty(S, d, x)
  OBVIOUS
<1>1. IsRows(S) /\ S \subseteq Nat /\ k \in Nat
  BY SelectedAreRows, RowsAreFinite
<1>2. ASSUME r = 0, d = 0 \/ k <= d - 1
      PROVE  Placed(S, d, x) /\ Empty(S, d, x)
  <2>1. \/ x = Unset /\ S = {}
        \/ x \in S /\ x # Unset /\ \A i \in S : i >= x
    BY <1>1, <1>2, NextIsFirst
  <2>2. CASE S = {}
    BY <2>1, <2>2, FS_EmptySet DEF Placed, Empty
  <2>3. CASE x \in S /\ x # Unset /\ \A i \in S : i >= x
    <3>1. Rank(S, x) = 0
      BY <1>1, <2>3, FirstRank
    <3> HIDE DEF S, x, r
    <3>2. d < k => d = 0
      BY <1>1, <1>2
    <3> QED
      BY <2>3, <3>1, <3>2 DEF Placed, Empty, k
  <2> QED
    BY <2>1, <2>2, <2>3
<1>3. CASE d = 0
  BY <1>2, <1>3 DEF ScanStart
<1>4. CASE d # 0 /\ p = Unset
  BY <1>2, <1>4 DEF ScanStart, Empty, Unset
<1>5. CASE d # 0 /\ p # Unset
  <2>1. p \in S /\ Rank(S, p) <= d - 1 /\ (d - 1 < k => Rank(S, p) = d - 1)
    BY <1>5 DEF Placed
  <2>2. r = p + 1 /\ p \in Nat /\ Rank(S, p) \in Nat
    BY <1>1, <1>5, <2>1, RowsAreFinite DEF ScanStart
  <2>3. \/ x = Unset /\ \A i \in S : i < r
        \/ x \in S /\ x # Unset /\ x >= r /\ \A i \in S : i >= r => i >= x
    BY <2>2, NextIsFirst
  <2> HIDE DEF S, x, r, k
  <2>4. CASE x = Unset /\ \A i \in S : i < r
    <3>1. \A i \in S : i <= p
      BY <1>1, <2>2, <2>4
    <3>2. k = Rank(S, p) + 1
      BY <1>1, <2>1, <3>1, LastRank DEF k
    <3> QED
      BY <1>1, <2>1, <2>2, <2>4, <3>2 DEF Placed, Empty, k
  <2>5. CASE x \in S /\ x # Unset /\ x >= r /\ \A i \in S : i >= r => i >= x
    <3>1. p < x /\ \A i \in S : i > p => i >= x
      BY <1>1, <2>2, <2>5
    <3>2. Rank(S, x) = Rank(S, p) + 1
      BY <1>1, <2>1, <2>5, <3>1, NextRank
    <3>3. Rank(S, x) <= d /\ (d < k => Rank(S, x) = d)
      BY <1>1, <2>1, <2>2, <3>2
    <3> QED
      BY <2>5, <3>3 DEF Placed, Empty, k
  <2> QED
    BY <2>3, <2>4, <2>5
<1> QED
  BY <1>3, <1>4, <1>5

(* Drawing a row keeps what the rows show.                                 *)
LEMMA FilledIsPlaced ==
  ASSUME view \in Seq(Held), NEW m \in Nat, DOMAIN lookup = Rows(m),
         \A d \in Rows(m) : Placed(Selected(view, filter), d, lookup[d]), NEW e \in Nat
  PROVE  \A d \in Rows(m) :
           /\ Placed(Selected(view, filter), d, Filled(e)[d])
           /\ lookup[d] = Unset /\ d <= e => Empty(Selected(view, filter), d, Filled(e)[d])
<1> DEFINE S == Selected(view, filter)
           t == Filled(e)
           Good(d) == Placed(S, d, t[d]) /\ (d <= e => Empty(S, d, t[d]))
           Bad == {d \in Rows(m) : ~Good(d)}
<1>1. \A d \in Rows(m) : t[d] = Entered(e, t, d)
  BY FilledIsFilled
<1> HIDE DEF t
<1>2. Bad = {}
  <2> SUFFICES ASSUME Bad # {} PROVE FALSE
    OBVIOUS
  <2>1. Bad \subseteq Nat
    BY DEF Rows
  <2>2. PICK d \in Bad : \A c \in Bad : d <= c
    BY <2>1, LeastNumber
  <2>3. d \in Rows(m) /\ d \in Nat /\ (d # 0 => d - 1 \in Rows(m))
    BY <2>1 DEF Rows
  <2>4. d # 0 => Good(d - 1)
    BY <2>2, <2>3
  <2>5. CASE d > e \/ lookup[d] # Unset
    <3>1. t[d] = lookup[d]
      BY <1>1, <2>3, <2>5 DEF Entered
    <3> QED
      BY <2>3, <2>5, <3>1 DEF Empty
  <2>6. CASE ~(d > e \/ lookup[d] # Unset)
    <3>1. t[d] = NextSelected(ScanStart(d, t[d - 1]))
      BY <1>1, <2>3, <2>6 DEF Entered
    <3>2. d # 0 => Placed(S, d - 1, t[d - 1]) /\ Empty(S, d - 1, t[d - 1])
      BY <2>3, <2>4, <2>6
    <3>3. Good(d)
      BY <2>3, <3>1, <3>2, NextIsPlaced
    <3> QED
      BY <2>2, <3>3
  <2> QED
    BY <2>5, <2>6
<1> QED
  BY <1>2 DEF t

(* The list, its table and the entries that the filter selects.            *)
Shown == Selected(view, filter)

TableInv ==
  /\ items \in Nat
  /\ \E m \in Nat : DOMAIN lookup = Rows(m) /\ items <= m
  /\ \A d \in DOMAIN lookup : Placed(Shown, d, lookup[d])

CountInv ==
  /\ file # None => Cardinality(SelectedOfLog(view, file, filter)) <= items
  /\ Accurate(view) => items = Cardinality(Shown) /\ DOMAIN lookup = Rows(items)

RowsInv == TableInv /\ CountInv

LEMMA NothingIsSelected ==
  ASSUME NEW f
  PROVE  Selected(<<>>, f) = {} /\ Cardinality(Selected(<<>>, f)) = 0
<1>1. Selected(<<>>, f) = {}
  BY DEF Selected, Rows
<1> QED
  BY <1>1, FS_EmptySet

LEMMA InitRows == Init => RowsInv
<1> SUFFICES ASSUME Init PROVE RowsInv
  OBVIOUS
<1>1. Cardinality(Shown) = 0
  BY NothingIsSelected DEF Init, Shown
<1>2. DOMAIN lookup = Rows(0) /\ Rows(0) = {}
  BY DEF Init, Rows
<1> QED
  BY <1>1, <1>2 DEF RowsInv, TableInv, CountInv, Init

(* The entries of the log are selected in the view of it.                  *)
LEMMA SelectedOfLogIsSmaller ==
  ASSUME NEW v \in Seq(Held), NEW g, NEW f
  PROVE  /\ IsFiniteSet(SelectedOfLog(v, g, f))
         /\ Cardinality(SelectedOfLog(v, g, f)) \in Nat
         /\ Cardinality(SelectedOfLog(v, g, f)) <= Cardinality(Selected(v, f))
<1>1. IsFiniteSet(Selected(v, f))
  BY SelectedAreRows, RowsAreFinite
<1>2. SelectedOfLog(v, g, f) \subseteq Selected(v, f)
  BY DEF SelectedOfLog
<1> QED
  BY <1>1, <1>2, FS_Subset, FS_CardinalityType

(* The estimate is never too small for the entries of the log.             *)
LEMMA EstimateIsEnough ==
  ASSUME NEW v \in Seq(Held), NEW g, log[g] \in Seq(Entry), NEW f
  PROVE  LET est == EstimateNumberOfFilteredLogEntries(v, g, f)
         IN  /\ est \in Nat
             /\ Cardinality(SelectedOfLog(v, g, f)) <= est
             /\ Accurate(v) => est = Cardinality(Selected(v, f))
<1> DEFINE est == EstimateNumberOfFilteredLogEntries(v, g, f)
<1>1. CASE Accurate(v)
  <2>1. est = Cardinality(Selected(v, f))
    BY <1>1 DEF EstimateNumberOfFilteredLogEntries
  <2>2. est \in Nat
    BY <2>1, SelectedAreRows, RowsAreFinite
  <2> QED
    BY <2>1, <2>2, SelectedOfLogIsSmaller
<1>2. CASE ~Accurate(v)
  <2> DEFINE all == DOMAIN log[g]
             T == {i \in all : log[g][i].sev \in f.sevs}
             S == SelectedOfLog(v, g, f)
             h == [i \in S |-> i + 1]
  <2>1. est = Cardinality(T)
    BY <1>2 DEF EstimateNumberOfFilteredLogEntries
  <2>2. all = 1 .. Len(log[g]) /\ Len(log[g]) \in Nat
    OBVIOUS
  <2>3. IsFiniteSet(all)
    BY <2>2, FS_Interval
  <2>4. IsFiniteSet(T) /\ Cardinality(T) \in Nat
    BY <2>3, FS_Subset, FS_CardinalityType
  <2>5. ASSUME NEW i \in S PROVE i \in Int /\ i + 1 \in T
    <3>1. i \in Selected(v, f) /\ i \in Rows(Len(v)) /\ i < Len(log[g]) /\ v[i + 1] = log[g][i + 1]
      BY DEF SelectedOfLog, Genuine
    <3>2. i \in Nat /\ i + 1 \in all
      BY <2>2, <3>1 DEF Rows
    <3>3. v[i + 1].sev \in f.sevs
      BY <3>1 DEF Selected, LogEntryMatchesFilters
    <3> QED
      BY <3>1, <3>2, <3>3
  <2> HIDE DEF S, T
  <2>6. h \in Injection(S, T)
    <3>1. h \in [S -> T]
      BY <2>5
    <3>2. \A i, j \in S : h[i] = h[j] => i = j
      BY <2>5
    <3> QED
      BY <3>1, <3>2 DEF Injection, IsInjective
  <2>7. Cardinality(S) <= Cardinality(T)
    BY <2>4, <2>6, FS_Injection
  <2> QED
    BY <1>2, <2>1, <2>4, <2>7 DEF S
<1> QED
  BY <1>1, <1>2

LEMMA SetBackendFiltersKeepsRows ==
  ASSUME NEW v \in Seq(Held), NEW g, log[g] \in Seq(Entry), NEW f,
         SetBackendFilters(v, g, f), view' = v, file' = g, log' = log
  PROVE  RowsInv'
<1> DEFINE est == EstimateNumberOfFilteredLogEntries(v, g, f)
<1>1. /\ est \in Nat /\ Cardinality(SelectedOfLog(v, g, f)) <= est
      /\ Accurate(v) => est = Cardinality(Selected(v, f))
  BY EstimateIsEnough
<1>2. filter' = f /\ lookup' = [d \in Rows(est) |-> Unset] /\ items' = est
  BY DEF SetBackendFilters
<1> HIDE DEF est
<1>3. TableInv'
  BY <1>1, <1>2 DEF TableInv, Placed
<1>4. CountInv'
  BY <1>1, <1>2 DEF CountInv, Shown, SelectedOfLog, Genuine
<1> QED
  BY <1>3, <1>4 DEF RowsInv

(* Steps that leave the list as it is.                                     *)
LEMMA OtherStepsKeepRows ==
  ASSUME RowsInv, UNCHANGED <<log, viewVars>>
  PROVE  RowsInv'
BY DEF RowsInv, TableInv, CountInv, Shown, viewVars, SelectedOfLog, Genuine

LEMMA WriteKeepsRows ==
  ASSUME Inv, RowsInv, NEW f \in Files, NEW e \in Entries, Write(f, e)
  PROVE  RowsInv'
<1>1. UNCHANGED viewVars /\ log' = [log EXCEPT ![f] = Append(log[f], e)]
  BY DEF Write
<1>2. TableInv'
  BY <1>1 DEF RowsInv, TableInv, Shown, viewVars
<1>3. ASSUME file # None PROVE Genuine(view, file)' = Genuine(view, file)
  <2>1. /\ log \in [Files -> Seq(Entry)] /\ view \in Seq(Held) /\ file \in Files
        /\ Len(view) <= Len(log[file]) /\ log[file] \in Seq(Entry)
    BY <1>3 DEF Inv, LogInv
  <2>2. log[f] \in Seq(Entry) /\ Len(log[f]) \in Nat /\ Len(log[file]) \in Nat /\ Len(view) \in Nat
    BY <2>1
  <2>3. ASSUME NEW i \in Rows(Len(view))
        PROVE  /\ i < Len(log[file]) /\ i < Len(log'[file])
               /\ log'[file][i + 1] = log[file][i + 1]
    <3>1. i + 1 \in 1 .. Len(log[file]) /\ i \in Nat
      BY <2>1, <2>2 DEF Rows
    <3>2. CASE file = f
      <4>1. log'[file] = Append(log[f], e)
        BY <1>1, <2>1, <3>2
      <4> QED
        BY <2>2, <3>1, <3>2, <4>1
    <3>3. CASE file # f
      <4>1. log'[file] = log[file]
        BY <1>1, <2>1, <3>3
      <4> QED
        BY <2>2, <3>1, <4>1
    <3> QED
      BY <3>2, <3>3
  <2> QED
    BY <1>1, <2>3 DEF Genuine, viewVars
<1>4. CountInv'
  BY <1>1, <1>3 DEF RowsInv, CountInv, SelectedOfLog, Shown, viewVars
<1> QED
  BY <1>2, <1>4 DEF RowsInv

LEMMA ShowRowKeepsRows ==
  ASSUME Inv, RowsInv, NEW e \in Rows(items), ShowRow(e)
  PROVE  RowsInv'
<1>1. CASE \E c : End(c)
  BY <1>1, OtherStepsKeepRows DEF End
<1> DEFINE t == Filled(e)
           k == Cardinality(Shown)
<1>2. ASSUME NEW ends, lookup' = t, ends \subseteq {d \in 0 .. e : lookup[d] = Unset /\ t[d] = Unset},
             items' = IF ends = {} THEN items ELSE Max(ends),
             UNCHANGED <<log, file, view, filter>>
      PROVE  RowsInv'
  <2>1. PICK m \in Nat : DOMAIN lookup = Rows(m) /\ items <= m
    BY DEF RowsInv, TableInv
  <2>2. view \in Seq(Held) /\ items \in Nat /\ e \in Nat /\ e < items
        /\ \A d \in Rows(m) : Placed(Shown, d, lookup[d])
    BY <2>1 DEF Inv, LogInv, RowsInv, TableInv, Rows
  <2>3. /\ DOMAIN t = Rows(m)
        /\ \A d \in Rows(m) : Placed(Shown, d, t[d])
                            /\ (lookup[d] = Unset /\ d <= e => Empty(Shown, d, t[d]))
    BY <2>1, <2>2, FilledIsFilled, FilledIsPlaced DEF Shown
  <2> HIDE DEF t
  <2>4. k \in Nat /\ (file # None => Cardinality(SelectedOfLog(view, file, filter)) <= k
                                  /\ Cardinality(SelectedOfLog(view, file, filter)) \in Nat)
    BY <2>2, SelectedOfLogIsSmaller, SelectedAreRows, RowsAreFinite DEF Shown
  <2> HIDE DEF k
  <2>5. CASE ends = {}
    <3>1. items' = items
      BY <1>2, <2>5
    <3> QED
      BY <1>2, <2>1, <2>3, <3>1
      DEF RowsInv, TableInv, CountInv, Shown, SelectedOfLog, Genuine
  <2>6. CASE ends # {}
    <3>1. Max(ends) \in ends
      BY <1>2, <2>2, <2>6, GreatestNumber
    <3>2. items' \in ends /\ items' \in 0 .. e /\ lookup[items'] = Unset /\ t[items'] = Unset
      BY <1>2, <2>6, <3>1
    <3>3. items' \in Nat /\ items' < items /\ items' \in Rows(m) /\ items' <= e
      BY <2>1, <2>2, <3>2 DEF Rows
    <3>4. k <= items'
      BY <2>3, <3>2, <3>3 DEF Empty, k
    <3>5. ~Accurate(view)
      BY <2>2, <2>4, <3>3, <3>4 DEF RowsInv, CountInv, k
    <3>6. TableInv'
      BY <1>2, <2>1, <2>2, <2>3, <3>3, SMTT(30) DEF TableInv, Shown
    <3>7. CountInv'
      BY <1>2, <2>4, <3>3, <3>4, <3>5 DEF CountInv, Shown, SelectedOfLog, Genuine, Accurate
    <3> QED
      BY <3>6, <3>7 DEF RowsInv
  <2> QED
    BY <2>5, <2>6
<1>3. CASE ~ \E c : End(c)
  <2> DEFINE scans == {d \in 0..e : lookup[d] = Unset}
             from(d) == ScanStart(d, t[d - 1])
             ends == {d \in scans : t[d] = Unset /\ from(d) < N /\ view[N] # Unreadable}
  <2>1. /\ lookup' = t
        /\ items' = IF ends = {} THEN items ELSE Max(ends)
        /\ UNCHANGED <<log, file, view, filter>>
    BY <1>3 DEF ShowRow
  <2>2. ends \subseteq {d \in 0 .. e : lookup[d] = Unset /\ t[d] = Unset}
    OBVIOUS
  <2> HIDE DEF ends, t
  <2> QED
    BY <1>2, <2>1, <2>2
<1> QED
  BY <1>1, <1>3

-----------------------------------------------------------------------------
LEMMA NextKeepsRows == Inv /\ RowsInv /\ [Next]_vars => RowsInv'
<1> SUFFICES ASSUME Inv, RowsInv, [Next]_vars PROVE RowsInv'
  OBVIOUS
<1>0. ASSUME NEW c, End(c) PROVE RowsInv'
  BY <1>0, OtherStepsKeepRows DEF End
<1>1. ASSUME NEW f \in Files, NEW e \in Entries, Write(f, e) PROVE RowsInv'
  BY <1>1, WriteKeepsRows
<1>2. ASSUME NEW f \in Filters, UpdateFilters(f) PROVE RowsInv'
  <2>1. CASE \E c \in EstimateFaults(view, f) : End(c)
    BY <2>1, <1>0
  <2>2. CASE SetBackendFilters(view, file, f) /\ UNCHANGED <<log, file, view>>
    <3>1. view \in Seq(Held) /\ log[file] \in Seq(Entry)
      BY <1>2 DEF UpdateFilters, Inv, LogInv
    <3> QED
      BY <2>2, <3>1, SetBackendFiltersKeepsRows
  <2> QED
    BY <1>2, <2>1, <2>2 DEF UpdateFilters
<1>3. ASSUME NEW d \in Rows(items), ShowRow(d) PROVE RowsInv'
  BY <1>3, ShowRowKeepsRows
<1>4. ASSUME NEW d \in {"open", "save"}, OpenDialog(d) PROVE RowsInv'
  BY <1>4, OtherStepsKeepRows DEF OpenDialog
<1>5. CASE CloseDialog
  BY <1>5, <1>0, OtherStepsKeepRows DEF CloseDialog
<1>6. ASSUME NEW f \in Files, VxlOpenLog(f) PROVE RowsInv'
  BY <1>6, OtherStepsKeepRows DEF VxlOpenLog
<1>7. CASE OpenLogFile
  <2>1. CASE \E v \in Views : /\ SetBackendFilters(v, opening.file, ResetFilter)
                             /\ view' = v /\ file' = opening.file /\ log' = log
    <3>1. PICK v \in Views : /\ SetBackendFilters(v, opening.file, ResetFilter)
                             /\ view' = v /\ file' = opening.file /\ log' = log
      BY <2>1
    <3>2. v \in Seq(Held) /\ opening.file \in Files
      BY <1>7, <3>1, ViewsAreWhole DEF OpenLogFile
    <3>3. log[opening.file] \in Seq(Entry)
      BY <3>2 DEF Inv, LogInv
    <3> QED
      BY <3>1, <3>2, <3>3, SetBackendFiltersKeepsRows
  <2>2. CASE \E c : End(c)
    BY <2>2, <1>0
  <2> QED
    BY <1>7, <2>1, <2>2 DEF OpenLogFile
<1>8. ASSUME NEW e \in Exporters, StartExport(e) \/ ExportSteps(e) PROVE RowsInv'
  <2>1. CASE \E c : End(c)
    BY <2>1, <1>0
  <2>2. CASE \E x : Becomes(e, x)
    BY <2>2, OtherStepsKeepRows DEF Becomes
  <2> QED
    BY <1>8, <2>1, <2>2 DEF StartExport, ExportSteps, ExportDisable, ExportQuery,
       ExportFetch, ExportWrite, ExportFinish
<1>9. CASE CloseWindow
  BY <1>9, <1>0 DEF CloseWindow
<1>10. CASE UNCHANGED vars
  BY <1>10, OtherStepsKeepRows DEF vars
<1> QED
  BY <1>1, <1>2, <1>3, <1>4, <1>5, <1>6, <1>7, <1>8, <1>9, <1>10 DEF Next

LEMMA RowsStay == Spec => [](Inv /\ RowsInv)
BY InitInv, NextKeepsInv, InitRows, NextKeepsRows, PTL DEF Spec

(* Whichever rows are drawn in whichever order, after whichever changes of *)
(* the filter: a row shows a selected entry, and the d-th row the d-th one *)
(* if the entries were counted (backend.c 371-424).                        *)
THEOREM RowsAreAlwaysSelected == Spec => []RowsAreSelected
<1>1. Inv /\ RowsInv => RowsAreSelected
  <2> SUFFICES ASSUME Inv, RowsInv, NEW d \in DOMAIN lookup, lookup[d] # Unset
               PROVE  /\ lookup[d] \in Shown
                      /\ Accurate(view) => Rank(Shown, lookup[d]) = d
    BY DEF RowsAreSelected, Shown, Rank
  <2>1. Placed(Shown, d, lookup[d])
    BY DEF RowsInv, TableInv
  <2>2. ASSUME Accurate(view) PROVE d < Cardinality(Shown)
    BY <2>2 DEF RowsInv, CountInv, TableInv, Rows
  <2> QED
    BY <2>1, <2>2 DEF Placed
<1> QED
  BY <1>1, RowsStay, PTL

(* The list and its table are long enough for all selected entries of the  *)
(* log, whatever is appended to it and wherever the list was cut off, and  *)
(* exact if the entries were counted (backend.c 404-420, backendp.c 338).  *)
THEOREM EntriesAlwaysHaveARow == Spec => []EveryEntryHasARow
<1>1. RowsInv => EveryEntryHasARow
  <2> SUFFICES ASSUME RowsInv PROVE items <= Cardinality(DOMAIN lookup)
    BY DEF RowsInv, CountInv, EveryEntryHasARow, Shown
  <2>1. PICK m \in Nat : DOMAIN lookup = Rows(m) /\ items <= m
    BY DEF RowsInv, TableInv
  <2>2. Cardinality(Rows(m)) = m
    BY <2>1, FS_Interval DEF Rows
  <2> QED
    BY <2>1, <2>2
<1> QED
  BY <1>1, RowsStay, PTL
============================================================================================================================================
