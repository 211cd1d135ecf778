---------------------------- MODULE MCRewriting ----------------------------
(***************************************************************************)
(* Rewriting for TLC, and the pure functions of strmap.c and kexldr.c      *)
(* compared with reference definitions.                                    *)
(***************************************************************************)
EXTENDS Rewriting, TLC

CONSTANT NUL
Ldr == INSTANCE KexLdr

MCStems == {"dwmapi", "DWMAPI", "kernel32", "kernel33", "dwm"}
MCStemCch == [s \in MCStems |-> CASE s = "dwm" -> 3
                                  [] s \in {"dwmapi", "DWMAPI"} -> 6
                                  [] OTHER -> 8]
UpStem(s) == IF s = "dwmapi" THEN "DWMAPI" ELSE s
MCNames == [stem : MCStems, dll : BOOLEAN]
MCUpCase == [n \in MCNames |-> [n EXCEPT !.stem = UpStem(n.stem)]]
(* Everything but dwm collides.                                            *)
MCHash == [n \in MCNames |-> IF n.stem = "dwm" THEN 2 ELSE 1]

N(stem, dll) == [stem |-> stem, dll |-> dll]
V(stem, dll, type, t, tdll, nul) ==
    [name |-> N(stem, dll), type |-> type, target |-> [stem |-> t, dll |-> tdll, nul |-> nul]]
MCValues == {V("kernel32", FALSE, "REG_SZ", "kernel33", FALSE, TRUE),
             V("dwmapi", FALSE, "REG_SZ", "dwm", TRUE, TRUE),
             V("dwmapi", FALSE, "other", "dwm", TRUE, TRUE),
             V("kernel33", TRUE, "REG_SZ", "dwm", TRUE, FALSE),
             V("dwm", FALSE, "REG_SZ", "kernel33", FALSE, FALSE)}

MCImages == {"exe", "kernel33", "system", "plugin", "resource"}
MCImportsOf ==
    [i \in MCImages |->
        CASE i = "exe" -> <<N("kernel32", TRUE), N("DWMAPI", TRUE), N("kernel33", TRUE)>>
          [] i = "kernel33" -> <<N("kernel32", TRUE)>>
          [] i = "system" -> <<N("dwmapi", TRUE)>>
          [] i = "plugin" -> <<N("kernel32", FALSE), N("dwm", TRUE)>>
          [] i = "resource" -> <<>>]
MCPlace == [i \in MCImages |-> CASE i = "kernel33" -> "kex" [] i = "system" -> "windows"
                                 [] OTHER -> "elsewhere"]
MCKind == [i \in MCImages |-> IF i = "resource" THEN "otherBitness" ELSE "imports"]

(* Every mapper made of a few insertions, in which keys repeat, differ in  *)
(* case only or collide, answers like a list of pairs: with one of the     *)
(* values of the key; removing a key takes away one of its entries and     *)
(* none of another key; of several insertions only those without memory    *)
(* are missing, and applied to several names, the mapper changes those it  *)
(* knows (strmap.c 145-467).                                               *)
KeySet == {N("dwmapi", FALSE), N("DWMAPI", FALSE), N("kernel32", FALSE), N("dwm", FALSE)}
PairSet == [key : KeySet, value : {"v", "w"}]
SameKey(insensitive, k, l) == IF insensitive THEN MCUpCase[k] = MCUpCase[l] ELSE k = l
AnswersLike(m, pairs) ==
    \A k \in KeySet :
        LET values == {p.value : p \in {q \in pairs : SameKey(m.insensitive, q.key, k)}}
        IN IF values = {} THEN LookupEntry(m, k) = NotFound ELSE LookupEntry(m, k) \in values
MapperIsAMap ==
    pc = "create" /\ registry = <<>> /\ changes = 0 =>
      \A insensitive \in BOOLEAN, n \in 0 .. 3 : \A pairs \in [1 .. n -> PairSet] :
        \E m \in {InsertMultipleEntries(CreateStringMapper(insensitive), pairs, {})} :
          /\ AnswersLike(m, ToSet(pairs))
          /\ \A k \in KeySet :
               \E r \in {RemoveEntry(m, k)} :
                 /\ Len(r.entries) = Len(m.entries) - (IF LookupEntry(m, k) = NotFound THEN 0 ELSE 1)
                 /\ \A l \in KeySet : SameKey(insensitive, k, l) \/ LookupEntry(r, l) = LookupEntry(m, l)
                 /\ n = 1 => r.entries = <<>> \/ r = m
          /\ \A f \in 1 .. n :
               AnswersLike(InsertMultipleEntries(CreateStringMapper(insensitive), pairs, {f}),
                           {pairs[j] : j \in (1 .. n) \ {f}})
          /\ LookupMultipleEntries(m, pairs) =
               [j \in 1 .. n |-> [pairs[j] EXCEPT !.value = LookupEntry(m, pairs[j].key)]]
          /\ \A j \in 1 .. n : BatchApply(m, <<pairs[j].key>>)[1] = LookupEntry(m, pairs[j].key)

(* Every address space of four allocation units, in which the native       *)
(* ntdll.dll may be mapped as an image, as data or not at all, next to     *)
(* other files, the ntdll.dll of the process and free memory.              *)
Mapped(file, base, isImage, isNative) ==
    [file |-> file, base |-> base, image |-> isImage, native |-> isNative]
At(a) == {Mapped(FALSE, a, FALSE, FALSE)}
           \cup [file : {TRUE}, base : 1 .. a, image : BOOLEAN, native : BOOLEAN]
Spaces == {s \in [1 .. 4 -> UNION {At(a) : a \in 1 .. 4}] :
             (\A a \in 1 .. 4 : s[a] \in At(a)) /\ Ldr!IsAddressSpace(s)}
Exports == {<<"a">>, <<"a", "b">>, <<"A", "b">>, <<>>}

(* The lookups in images find what is there: the native ntdll.dll whenever *)
(* it is mapped above the lowest address, and no data mapping of it; the   *)
(* function of exactly the name; and a complete path or an error           *)
(* (kexldr.c 31-93, 132-274).                                              *)
LookupsAreRight ==
    pc = "create" /\ registry = <<>> /\ changes = 0 =>
      /\ \A s \in Spaces : Ldr!NativeIsFound(s, 1)
      /\ \A names \in [1 .. 2 -> Exports], name \in Exports :
           LET exports == [names |-> names, ordinals |-> <<2, 1>>, functions |-> <<10, 20>>]
           IN Ldr!ProcedureIsFound(100, exports, name)
      /\ \A path \in Exports, max \in 0 .. 2, base \in {None, 5, 6} :
           LET r == Ldr!GetDllFullName(5 :> path, base, <<"a">>, max)
               q == Ldr!GetDllFullNameFromAddress(5 :> path, base, 1, max)
           IN /\ r.status = "success" => r.path = IF base = None THEN <<"a">> ELSE path
              /\ Len(r.path) <= max /\ (base = 6 <=> r.status = "not found")
              /\ q.status = "success" <=> base = 5 /\ Len(path) <= max
              /\ q.path = IF q.status = "success" THEN path ELSE <<>>
=============================================================================
