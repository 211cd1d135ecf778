------------------------------- MODULE KexLdr -------------------------------
(***************************************************************************)
(* Lookups in loaded images (src/KexDll/kexldr.c), as functions of the     *)
(* list of modules, of an export directory or of the address space.        *)
(***************************************************************************)
EXTENDS KexRtl, FiniteSets

(* A UNICODE_STRING with room for max characters receives a path.          *)
CopyPath(path, max) == SubSeq(path, 1, IF Len(path) < max THEN Len(path) ELSE max)

(* KexLdrGetDllFullName: a path that does not fit is copied as far as it   *)
(* goes.  modules: the path of each base address; exe: that of the image.  *)
GetDllFullName(modules, base, exe, max) ==
    IF base # None /\ base \notin DOMAIN modules
    THEN [status |-> "not found", path |-> <<>>]
    ELSE LET path == IF base = None THEN exe ELSE modules[base]
         IN [status |-> IF Len(path) > max THEN "too small" ELSE "success",
             path |-> CopyPath(path, max)]

(* KexLdrGetDllFullNameFromAddress: here nothing is copied then; size is   *)
(* the size of every module.                                               *)
GetDllFullNameFromAddress(modules, address, size, max) ==
    LET within == {b \in DOMAIN modules : address \in b .. (b + size - 1)}
    IN IF within = {} THEN [status |-> "not found", path |-> <<>>]
       ELSE LET path == modules[CHOOSE b \in within : TRUE]
            IN IF Len(path) > max THEN [status |-> "too small", path |-> <<>>]
               ELSE [status |-> "success", path |-> path]

(* KexLdrFindDllInitRoutine                                                *)
FindDllInitRoutine(base, valid, entryPoint) ==
    CASE base = None -> "invalid parameter"
      [] base # None /\ ~valid -> "invalid image"
      [] base # None /\ valid /\ entryPoint = 0 -> "entry point not found"
      [] OTHER -> base + entryPoint

(* KexLdrMiniGetProcedureAddress: names and ordinals are parallel arrays,  *)
(* the ordinals index the functions.                                       *)
MiniGetProcedureAddress(base, exports, name) ==
    LET same == {i \in DOMAIN exports.names : StringEqual(name, exports.names[i], FALSE)}
    IN IF same = {} THEN None
       ELSE base + exports.functions[exports.ordinals[CHOOSE i \in same : \A j \in same : i <= j]]

(* Mutant: any mapping of the file is taken.                               *)
MutantAnyMapping(space, a) ==
    LET r == space[a] IN r.file /\ r.native

(* KexLdrGetNativeSystemDllBase walks down the address space in steps of   *)
(* one allocation unit; a mapped file makes it go on below that mapping.   *)
(* space[a]: what is mapped at a, with its AllocationBase; native: the     *)
(* path ends with Windows\system32\ntdll.dll.                              *)
IsNativeImage(space, a) ==
    LET r == space[a] IN r.file /\ r.image /\ r.native

GetNativeSystemDllBase(space, lowest) ==
    LET Search[a \in DOMAIN space] ==
            LET from == IF space[a].file THEN space[a].base ELSE a
            IN CASE a <= lowest -> None
                 [] a > lowest /\ IsNativeImage(space, a) -> from
                 [] OTHER -> IF from - 1 \in DOMAIN space THEN Search[from - 1] ELSE None
    IN Search[CHOOSE a \in DOMAIN space : \A b \in DOMAIN space : b <= a]

-----------------------------------------------------------------------------
(* What the lookups are to find.                                           *)

(* The units from the base of a mapping on belong to it.                   *)
IsAddressSpace(space) ==
    \A a \in DOMAIN space : space[a].file =>
        /\ space[a].base \in 1 .. a
        /\ \A b \in space[a].base .. a : space[b] = space[a]

(* The native ntdll.dll that is mapped highest, if one is mapped above the *)
(* lowest address, and no data mapping of it (kexldr.c 183-274).           *)
NativeIsFound(space, lowest) ==
    LET natives == {a \in DOMAIN space : a > lowest /\ space[a].file /\ space[a].image
                                                    /\ space[a].native}
        bases == {space[a].base : a \in natives}
        found == GetNativeSystemDllBase(space, lowest)
    IN IF natives = {} THEN found = None
       ELSE found \in bases /\ \A b \in bases : b <= found

(* The function of exactly the name, the first if several have it          *)
(* (kexldr.c 132-176).                                                     *)
ProcedureIsFound(base, exports, name) ==
    LET same == {i \in DOMAIN exports.names : exports.names[i] = name}
        found == MiniGetProcedureAddress(base, exports, name)
    IN IF same = {} THEN found = None
       ELSE \E i \in same : /\ \A j \in same : i <= j
                            /\ found = base + exports.functions[exports.ordinals[i]]
=============================================================================
