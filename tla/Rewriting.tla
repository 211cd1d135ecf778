----------------------------- MODULE Rewriting -----------------------------
(***************************************************************************)
(* DLL name rewriting (src/KexDll/dllrewrt.c, dllnotif.c, and the part of  *)
(* DllMain that starts it).  KexDll reads a registry key that says which   *)
(* DLL stands for which into a string mapper.  From then on it overwrites  *)
(* the import names of the program and of every DLL that is loaded, in     *)
(* place, before the loader resolves them.                                 *)
(*                                                                         *)
(* The key is enumerated by index while an installer may change it.  The   *)
(* loader lock is held during all of the initialisation and during every   *)
(* notification, so the images are rewritten one at a time.                *)
(***************************************************************************)
EXTENDS StrMap

CONSTANTS
    Stems,          \* names of DLLs without ".dll"
    StemCch,        \* their lengths
    Values,         \* what may be in the registry: name, type and target
    Images,         \* the images that may be loaded
    Exe,            \* the image of the program
    ImportsOf,      \* the names that an image file imports, in order
    Place,          \* the directory that an image is in
    Kind,           \* what KexRewriteImageImportDirectory finds in it
    Deleted,        \* a key that is no longer there
    NoMapper,       \* NULL
    MaxChanges,     \* bound: changes of the registry
    MaxFailed,      \* bound: steps that fail
    MaxValues       \* bound: values in the key at a time

(* A file name; the two cases of a stem are two stems.                     *)
Names == [stem : Stems, dll : BOOLEAN]
(* A string in the registry; most, but not all, end with a NUL.            *)
Targets == [stem : Stems, dll : BOOLEAN, nul : BOOLEAN]
Places == {"windows", "kex", "elsewhere"}
Kinds == {"imports", "noDirectory", "empty", "otherBitness", "badHeaders"}

ASSUME RewritingAssumption ==
    /\ DOMAIN UpCase = Names /\ StemCch \in [Stems -> Nat \ {0}]
    /\ Values \subseteq [name : Names, type : {"REG_SZ", "other"}, target : Targets]
    /\ Exe \in Images
    /\ ImportsOf \in [Images -> Seq(Names)]
    /\ Place \in [Images -> Places] /\ Kind \in [Images -> Kinds]
    /\ NotFound \notin Targets /\ Deleted \notin Seq(Values)
    /\ MaxChanges \in Nat /\ MaxFailed \in Nat /\ MaxValues \in Nat

VARIABLES
    registry,   \* the values of the DllRewrite key in order, or Deleted
    mapper,     \* DllRewriteStringMapper, or NoMapper
    debug,      \* KexIsDebugBuild
    pc,         \* where DllMain is
    index,      \* Index
    image,      \* image[i]: the state of image i in this process
    failures,   \* how many steps failed (history)
    seen,       \* every value that was ever in the key (history)
    changes     \* how often the key was changed while it was read (history)

vars == <<registry, mapper, debug, pc, index, image, failures, seen, changes>>

Steps == {"create", "open", "enumerate", "path", "register", "exe"}
Ended == {"running", "errorBox"}

NotLoaded == [loaded |-> FALSE, imports |-> <<>>, bound |-> FALSE, failed |-> FALSE]

Init ==
    /\ registry \in {s \in UNION {[1 .. n -> Values] : n \in 0 .. MaxValues} :
                       \A i, j \in DOMAIN s : i # j => UpCase[s[i].name] # UpCase[s[j].name]}
    /\ mapper = NoMapper
    /\ debug \in BOOLEAN
    /\ pc = "create"
    /\ index = 0
    /\ image = [i \in Images |-> NotLoaded]
    /\ failures = 0
    /\ seen = ToSet(registry)
    /\ changes = 0

MayFail == failures < MaxFailed

(* A step of DllMain; one that fails shows an error box, which ends the    *)
(* process.                                                                *)
Step(from, to) == pc = from /\ pc' = to /\ UNCHANGED <<registry, debug, seen, changes>>
Fails(from, to) == Step(from, to) /\ MayFail /\ failures' = failures + 1

-----------------------------------------------------------------------------
(* KexInitializeDllRewrite                                                 *)

CreateMapper ==
    /\ Step("create", "open")
    /\ mapper' = CreateStringMapper(TRUE)
    /\ UNCHANGED <<index, image, failures>>

CreateMapperFails ==
    /\ Fails("create", "errorBox")
    /\ UNCHANGED <<mapper, index, image>>

OpenKey ==
    /\ Step("open", "enumerate")
    /\ registry # Deleted
    /\ UNCHANGED <<mapper, index, image, failures>>

OpenKeyFails ==
    /\ \/ Fails("open", "errorBox")
       \/ Step("open", "errorBox") /\ registry = Deleted /\ UNCHANGED failures
    /\ mapper' = NoMapper
    /\ UNCHANGED <<index, image>>

(* One pass of the loop, by the way it ends.  A release build goes on with *)
(* the next index after a failed call, a value of the wrong type or one    *)
(* that cannot be inserted; without memory every build leaves the loop.    *)
(* Once the key is deleted every index fails alike and is not counted.     *)
GoOn(to) == Step("enumerate", to) /\ index' = index + 1 /\ UNCHANGED <<mapper, image>>
GiveUp == IF debug THEN "path" ELSE "enumerate"
Current == registry[index + 1]

(* Mutant: the loop ends only when nothing was read at all.                *)
MutantNoEnd ==
    /\ Step("enumerate", "enumerate")
    /\ registry # Deleted /\ index >= Len(registry)
    /\ UNCHANGED <<mapper, index, image, failures>>

NoMoreEntries ==
    /\ Step("enumerate", "path")
    /\ registry # Deleted /\ index >= Len(registry)
    /\ UNCHANGED <<mapper, index, image, failures>>

EnumerationFails ==
    \/ /\ GoOn(GiveUp)
       /\ MayFail /\ failures' = failures + 1
    \/ /\ registry = Deleted
       /\ Step("enumerate", GiveUp)
       /\ UNCHANGED <<mapper, index, image, failures>>

OutOfMemory ==
    /\ Fails("enumerate", "path")
    /\ UNCHANGED <<mapper, index, image>>

(* Mutant: values of any type are inserted.                                *)
MutantAnyType ==
    /\ Step("enumerate", "enumerate")
    /\ index' = index + 1
    /\ registry # Deleted /\ index < Len(registry)
    /\ mapper' = InsertEntry(mapper, Current.name, Current.target)
    /\ UNCHANGED <<image, failures>>

WrongType ==
    /\ GoOn(GiveUp)
    /\ registry # Deleted /\ index < Len(registry) /\ Current.type # "REG_SZ"
    /\ UNCHANGED failures

InsertValue ==
    /\ Step("enumerate", "enumerate")
    /\ index' = index + 1
    /\ registry # Deleted /\ index < Len(registry) /\ Current.type = "REG_SZ"
    /\ mapper' = InsertEntry(mapper, Current.name, Current.target)
    /\ UNCHANGED <<image, failures>>

InsertFails ==
    /\ registry # Deleted /\ index < Len(registry) /\ Current.type = "REG_SZ"
    /\ GoOn(GiveUp)
    /\ MayFail /\ failures' = failures + 1

(* KexpAddKex3264ToDllPath; its status is the one that counts.             *)
AddToDllPath ==
    /\ Step("path", "register")
    /\ UNCHANGED <<mapper, index, image, failures>>

AddToDllPathFails ==
    /\ Fails("path", "errorBox")
    /\ UNCHANGED <<mapper, index, image>>

-----------------------------------------------------------------------------
(* KexpRewriteDllName and KexRewriteImageImportDirectory                   *)

TargetCch(t) == StemCch[t.stem] + (IF t.dll THEN 4 ELSE 0) + (IF t.nul THEN 1 ELSE 0)
NameCch(n) == StemCch[n.stem] + (IF n.dll THEN 4 ELSE 0)

Target(n) == LookupEntry(mapper, [n EXCEPT !.dll = FALSE])

(* Mutant: the lengths are not compared.                                   *)
MutantNoLengthCheck(n) == Target(n) # NotFound

(* The target replaces the name when it is not longer.  The NUL of the     *)
(* registry string counts.                                                 *)
Fits(n) == Target(n) # NotFound /\ TargetCch(Target(n)) <= NameCch(n)

NewName(n) == IF Fits(n) THEN [stem |-> Target(n).stem, dll |-> Target(n).dll] ELSE n

AtLeastOneImportWasRewritten(names, failing) ==
    \E k \in DOMAIN names : k \notin failing /\ Fits(names[k])

(* failing: the imports whose name cannot be converted or written; an      *)
(* exception is caught for each name.  unbound: whether the page of the    *)
(* bound import directory could be made writable.                          *)
Rewritten(names, failing, unbound) ==
    [loaded |-> TRUE,
     imports |-> [k \in DOMAIN names |-> IF k \in failing THEN names[k] ELSE NewName(names[k])],
     bound |-> ~(unbound /\ AtLeastOneImportWasRewritten(names, failing)),
     failed |-> failing # {} \/ ~unbound]

Untouched(i) == [loaded |-> TRUE, imports |-> ImportsOf[i], bound |-> TRUE, failed |-> FALSE]

RewriteImageImportDirectory(i) ==
    IF Kind[i] # "imports" THEN {Untouched(i)}
    ELSE {Rewritten(ImportsOf[i], failing, unbound) :
            failing \in IF MayFail THEN SUBSET DOMAIN ImportsOf[i] ELSE {{}},
            unbound \in IF MayFail THEN BOOLEAN ELSE {TRUE}}

-----------------------------------------------------------------------------
(* The rest of DllMain, and the notifications                              *)

RegisterDllNotification ==
    /\ Step("register", "exe")
    /\ UNCHANGED <<mapper, index, image, failures>>

RegisterDllNotificationFails ==
    /\ Fails("register", "errorBox")
    /\ UNCHANGED <<mapper, index, image>>

(* The program's own imports; one without any is accepted.                 *)
RewriteExe ==
    /\ Step("exe", IF Kind[Exe] \in {"imports", "noDirectory"} THEN "running"
                   ELSE "errorBox")
    /\ \E r \in RewriteImageImportDirectory(Exe) :
         /\ image' = [image EXCEPT ![Exe] = r]
         /\ failures' = IF r.failed THEN failures + 1 ELSE failures
    /\ UNCHANGED <<mapper, index>>

ShouldRewriteImportsOfDll(i) == Place[i] = "elsewhere"

(* KexDllNotificationCallback                                              *)
LoadDll(i) ==
    /\ pc = "running" /\ ~image[i].loaded
    /\ \E r \in IF ShouldRewriteImportsOfDll(i) THEN RewriteImageImportDirectory(i)
                ELSE {Untouched(i)} :
         /\ image' = [image EXCEPT ![i] = r]
         /\ failures' = IF r.failed THEN failures + 1 ELSE failures
    /\ UNCHANGED <<registry, mapper, debug, pc, index, seen, changes>>

UnloadDll(i) ==
    /\ pc = "running" /\ image[i].loaded /\ i # Exe
    /\ image' = [image EXCEPT ![i] = NotLoaded]
    /\ UNCHANGED <<registry, mapper, debug, pc, index, failures, seen, changes>>

-----------------------------------------------------------------------------
(* The installer: it sets a value, deletes one or deletes the key.         *)

Changed(r) ==
    /\ pc \in {"create", "open", "enumerate"} /\ changes < MaxChanges
    /\ registry' = r
    /\ changes' = changes + 1
    /\ UNCHANGED <<mapper, debug, pc, index, image, failures>>

SameName(v) == {i \in DOMAIN registry : UpCase[registry[i].name] = UpCase[v.name]}

SetValue(v) ==
    /\ registry # Deleted
    /\ \/ \E i \in SameName(v) : Changed([registry EXCEPT ![i] = v])
       \/ SameName(v) = {} /\ Len(registry) < MaxValues /\ Changed(Append(registry, v))
    /\ seen' = seen \cup {v}

DeleteValue ==
    /\ registry # Deleted
    /\ \E i \in DOMAIN registry : Changed(RemoveAt(registry, i))
    /\ UNCHANGED seen

DeleteKey ==
    /\ registry # Deleted
    /\ Changed(Deleted)
    /\ UNCHANGED seen

Initialize ==
    \/ CreateMapper \/ CreateMapperFails \/ OpenKey \/ OpenKeyFails
    \/ NoMoreEntries \/ EnumerationFails \/ OutOfMemory
    \/ WrongType \/ InsertValue \/ InsertFails
    \/ AddToDllPath \/ AddToDllPathFails
    \/ RegisterDllNotification \/ RegisterDllNotificationFails
    \/ RewriteExe

Next ==
    \/ Initialize
    \/ \E i \in Images \ {Exe} : LoadDll(i) \/ UnloadDll(i)
    \/ \E v \in Values : SetValue(v)
    \/ DeleteValue \/ DeleteKey

(* The initial thread goes on with its initialisation.                     *)
Spec == Init /\ [][Next]_vars
FairSpec == Spec /\ WF_vars(Initialize)
-----------------------------------------------------------------------------
(* Properties                                                              *)

Strings(vs) == {v \in vs : v.type = "REG_SZ"}
Pairs(vs) == {<<v.name, v.target>> : v \in Strings(vs)}
Inserted == {<<e.key, e.value>> : e \in ToSet(mapper.entries)}

(* The mapper holds only strings that were in the key, and each of them    *)
(* once when nothing changed or failed while the key was read by index     *)
(* (dllrewrt.c 74-188).                                                    *)
MapperHoldsRegistry ==
    mapper # NoMapper =>
      /\ Inserted \subseteq Pairs(seen)
      /\ /\ pc \notin {"create", "open", "enumerate"} /\ failures = 0 /\ changes = 0
         /\ debug => \A v \in seen : v.type = "REG_SZ"
         => Inserted = Pairs(seen) /\ Len(mapper.entries) = Cardinality(Strings(seen))

(* What the registry says about a name, without the mapper: the value      *)
(* that has the name without its extension, if it is a string that is not  *)
(* longer.                                                                 *)
Rules(n) == {v \in Strings(seen) : UpCase[v.name] = UpCase[[n EXCEPT !.dll = FALSE]]
                                   /\ TargetCch(v.target) <= NameCch(n)}
Results(n) == {[stem |-> v.target.stem, dll |-> v.target.dll] : v \in Rules(n)}

Undisturbed == failures = 0 /\ changes = 0 /\ ~debug

(* A rewritten import is what the registry says, and no longer than the    *)
(* name whose place it takes; every import that it says something about    *)
(* is rewritten; and the DLLs of Windows and of VxKex keep theirs, so that *)
(* a DLL of VxKex never imports itself instead of the one that it stands   *)
(* for.  "A Bound Import Directory will cause process initialization to    *)
(* fail if we have rewritten anything": it is only left with a rewritten   *)
(* name when its page cannot be made writable (dllrewrt.c 207-293,         *)
(* 401-468).                                                               *)
ImportsAreMapped ==
    \A i \in Images : image[i].loaded =>
      /\ \A k \in DOMAIN ImportsOf[i] :
           LET old == ImportsOf[i][k]
               new == image[i].imports[k]
           IN /\ new # old => new \in Results(old) /\ NameCch(new) <= NameCch(old)
              /\ Undisturbed /\ Kind[i] = "imports" /\ (Place[i] = "elsewhere" \/ i = Exe)
                   => Results(old) = {} \/ new \in Results(old)
              /\ Place[i] # "elsewhere" /\ i # Exe => new = old
      /\ image[i].imports # ImportsOf[i] => ~image[i].bound \/ image[i].failed

(* The program is started or the user is told why not, as long as nobody   *)
(* deletes the key while it is read (dllrewrt.c 74-188).                   *)
InitializationEnds == <>(pc \in Ended \/ registry = Deleted)
=============================================================================
