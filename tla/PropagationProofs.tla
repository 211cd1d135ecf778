------------------------- MODULE PropagationProofs --------------------------
(***************************************************************************)
(* Proofs about Propagation, for every number of processes and of threads, *)
(* every bitness, whatever is in the registry and whatever fails.          *)
(***************************************************************************)
EXTENDS Propagation, TLAPS

Failures == {"create", "patch", "writeex", "resume", "memory", "native", "unmap",
             "restore"}

LEMMA Templates ==
  HookTemplate \in StubValues /\ Syscall \in StubValues /\ HookTemplate # Syscall
BY DEF HookTemplate, StubValues, Syscall

LEMMA NoProcessType == NoProcess \in Process
BY Templates DEF NoProcess, Process, States

(* Changes of one field keep the type of a process.                        *)
LEMMA FieldTypes ==
  ASSUME NEW r \in Process
  PROVE  /\ \A s \in States : [r EXCEPT !.st = s] \in Process
         /\ \A b \in BOOLEAN : /\ [r EXCEPT !.temp = b] \in Process
                               /\ [r EXCEPT !.hooked = b] \in Process
                               /\ [r EXCEPT !.disable = b] \in Process
         /\ \A s \in SUBSET Failures : [r EXCEPT !.failed = s] \in Process
         /\ \A s \in StubValues : /\ [r EXCEPT !.key = s] \in Process
                                  /\ [r EXCEPT !.keyex = s] \in Process
BY DEF Process, Failures

LEMMA HookTypes ==
  ASSUME NEW r \in Process, NEW ex
  PROVE  Opened(r, ex) \in Process /\ TakeMagic(r) \in Process
<1>1. Marked(r) \in Process
  BY DEF Marked, Process
<1>2. TakeMagic(r) \in Process
  BY DEF TakeMagic, Process
<1>3. QED BY <1>1, <1>2 DEF Opened

LEMMA SetProcType ==
  ASSUME TypeOK, NEW p \in Procs, NEW r \in Process, SetProc(p, r)
  PROVE  proc' \in [Procs -> Process]
BY DEF TypeOK, SetProc

LEMMA FailType ==
  ASSUME TypeOK, NEW p \in Procs, NEW s \in Failures
  PROVE  Fail(p, s) \in Process
<1>1. proc[p] \in Process /\ proc[p].failed \in SUBSET Failures
  BY DEF TypeOK, Process, Failures
<1>2. QED BY <1>1, FieldTypes DEF Fail

(* A field of a process or two are set.                                    *)
LEMMA StartType ==
  ASSUME TypeOK, NEW p \in Procs, Start(p)
  PROVE  TypeOK'
<1> USE DEF States
<1>1. proc[p] \in Process /\ proc[p].failed \in SUBSET Failures
  BY DEF TypeOK, Process, Failures
<1>2. ASSUME NEW r \in Process, SetProc(p, r), UNCHANGED <<call, virtual>>
      PROVE  TypeOK'
  BY <1>2, SetProcType DEF TypeOK
<1>3. CASE LoaderOpensBase(p)
  <2>1. PICK ex \in BOOLEAN : SetProc(p, [Opened(proc[p], ex) EXCEPT !.st = "image"])
    BY <1>3 DEF LoaderOpensBase
  <2>2. [Opened(proc[p], ex) EXCEPT !.st = "image"] \in Process
    BY <1>1, HookTypes, FieldTypes
  <2>3. QED BY <1>2, <1>3, <2>1, <2>2 DEF LoaderOpensBase
<1>4. ASSUME NEW r \in Process, NEW ex, NEW memory, NEW s \in States
      PROVE  [r EXCEPT !.st = s, !.failed = @ \cup Shortage(proc[p], ex, memory)] \in Process
  BY <1>4 DEF Shortage, Process
<1>5. CASE LoaderOpensImageKey(p)
  <2>1. PICK ex \in BOOLEAN, memory \in MemoryFor(p) :
          SetProc(p, [Opened(proc[p], ex) EXCEPT
                       !.st = IF ImageKey(p, ex, memory) = "absent" THEN "plain" ELSE "data",
                       !.failed = @ \cup Shortage(proc[p], ex, memory)])
    BY <1>5 DEF LoaderOpensImageKey
  <2>2. [Opened(proc[p], ex) EXCEPT
           !.st = IF ImageKey(p, ex, memory) = "absent" THEN "plain" ELSE "data",
           !.failed = @ \cup Shortage(proc[p], ex, memory)] \in Process
    BY <1>1, <1>4, HookTypes
  <2>3. QED BY <1>2, <1>5, <2>1, <2>2 DEF LoaderOpensImageKey
<1>6. CASE KexDataInitialize(p)
  <2>1. PICK memory \in MemoryFor(p) :
          SetProc(p, [Opened(TakeMagic(proc[p]), FALSE) EXCEPT
                       !.st = "native",
                       !.disable = ImageKey(p, FALSE, memory) = "stay",
                       !.failed = @ \cup Shortage(proc[p], FALSE, memory)])
    BY <1>6 DEF KexDataInitialize
  <2>2. \A r \in Process :
          [r EXCEPT !.st = "native",
                    !.disable = ImageKey(p, FALSE, memory) = "stay",
                    !.failed = @ \cup Shortage(proc[p], FALSE, memory)] \in Process
    BY ZenonT(40) DEF Shortage, Process
  <2>3. QED BY <1>1, <1>2, <1>6, <2>1, <2>2, HookTypes DEF KexDataInitialize
<1>7. CASE LoaderSkipsImageKey(p) \/ InspectRemains(p)
  BY <1>1, <1>2, <1>7, FieldTypes DEF LoaderSkipsImageKey, InspectRemains
<1>8. CASE FindNative(p)
  BY <1>1, <1>2, <1>8, FieldTypes, FailType DEF FindNative, Failures
<1>9. CASE UnmapTemporary(p)
  <2>1. [proc[p] EXCEPT !.temp = FALSE, !.st = "key"] \in Process
    BY <1>1 DEF Process
  <2>2. QED BY <1>1, <1>2, <1>9, <2>1, FieldTypes, FailType DEF UnmapTemporary, Failures
<1>10. CASE RestoreNtOpenKey(p) \/ RestoreNtOpenKeyEx(p)
  <2>1. /\ [proc[p] EXCEPT !.key = Syscall, !.st = "keyex"] \in Process
        /\ [proc[p] EXCEPT !.keyex = Syscall, !.st = "hook"] \in Process
    BY <1>1, Templates DEF Process
  <2>2. [Fail(p, "restore") EXCEPT !.st = "hook"] \in Process
    BY FailType, FieldTypes DEF Failures
  <2>3. QED BY <1>2, <1>10, <2>1, <2>2 DEF RestoreNtOpenKey, RestoreNtOpenKeyEx, RestoreFails
<1>11. CASE InstallCreateHook(p)
  <2>1. /\ [proc[p] EXCEPT !.st = "enabled"] \in Process
        /\ \A b \in BOOLEAN : [proc[p] EXCEPT !.st = "enabled", !.hooked = b] \in Process
    BY <1>1 DEF Process
  <2>2. QED BY <1>2, <1>11, <2>1 DEF InstallCreateHook
<1>12. QED
  BY <1>3, <1>5, <1>6, <1>7, <1>8, <1>9, <1>10, <1>11, Zenon DEF Start

LEMMA SetCallType ==
  ASSUME TypeOK, NEW p \in Procs, NEW t \in Threads, NEW r \in Call, SetCall(p, t, r)
  PROVE  call' \in [Procs -> [Threads -> Call]]
BY DEF TypeOK, SetCall

LEMMA CallTypes ==
  ASSUME TypeOK, NEW p \in Procs, NEW t \in Threads
  PROVE  /\ call[p][t] \in Call /\ Idle \in Call
         /\ \A pc \in CallSteps : [call[p][t] EXCEPT !.pc = pc] \in Call
         /\ \A pc \in CallSteps, c \in Procs, asked \in BOOLEAN :
              [pc |-> pc, child |-> c, asked |-> asked] \in Call
         /\ \A asked \in BOOLEAN :
              [pc |-> "retry", child |-> Nobody, asked |-> asked] \in Call
<1>1. call[p][t] \in Call
  BY DEF TypeOK
<1>2. \A k \in Call, pc \in CallSteps : [k EXCEPT !.pc = pc] \in Call
  BY DEF Call
<1>3. /\ \A pc \in CallSteps, c \in Procs \cup {Nobody}, asked \in BOOLEAN :
           [pc |-> pc, child |-> c, asked |-> asked] \in Call
  BY DEF Call
<1>4. Idle \in Call
  BY DEF Call, CallSteps, Idle
<1>5. QED BY <1>1, <1>2, <1>3, <1>4 DEF CallSteps

LEMMA CreateType ==
  ASSUME TypeOK, NEW p \in Procs, NEW c \in Procs, NEW asked \in BOOLEAN,
         NEW suspended \in BOOLEAN, NEW failed \in SUBSET Failures,
         Create(p, c, asked, suspended, failed)
  PROVE  proc' \in [Procs -> Process]
<1>1. NewProcess(p, c, asked, suspended) \in Process
  BY NoProcessType DEF NewProcess, Process, States
<1>2. [NewProcess(p, c, asked, suspended) EXCEPT !.failed = failed] \in Process
  BY <1>1, FieldTypes
<1>3. QED BY <1>2, SetProcType DEF Create

LEMMA CreateUserProcessType ==
  ASSUME TypeOK, NEW p \in Procs, NEW t \in Threads, CreateUserProcess(p, t)
  PROVE  TypeOK'
<1>1. CASE CreateUnhooked(p, t)
  <2>1. PICK c \in Procs, asked \in BOOLEAN : Create(p, c, asked, asked, {})
    BY <1>1 DEF CreateUnhooked
  <2>2. QED BY <1>1, <2>1, CreateType DEF CreateUnhooked, TypeOK
<1>2. CASE CreateSuspended(p, t)
  <2>1. PICK c \in Procs, asked \in BOOLEAN :
          /\ Create(p, c, asked, TRUE, {})
          /\ SetCall(p, t, [pc |-> "open", child |-> c, asked |-> asked])
    BY <1>2 DEF CreateSuspended
  <2>2. proc' \in [Procs -> Process]
    <3>1. {} \in SUBSET Failures
      OBVIOUS
    <3>2. QED BY <2>1, <3>1, CreateType
  <2>3. call' \in [Procs -> [Threads -> Call]]
    BY <2>1, CallTypes, SetCallType DEF CallSteps
  <2>4. QED BY <1>2, <2>2, <2>3 DEF CreateSuspended, TypeOK
<1>3. CASE CreateSuspendedFails(p, t)
  BY <1>3, CallTypes, SetCallType DEF CreateSuspendedFails, TypeOK
<1>4. QED BY <1>1, <1>2, <1>3 DEF CreateUserProcess

LEMMA ContinueType ==
  ASSUME TypeOK, NEW p \in Procs, NEW t \in Threads, Continue(p, t),
         call[p][t].pc \notin {"idle", "retry"} => Child(p, t) \in Procs
  PROVE  TypeOK'
<1> USE DEF CallSteps
<1>1. ASSUME NEW c \in Procs, NEW r \in Process, SetProc(c, r) \/ UNCHANGED proc,
             NEW k \in Call, SetCall(p, t, k) \/ UNCHANGED call, UNCHANGED virtual
      PROVE  TypeOK'
  BY <1>1, SetProcType, SetCallType DEF TypeOK
<1>2. CASE CreateAsAsked(p, t)
  <2>1. call[p][t].asked \in BOOLEAN
    <3>1. call[p][t] \in Call
      BY CallTypes
    <3>2. QED BY <3>1 DEF Call
  <2>2. proc' \in [Procs -> Process]
    <3>1. CASE UNCHANGED proc
      BY <3>1 DEF TypeOK
    <3>2. ASSUME NEW c \in Procs, Create(p, c, call[p][t].asked, call[p][t].asked, {"create"})
          PROVE  proc' \in [Procs -> Process]
      BY <2>1, <3>2, CreateType DEF Failures
    <3>3. QED BY <1>2, <3>1, <3>2 DEF CreateAsAsked
  <2>3. QED
    BY <1>2, <2>2, CallTypes, SetCallType DEF CreateAsAsked, Return, TypeOK
<1>3. CASE OpenKexDll(p, t) \/ FindHooks(p, t) \/ BailOut(p, t)
  <2>1. /\ UNCHANGED <<proc, virtual>>
        /\ \E k \in Call : SetCall(p, t, k)
    BY <1>3, CallTypes DEF OpenKexDll, FindHooks, BailOut, Goto, Return
  <2>2. QED BY <2>1, SetCallType DEF TypeOK
<1>4. ASSUME call[p][t].pc \notin {"idle", "retry"}, NEW s \in Failures, GiveUp(p, t, s)
      PROVE  TypeOK'
  BY <1>1, <1>4, FailType, CallTypes DEF GiveUp, Goto
<1>5. CASE \/ OpenKexDllFails(p, t) \/ MapRemoteFails(p, t) \/ FindHooksFails(p, t)
           \/ WriteNtOpenKeyFails(p, t) \/ WriteNtOpenKeyExFails(p, t)
  BY <1>4, <1>5 DEF OpenKexDllFails, MapRemoteFails, FindHooksFails,
     WriteNtOpenKeyFails, WriteNtOpenKeyExFails, At, Failures
<1>6. CASE MapRemote(p, t) \/ WriteNtOpenKey(p, t) \/ WriteNtOpenKeyEx(p, t)
  <2>1. Child(p, t) \in Procs /\ proc[Child(p, t)] \in Process
    BY <1>6 DEF MapRemote, WriteNtOpenKey, WriteNtOpenKeyEx, At, TypeOK
  <2>2. QED
    BY <1>1, <1>6, <2>1, Templates, FieldTypes, CallTypes
       DEF MapRemote, WriteNtOpenKey, WriteNtOpenKeyEx, Goto
<1>7. CASE ResumeChild(p, t)
  <2>1. Child(p, t) \in Procs /\ proc[Child(p, t)] \in Process
    BY <1>7 DEF ResumeChild, At, TypeOK
  <2>2. [proc[Child(p, t)] EXCEPT !.st = IF @ = "suspended" THEN "base" ELSE @] \in Process
    BY <2>1 DEF Process, States
  <2>3. QED BY <1>1, <1>7, <2>1, <2>2, CallTypes DEF ResumeChild, Return
<1>8. CASE ResumeChildFails(p, t)
  <2>1. Child(p, t) \in Procs
    BY <1>8 DEF ResumeChildFails, At
  <2>2. QED BY <1>1, <1>8, <2>1, FailType, CallTypes DEF ResumeChildFails, Return, Failures
<1>9. QED
  BY <1>2, <1>3, <1>5, <1>6, <1>7, <1>8, Zenon DEF Continue

LEMMA EnvironmentType ==
  ASSUME TypeOK, NEW p \in Procs, ProgramResumes(p) \/ End(p)
  PROVE  TypeOK'
<1>1. proc[p] \in Process
  BY DEF TypeOK
<1>2. CASE ProgramResumes(p)
  BY <1>1, <1>2, FieldTypes, SetProcType DEF ProgramResumes, TypeOK, States
<1>3. CASE End(p)
  <2> DEFINE r == [NoProcess EXCEPT !.st = "ended", !.parent = proc[p].parent,
                     !.hooked = proc[p].hooked, !.disable = proc[p].disable,
                     !.flag = proc[p].flag, !.failed = proc[p].failed]
  <2>1. r \in Process
    BY <1>1, NoProcessType DEF Process, States
  <2>2. proc' \in [Procs -> Process]
    BY <1>3, <2>1, SetProcType DEF End
  <2>3. call' \in [Procs -> [Threads -> Call]]
    BY <1>3, CallTypes DEF End, TypeOK
  <2>4. QED BY <1>3, <2>2, <2>3 DEF End, TypeOK
<1>4. QED BY <1>2, <1>3

-----------------------------------------------------------------------------
(* What a process is like, whatever its creator did to it.                 *)

Clean(r) == ~r.temp /\ r.key = Syscall /\ r.keyex = Syscall
Full(r) == r.temp /\ r.key = HookTemplate /\ r.keyex = HookTemplate
Touched(r) == r.temp \/ r.key # Syscall \/ r.keyex # Syscall
Botched(r) == r.failed \cap {"patch", "writeex"} # {}

(* Hooks lead to mapped code, and NtOpenKeyEx is not hooked alone, unless  *)
(* a stub could not be restored.                                           *)
HooksLead(r) ==
  /\ r.key \in {Syscall, HookTemplate} /\ r.keyex \in {Syscall, HookTemplate}
  /\ "restore" \notin r.failed =>
       /\ r.st \notin {"key", "keyex"} /\ (r.key # Syscall \/ r.keyex # Syscall) => r.temp
       /\ r.keyex # Syscall /\ r.st # "keyex" => r.key # Syscall
  /\ "restore" \in r.failed => ~r.temp /\ r.st \in {"hook", "enabled", "ended"}
  /\ r.st \in {"none", "ended"} => Clean(r)

(* How far the start has come, from the number in the Peb to the flag.     *)
Progress(r) ==
  /\ r.st \in {"none", "suspended", "base", "image", "data"} => ~r.flag
  /\ r.st \in {"none", "suspended"} => ~r.magic
  /\ r.st \in {"base", "image", "data"} /\ r.magic => r.key # Syscall
  /\ r.st = "key" => ~r.temp
  /\ r.st = "keyex" => ~r.temp /\ r.key = Syscall
  /\ ~Botched(r) =>
       /\ r.st = "base" => Clean(r) \/ Full(r)
       /\ r.st \in {"image", "data"} => Clean(r) \/ (Full(r) /\ r.magic)
       /\ r.st \in {"native", "inspect"} => Clean(r) \/ (Full(r) /\ r.flag)
       /\ r.st = "hook" => Clean(r) \/ r.failed \cap {"unmap", "restore"} # {}
       /\ r.st = "enabled" => Clean(r) \/ r.failed \cap {"native", "unmap", "restore"} # {}

(* What a process was told about its own children.                         *)
Obedient(r) ==
  /\ r.hooked => ~r.disable /\ r.st \in {"enabled", "ended"}
  /\ r.flag /\ virtual = "stay" /\ r.failed = {} => r.disable

(* What a child c is like that its creator has left to itself.             *)
Family(c) ==
  proc[c].parent # Nobody =>
    LET r == proc[c]
        q == proc[r.parent]
    IN /\ q.st \in {"plain", "enabled", "ended"}
       /\ Touched(r) => q.hooked
       /\ q.hooked /\ r.failed = {} =>
            /\ r.st = "base" => Full(r)
            /\ r.st = "image" => Full(r) /\ ~r.missing
            /\ r.st = "plain" => virtual = "absent"
       /\ r.st = "suspended" /\ ~InCall(c) /\ q.st # "ended" =>
            /\ r.asked \/ "resume" \in r.failed
            /\ Botched(r) \/ Clean(r) \/ Full(r)
            /\ q.hooked /\ r.failed = {} => Full(r)

(* How far the hook has come with a child r when it is at pc.              *)
Patched(pc, r) ==
  /\ pc \in {"open", "map"} => Clean(r)
  /\ pc \in {"mapped", "write"} => r.temp /\ r.key = Syscall /\ r.keyex = Syscall
  /\ pc = "writeex" => r.temp /\ r.key = HookTemplate /\ r.keyex = Syscall
  /\ pc \in {"bailout", "resume"} => Botched(r) \/ Full(r)

(* A call of NtCreateUserProcess and the child it is about.                *)
CallInv(p, t) ==
  LET k == call[p][t]
      c == k.child
  IN /\ c = Nobody <=> k.pc \in {"idle", "retry"}
     /\ k.pc # "idle" => proc[p].hooked
     /\ k.pc = "resume" => ~k.asked
     /\ c # Nobody =>
          /\ proc[c].st \in {"suspended", "ended"}
          /\ proc[c].parent = p
          /\ proc[c].st = "suspended" => proc[c].asked = k.asked /\ Patched(k.pc, proc[c])
          /\ proc[c].st = "ended" => ~proc[c].asked

(* No two calls are about the same child.                                  *)
OneCreator ==
  \A p, q \in Procs, t, u \in Threads :
    Child(p, t) = Child(q, u) /\ Child(p, t) # Nobody => p = q /\ t = u

Inv ==
  /\ TypeOK
  /\ \A p \in Procs : /\ HooksLead(proc[p]) /\ Progress(proc[p]) /\ Obedient(proc[p])
                      /\ proc[p].st = "suspended" => proc[p].parent # Nobody
                      /\ Family(p)
  /\ \A p \in Procs, t \in Threads : CallInv(p, t)
  /\ OneCreator

LEMMA ParentKnown ==
  ASSUME TypeOK, NEW c \in Procs, proc[c].parent # Nobody
  PROVE  proc[c].parent \in Procs
BY DEF TypeOK, Process

(* A step of p on its own, before it runs: it has no children yet.         *)
LEMMA OwnStepKeeps ==
  ASSUME Inv, TypeOK', NEW p \in Procs, NEW r, SetProc(p, r), UNCHANGED <<call, virtual>>,
         proc[p].st \in {"base", "image", "data", "native", "inspect", "key", "keyex", "hook"},
         r.st \notin {"none", "suspended", "base", "ended"},
         r.parent = proc[p].parent,
         HooksLead(r), Progress(r), Obedient(r),
         Touched(r) => Touched(proc[p]),
         proc[p].parent # Nobody /\ proc[proc[p].parent].hooked /\ r.failed = {} =>
           /\ r.st = "image" => Full(r) /\ ~r.missing
           /\ r.st = "plain" => virtual = "absent"
  PROVE  Inv'
<1>1. proc'[p] = r /\ \A c \in Procs \ {p} : proc'[c] = proc[c]
  BY DEF SetProc, Inv, TypeOK
<1>2. ~proc[p].hooked
  BY DEF Inv, Obedient
<1>3. ASSUME NEW c \in Procs
      PROVE  /\ HooksLead(proc'[c]) /\ Progress(proc'[c]) /\ Obedient(proc[c])'
             /\ proc'[c].st = "suspended" => proc'[c].parent # Nobody
  BY <1>1 DEF Inv, Obedient
<1>4. ASSUME NEW c \in Procs
      PROVE  Family(c)'
  <2> SUFFICES ASSUME proc'[c].parent # Nobody
               PROVE  Family(c)'
    BY DEF Family
  <2>1. proc'[c].parent = proc[c].parent /\ proc[c].parent \in Procs
    BY <1>1, ParentKnown DEF Inv
  <2>2. Family(c) /\ proc[proc[c].parent].st \in {"plain", "enabled", "ended"}
    BY <2>1 DEF Inv, Family
  <2>3. proc'[proc[c].parent] = proc[proc[c].parent]
    BY <1>1, <2>1, <2>2
  <2>4. CASE c = p
    BY <1>1, <2>1, <2>2, <2>3, <2>4 DEF Family
  <2>5. CASE c # p
    BY <1>1, <2>1, <2>2, <2>3, <2>5 DEF Family, InCall
  <2>6. QED BY <2>4, <2>5
<1>5. ASSUME NEW q \in Procs, NEW t \in Threads
      PROVE  CallInv(q, t)'
  <2>1. CallInv(q, t) /\ call' = call
    BY DEF Inv
  <2>2. CASE call[q][t].child = Nobody
    BY <1>1, <1>2, <2>1, <2>2 DEF CallInv
  <2>3. CASE call[q][t].child # Nobody
    <3>1. call[q][t].child \in Procs
      BY <2>3 DEF Inv, TypeOK, Call
    <3>2. call[q][t].child # p
      BY <2>1, <2>3 DEF CallInv
    <3>3. QED BY <1>1, <1>2, <2>1, <3>1, <3>2 DEF CallInv
  <2>4. QED BY <2>2, <2>3
<1>6. OneCreator'
  BY DEF Inv, OneCreator, Child
<1>7. QED BY <1>3, <1>4, <1>5, <1>6 DEF Inv

(* A call of one of the two functions changes nothing but the mark.        *)
LEMMA OpenedFields ==
  ASSUME NEW r \in Process, NEW ex \in BOOLEAN
  PROVE  LET o == Opened(r, ex)
         IN  /\ o.st = r.st /\ o.key = r.key /\ o.keyex = r.keyex /\ o.temp = r.temp
             /\ o.flag = r.flag /\ o.disable = r.disable /\ o.hooked = r.hooked
             /\ o.parent = r.parent /\ o.asked = r.asked /\ o.failed = r.failed
             /\ Stub(r, ex) = Syscall => o.magic = r.magic /\ o.missing = r.missing
             /\ Stub(r, ex) # Syscall => o.magic /\ ~o.missing
BY DEF Opened, Marked, Process

LEMMA LoaderKeeps ==
  ASSUME Inv, NEW p \in Procs,
         LoaderOpensBase(p) \/ LoaderOpensImageKey(p) \/ LoaderSkipsImageKey(p)
  PROVE  Inv'
<1> DEFINE r == proc[p]
<1>1. TypeOK' /\ r \in Process
  <2>1. Start(p)
    BY DEF Start
  <2>2. QED BY <2>1, StartType DEF Inv, TypeOK
<1>2. HooksLead(r) /\ Progress(r) /\ Obedient(r) /\ Family(p)
  BY DEF Inv
<1>3. CASE LoaderOpensBase(p)
  <2>1. PICK ex \in BOOLEAN : SetProc(p, [Opened(r, ex) EXCEPT !.st = "image"])
    BY <1>3 DEF LoaderOpensBase
  <2> DEFINE o == Opened(r, ex)
             n == [o EXCEPT !.st = "image"]
  <2>2. o \in Process
    BY <1>1, HookTypes
  <2>3. /\ n.st = "image" /\ n.key = r.key /\ n.keyex = r.keyex /\ n.temp = r.temp
        /\ n.flag = r.flag /\ n.disable = r.disable /\ n.hooked = r.hooked
        /\ n.parent = r.parent /\ n.failed = r.failed
        /\ Stub(r, ex) = Syscall => n.magic = r.magic /\ n.missing = r.missing
        /\ Stub(r, ex) # Syscall => n.magic /\ ~n.missing
    BY <1>1, <2>2, OpenedFields DEF Process
  <2>4. r.st = "base"
    BY <1>3 DEF LoaderOpensBase
  <2>5. HooksLead(n) /\ Obedient(n)
    BY <1>2, <2>3, <2>4 DEF HooksLead, Obedient, Clean
  <2>6. Progress(n)
    BY <1>2, <2>3, <2>4, Templates DEF HooksLead, Progress, Clean, Full, Botched, Stub
  <2>7. r.parent # Nobody /\ proc[r.parent].hooked /\ n.failed = {} => Full(n) /\ ~n.missing
    BY <1>2, <2>3, <2>4, Templates DEF Family, Full, Stub
  <2>8. Touched(n) => Touched(r)
    BY <2>3 DEF Touched
  <2>9. UNCHANGED <<call, virtual>>
    BY <1>3 DEF LoaderOpensBase
  <2> HIDE DEF n, o
  <2>10. SetProc(p, n)
    BY <2>1 DEF n, o
  <2>11. QED BY <1>1, <2>3, <2>4, <2>5, <2>6, <2>7, <2>8, <2>9, <2>10, OwnStepKeeps
<1>4. CASE LoaderOpensImageKey(p)
  <2>1. PICK ex \in BOOLEAN, memory \in MemoryFor(p) :
          SetProc(p, [Opened(r, ex) EXCEPT
                       !.st = IF ImageKey(p, ex, memory) = "absent" THEN "plain" ELSE "data",
                       !.failed = @ \cup Shortage(r, ex, memory)])
    BY <1>4 DEF LoaderOpensImageKey
  <2> DEFINE o == Opened(r, ex)
             n == [o EXCEPT
                    !.st = IF ImageKey(p, ex, memory) = "absent" THEN "plain" ELSE "data",
                    !.failed = @ \cup Shortage(r, ex, memory)]
  <2>2. o \in Process
    BY <1>1, HookTypes
  <2>3. /\ n.st = IF ImageKey(p, ex, memory) = "absent" THEN "plain" ELSE "data"
        /\ n.key = r.key /\ n.keyex = r.keyex /\ n.temp = r.temp
        /\ n.flag = r.flag /\ n.disable = r.disable /\ n.hooked = r.hooked
        /\ n.parent = r.parent /\ n.failed = r.failed \cup Shortage(r, ex, memory)
        /\ Stub(r, ex) = Syscall => n.magic = r.magic
        /\ Stub(r, ex) # Syscall => n.magic
    BY <1>1, <2>2, OpenedFields DEF Process
  <2>4. r.st = "image"
    BY <1>4 DEF LoaderOpensImageKey
  <2>5. HooksLead(n) /\ Obedient(n)
    BY <1>2, <2>3, <2>4 DEF HooksLead, Obedient, Progress, Clean, Shortage
  <2>6. Progress(n)
    BY <1>2, <2>3, <2>4, Templates DEF HooksLead, Progress, Clean, Full, Botched, Stub
  <2>7. r.parent # Nobody /\ proc[r.parent].hooked /\ n.failed = {} =>
          (n.st = "plain" => virtual = "absent")
    <3> SUFFICES ASSUME r.parent # Nobody, proc[r.parent].hooked, n.failed = {}
                 PROVE  n.st = "plain" => virtual = "absent"
      OBVIOUS
    <3>1. Full(r)
      BY <1>2, <2>3, <2>4 DEF Family
    <3>2. Stub(r, ex) # Syscall
      BY <3>1, Templates DEF Full, Stub
    <3>3. memory
      BY <2>3, <3>2 DEF Shortage, MemoryFor
    <3>4. QED BY <2>3, <3>2, <3>3 DEF ImageKey
  <2>8. Touched(n) => Touched(r)
    BY <2>3 DEF Touched
  <2>9. UNCHANGED <<call, virtual>>
    BY <1>4 DEF LoaderOpensImageKey
  <2>10. n.st \in {"plain", "data"}
    BY <2>3
  <2> HIDE DEF n, o
  <2>11. SetProc(p, n)
    BY <2>1 DEF n, o
  <2>12. QED BY <1>1, <2>3, <2>4, <2>5, <2>6, <2>7, <2>8, <2>9, <2>10, <2>11, OwnStepKeeps
<1>5. CASE LoaderSkipsImageKey(p)
  <2> DEFINE n == [r EXCEPT !.st = "plain"]
  <2>1. /\ r.st = "image" /\ r.missing /\ SetProc(p, n) /\ UNCHANGED <<call, virtual>>
    BY <1>5 DEF LoaderSkipsImageKey
  <2>2. /\ n.st = "plain" /\ n.key = r.key /\ n.keyex = r.keyex /\ n.temp = r.temp
        /\ n.flag = r.flag /\ n.disable = r.disable /\ n.hooked = r.hooked
        /\ n.parent = r.parent /\ n.failed = r.failed
    BY <1>1 DEF Process
  <2>3. HooksLead(n) /\ Obedient(n) /\ Progress(n)
    BY <1>2, <2>1, <2>2 DEF HooksLead, Obedient, Progress, Clean
  <2>4. ~(r.parent # Nobody /\ proc[r.parent].hooked /\ n.failed = {})
    BY <1>2, <2>1, <2>2 DEF Family
  <2>5. Touched(n) => Touched(r)
    BY <2>2 DEF Touched
  <2> HIDE DEF n
  <2>6. QED BY <1>1, <2>1, <2>2, <2>3, <2>4, <2>5, OwnStepKeeps
<1>6. QED BY <1>3, <1>4, <1>5

(* The steps of KexDll in a new process.                                   *)
LEMMA KexDllKeeps ==
  ASSUME Inv, NEW p \in Procs,
         \/ KexDataInitialize(p) \/ FindNative(p) \/ InspectRemains(p)
         \/ UnmapTemporary(p) \/ RestoreNtOpenKey(p) \/ RestoreNtOpenKeyEx(p)
         \/ InstallCreateHook(p)
  PROVE  Inv'
<1> DEFINE r == proc[p]
<1>1. TypeOK' /\ r \in Process
  <2>1. Start(p)
    BY DEF Start
  <2>2. QED BY <2>1, StartType DEF Inv, TypeOK
<1>2. HooksLead(r) /\ Progress(r) /\ Obedient(r)
  BY DEF Inv
(* Most steps leave alone all but a few of the fields.                     *)
<1>3. ASSUME NEW n, SetProc(p, n), UNCHANGED <<call, virtual>>,
             r.st \in {"data", "native", "inspect", "key", "keyex", "hook"},
             n.st \in {"native", "inspect", "key", "keyex", "hook", "enabled"},
             n.parent = r.parent,
             HooksLead(n), Progress(n), Obedient(n), Touched(n) => Touched(r)
      PROVE  Inv'
  BY <1>1, <1>3, OwnStepKeeps
<1>4. CASE KexDataInitialize(p)
  <2>1. PICK memory \in MemoryFor(p) :
          SetProc(p, [Opened(TakeMagic(r), FALSE) EXCEPT
                       !.st = "native",
                       !.disable = ImageKey(p, FALSE, memory) = "stay",
                       !.failed = @ \cup Shortage(r, FALSE, memory)])
    BY <1>4 DEF KexDataInitialize
  <2> DEFINE m == TakeMagic(r)
             o == Opened(m, FALSE)
             n == [o EXCEPT !.st = "native",
                            !.disable = ImageKey(p, FALSE, memory) = "stay",
                            !.failed = @ \cup Shortage(r, FALSE, memory)]
  <2>2. m \in Process /\ o \in Process
    BY <1>1, HookTypes
  <2>3. /\ m.key = r.key /\ m.keyex = r.keyex /\ m.temp = r.temp /\ m.flag = r.magic
        /\ m.hooked = r.hooked /\ m.parent = r.parent /\ m.failed = r.failed
    BY <1>1 DEF TakeMagic, Process
  <2>4. /\ o.key = r.key /\ o.keyex = r.keyex /\ o.temp = r.temp /\ o.flag = r.magic
        /\ o.hooked = r.hooked /\ o.parent = r.parent /\ o.failed = r.failed
    <3> HIDE DEF m
    <3>1. QED BY <2>2, <2>3, OpenedFields
  <2>5. /\ n.st = "native" /\ n.disable = (ImageKey(p, FALSE, memory) = "stay")
        /\ n.key = r.key /\ n.keyex = r.keyex /\ n.temp = r.temp /\ n.flag = r.magic
        /\ n.hooked = r.hooked /\ n.parent = r.parent
        /\ n.failed = r.failed \cup Shortage(r, FALSE, memory)
    <3> HIDE DEF o
    <3>1. QED BY <2>2, <2>4 DEF Process
  <2>6. r.st = "data" /\ UNCHANGED <<call, virtual>>
    BY <1>4 DEF KexDataInitialize
  <2> HIDE DEF n, o, m
  <2>7. HooksLead(n)
    BY <1>2, <2>5, <2>6 DEF HooksLead, Clean, Shortage
  <2>8. Progress(n)
    BY <1>2, <2>5, <2>6 DEF Progress, Clean, Full, Botched
  <2>9. Obedient(n)
    <3>1. ~n.hooked
      BY <1>2, <2>5, <2>6 DEF Obedient
    <3>2. ASSUME n.flag, virtual = "stay", n.failed = {}
          PROVE  n.disable
      <4>1. Stub(r, FALSE) # Syscall
        BY <1>2, <2>5, <2>6, <3>2 DEF Progress, Stub
      <4>2. memory
        BY <2>5, <3>2, <4>1 DEF Shortage, MemoryFor
      <4>3. QED BY <2>5, <3>2, <4>1, <4>2 DEF ImageKey
    <3>3. QED BY <3>1, <3>2 DEF Obedient
  <2>10. Touched(n) => Touched(r)
    BY <2>5 DEF Touched
  <2>11. SetProc(p, n)
    BY <2>1 DEF n, o, m
  <2>12. QED BY <1>3, <2>5, <2>6, <2>7, <2>8, <2>9, <2>10, <2>11
<1>5. CASE FindNative(p)
  <2>1. r.st = "native" /\ UNCHANGED <<call, virtual>>
    BY <1>5 DEF FindNative
  <2>2. CASE SetProc(p, [r EXCEPT !.st = "inspect"])
    <3> DEFINE n == [r EXCEPT !.st = "inspect"]
    <3>1. /\ n.st = "inspect" /\ n.key = r.key /\ n.keyex = r.keyex /\ n.temp = r.temp
          /\ n.flag = r.flag /\ n.disable = r.disable /\ n.hooked = r.hooked
          /\ n.parent = r.parent /\ n.failed = r.failed
      BY <1>1 DEF Process
    <3> HIDE DEF n
    <3>2. HooksLead(n) /\ Progress(n) /\ Obedient(n) /\ (Touched(n) => Touched(r))
      BY <1>2, <2>1, <3>1
         DEF HooksLead, Progress, Obedient, Touched, Clean, Full, Botched
    <3>3. SetProc(p, n)
      BY <2>2 DEF n
    <3>4. QED BY <1>3, <2>1, <3>1, <3>2, <3>3
  <2>3. CASE SetProc(p, [Fail(p, "native") EXCEPT !.st = "enabled"])
    <3> DEFINE f == Fail(p, "native")
               n == [f EXCEPT !.st = "enabled"]
    <3>1. /\ n.st = "enabled" /\ n.key = r.key /\ n.keyex = r.keyex /\ n.temp = r.temp
          /\ n.flag = r.flag /\ n.disable = r.disable /\ n.hooked = r.hooked
          /\ n.parent = r.parent /\ n.failed = r.failed \cup {"native"}
      BY <1>1 DEF Process, Fail
    <3> HIDE DEF n
    <3>2. HooksLead(n) /\ Progress(n) /\ Obedient(n) /\ (Touched(n) => Touched(r))
      BY <1>2, <2>1, <3>1
         DEF HooksLead, Progress, Obedient, Touched, Clean, Full, Botched
    <3>3. SetProc(p, n)
      BY <2>3 DEF n
    <3>4. QED BY <1>3, <2>1, <3>1, <3>2, <3>3
  <2>4. QED BY <1>5, <2>2, <2>3 DEF FindNative
<1>6. CASE InspectRemains(p)
  <2> DEFINE n == [r EXCEPT !.st = "hook"]
  <2>1. /\ r.st = "inspect" /\ NoRemains(p) /\ SetProc(p, n) /\ UNCHANGED <<call, virtual>>
    BY <1>6 DEF InspectRemains
  <2>2. /\ n.st = "hook" /\ n.key = r.key /\ n.keyex = r.keyex /\ n.temp = r.temp
        /\ n.flag = r.flag /\ n.disable = r.disable /\ n.hooked = r.hooked
        /\ n.parent = r.parent /\ n.failed = r.failed
    BY <1>1 DEF Process
  <2> HIDE DEF n
  <2>3. HooksLead(n) /\ Obedient(n) /\ (Touched(n) => Touched(r))
    BY <1>2, <2>1, <2>2 DEF HooksLead, Obedient, Touched, Clean
  <2>4. Progress(n)
    BY <1>2, <2>1, <2>2 DEF Progress, NoRemains, Clean, Full, Botched
  <2>5. QED BY <1>3, <2>1, <2>2, <2>3, <2>4
<1>7. CASE UnmapTemporary(p)
  <2>1. r.st = "inspect" /\ ~NoRemains(p) /\ UNCHANGED <<call, virtual>>
    BY <1>7 DEF UnmapTemporary
  <2>2. CASE SetProc(p, [r EXCEPT !.temp = FALSE, !.st = "key"])
    <3> DEFINE n == [r EXCEPT !.temp = FALSE, !.st = "key"]
    <3>1. /\ n.st = "key" /\ n.key = r.key /\ n.keyex = r.keyex /\ ~n.temp
          /\ n.flag = r.flag /\ n.disable = r.disable /\ n.hooked = r.hooked
          /\ n.parent = r.parent /\ n.failed = r.failed
      BY <1>1 DEF Process
    <3> HIDE DEF n
    <3>2. HooksLead(n) /\ Progress(n) /\ Obedient(n) /\ (Touched(n) => Touched(r))
      BY <1>2, <2>1, <3>1
         DEF HooksLead, Progress, Obedient, Touched, Clean, Full, Botched
    <3>3. SetProc(p, n)
      BY <2>2 DEF n
    <3>4. QED BY <1>3, <2>1, <3>1, <3>2, <3>3
  <2>3. CASE SetProc(p, [Fail(p, "unmap") EXCEPT !.st = "hook"])
    <3> DEFINE f == Fail(p, "unmap")
               n == [f EXCEPT !.st = "hook"]
    <3>1. /\ n.st = "hook" /\ n.key = r.key /\ n.keyex = r.keyex /\ n.temp = r.temp
          /\ n.flag = r.flag /\ n.disable = r.disable /\ n.hooked = r.hooked
          /\ n.parent = r.parent /\ n.failed = r.failed \cup {"unmap"}
      BY <1>1 DEF Process, Fail
    <3> HIDE DEF n
    <3>2. HooksLead(n) /\ Progress(n) /\ Obedient(n) /\ (Touched(n) => Touched(r))
      BY <1>2, <2>1, <3>1
         DEF HooksLead, Progress, Obedient, Touched, Clean, Full, Botched
    <3>3. SetProc(p, n)
      BY <2>3 DEF n
    <3>4. QED BY <1>3, <2>1, <3>1, <3>2, <3>3
  <2>4. QED BY <1>7, <2>2, <2>3 DEF UnmapTemporary
(* A stub that cannot be restored stays as it is.                          *)
<1>a. ASSUME r.st \in {"key", "keyex"}, RestoreFails(p), UNCHANGED <<call, virtual>>
      PROVE  Inv'
  <2> DEFINE f == Fail(p, "restore")
             n == [f EXCEPT !.st = "hook"]
  <2>1. /\ n.st = "hook" /\ n.key = r.key /\ n.keyex = r.keyex /\ n.temp = r.temp
        /\ n.flag = r.flag /\ n.disable = r.disable /\ n.hooked = r.hooked
        /\ n.parent = r.parent /\ n.failed = r.failed \cup {"restore"}
    BY <1>1 DEF Process, Fail
  <2>2. SetProc(p, n)
    BY <1>a DEF RestoreFails
  <2> HIDE DEF n
  <2>3. HooksLead(n) /\ Progress(n) /\ Obedient(n) /\ (Touched(n) => Touched(r))
    BY <1>2, <1>a, <2>1
       DEF HooksLead, Progress, Obedient, Touched, Clean, Full, Botched
  <2>4. QED BY <1>3, <1>a, <2>1, <2>2, <2>3
<1>8. CASE RestoreNtOpenKey(p)
  <2> DEFINE n == [r EXCEPT !.key = Syscall, !.st = "keyex"]
  <2> SUFFICES ASSUME SetProc(p, n)
               PROVE  Inv'
    BY <1>8, <1>a DEF RestoreNtOpenKey
  <2>1. r.st = "key" /\ SetProc(p, n) /\ UNCHANGED <<call, virtual>>
    BY <1>8 DEF RestoreNtOpenKey
  <2>2. /\ n.st = "keyex" /\ n.key = Syscall /\ n.keyex = r.keyex /\ n.temp = r.temp
        /\ n.flag = r.flag /\ n.disable = r.disable /\ n.hooked = r.hooked
        /\ n.parent = r.parent /\ n.failed = r.failed
    BY <1>1 DEF Process
  <2> HIDE DEF n
  <2>3. HooksLead(n) /\ Progress(n) /\ Obedient(n) /\ (Touched(n) => Touched(r))
    BY <1>2, <2>1, <2>2
       DEF HooksLead, Progress, Obedient, Touched, Clean, Full, Botched
  <2>4. QED BY <1>3, <2>1, <2>2, <2>3
<1>9. CASE RestoreNtOpenKeyEx(p)
  <2> DEFINE n == [r EXCEPT !.keyex = Syscall, !.st = "hook"]
  <2> SUFFICES ASSUME SetProc(p, n)
               PROVE  Inv'
    BY <1>9, <1>a DEF RestoreNtOpenKeyEx
  <2>1. r.st = "keyex" /\ SetProc(p, n) /\ UNCHANGED <<call, virtual>>
    BY <1>9 DEF RestoreNtOpenKeyEx
  <2>2. /\ n.st = "hook" /\ n.key = r.key /\ n.keyex = Syscall /\ n.temp = r.temp
        /\ n.flag = r.flag /\ n.disable = r.disable /\ n.hooked = r.hooked
        /\ n.parent = r.parent /\ n.failed = r.failed
    BY <1>1 DEF Process
  <2> HIDE DEF n
  <2>3. HooksLead(n) /\ Progress(n) /\ Obedient(n) /\ (Touched(n) => Touched(r))
    BY <1>2, <2>1, <2>2
       DEF HooksLead, Progress, Obedient, Touched, Clean, Full, Botched
  <2>4. QED BY <1>3, <2>1, <2>2, <2>3
<1>10. CASE InstallCreateHook(p)
  <2>1. PICK b \in BOOLEAN : /\ r.st = "hook" /\ UNCHANGED <<call, virtual>>
                             /\ b => ~r.disable
                             /\ SetProc(p, [r EXCEPT !.st = "enabled", !.hooked = b])
    <3>1. CASE r.disable
      <4>1. r.hooked = FALSE
        BY <1>1, <1>2, <1>10 DEF Obedient, InstallCreateHook, Process
      <4>2. [r EXCEPT !.st = "enabled"] = [r EXCEPT !.st = "enabled", !.hooked = FALSE]
        BY <1>1, <4>1 DEF Process
      <4>3. QED BY <1>10, <3>1, <4>2 DEF InstallCreateHook
    <3>2. CASE ~r.disable
      BY <1>10, <3>2 DEF InstallCreateHook
    <3>3. QED BY <3>1, <3>2
  <2> DEFINE n == [r EXCEPT !.st = "enabled", !.hooked = b]
  <2>2. /\ n.st = "enabled" /\ n.key = r.key /\ n.keyex = r.keyex /\ n.temp = r.temp
        /\ n.flag = r.flag /\ n.disable = r.disable /\ n.hooked = b
        /\ n.parent = r.parent /\ n.failed = r.failed
    BY <1>1 DEF Process
  <2> HIDE DEF n
  <2>3. HooksLead(n) /\ Progress(n) /\ Obedient(n) /\ (Touched(n) => Touched(r))
    BY <1>2, <2>1, <2>2
       DEF HooksLead, Progress, Obedient, Touched, Clean, Full, Botched
  <2>4. SetProc(p, n)
    BY <2>1 DEF n
  <2>5. QED BY <1>3, <2>1, <2>2, <2>3, <2>4
<1>11. QED BY <1>4, <1>5, <1>6, <1>7, <1>8, <1>9, <1>10

-----------------------------------------------------------------------------
(* The hook of thread t of p works on a process that runs nothing.         *)
LEMMA ChildOfCall ==
  ASSUME Inv, NEW p \in Procs, NEW t \in Threads, Created(p),
         call[p][t].pc \notin {"idle", "retry"}
  PROVE  LET c == Child(p, t)
         IN  /\ c \in Procs /\ c # p /\ proc[c].parent = p
             /\ proc[c].st \in {"suspended", "ended"}
             /\ proc[p].st = "enabled" /\ proc[p].hooked
<1>1. CallInv(p, t) /\ Obedient(proc[p])
  BY DEF Inv
<1>2. call[p][t].child # Nobody
  BY <1>1 DEF CallInv
<1>3. call[p][t].child \in Procs
  BY <1>2 DEF Inv, TypeOK, Call
<1>4. proc[p].hooked /\ proc[p].st = "enabled"
  BY <1>1 DEF CallInv, Obedient, Created
<1>5. QED BY <1>1, <1>2, <1>3, <1>4 DEF CallInv, Child

(* A child of a call may have children of its own only when it has ended,  *)
(* and then they are told nothing new.                                     *)
LEMMA FamilyOfOthers ==
  ASSUME Inv, NEW p \in Procs, NEW c \in Procs, c # p, NEW r,
         proc' = [proc EXCEPT ![c] = r], virtual' = virtual,
         proc[c].st \in {"suspended", "ended"},
         proc[c].st = "ended" => r.st = "ended",
         r.hooked = proc[c].hooked,
         \A d \in Procs \ {c} : InCall(d) => InCall(d)',
         NEW d \in Procs, d # c
  PROVE  Family(d)'
<1> SUFFICES ASSUME proc'[d].parent # Nobody
             PROVE  Family(d)'
  BY DEF Family
<1>1. proc'[c] = r /\ proc'[d] = proc[d] /\ Family(d)
  BY DEF Inv, TypeOK
<1>2. proc[d].parent \in Procs
  BY <1>1, ParentKnown DEF Inv
<1>3. CASE proc[d].parent # c
  <2>1. proc'[proc[d].parent] = proc[proc[d].parent]
    BY <1>2, <1>3 DEF Inv, TypeOK
  <2>2. InCall(d) => InCall(d)'
    OBVIOUS
  <2>3. QED BY <1>1, <2>1, <2>2 DEF Family
<1>4. CASE proc[d].parent = c
  <2>1. proc[c].st = "ended" /\ r.st = "ended"
    BY <1>1, <1>4 DEF Family
  <2>2. QED BY <1>1, <1>4, <2>1 DEF Family
<1>5. QED BY <1>3, <1>4

(* The hook goes on.                                                       *)
LEMMA CallStepKeeps ==
  ASSUME Inv, TypeOK', NEW p \in Procs, NEW t \in Threads, Created(p),
         call[p][t].pc \notin {"idle", "retry"},
         NEW r, SetProc(Child(p, t), r),
         NEW pc \in {"map", "mapped", "write", "writeex", "bailout", "resume"}, Goto(p, t, pc),
         pc = "resume" => ~call[p][t].asked, UNCHANGED virtual,
         r.st = proc[Child(p, t)].st, r.parent = p,
         r.hooked = proc[Child(p, t)].hooked, r.asked = proc[Child(p, t)].asked,
         HooksLead(r), Progress(r), Obedient(r),
         r.st = "suspended" => Patched(pc, r)
  PROVE  Inv'
<1>1. PICK c \in Procs : /\ c = Child(p, t) /\ c # p /\ proc[c].parent = p
                         /\ proc[c].st \in {"suspended", "ended"}
                         /\ proc[p].st = "enabled" /\ proc[p].hooked
  BY ChildOfCall
<1>2. /\ proc' = [proc EXCEPT ![c] = r]
      /\ proc'[c] = r /\ \A d \in Procs \ {c} : proc'[d] = proc[d]
  BY <1>1 DEF SetProc, Inv, TypeOK
<1>3. /\ call'[p][t].pc = pc /\ call'[p][t].child = c /\ call'[p][t].asked = call[p][t].asked
      /\ \A q \in Procs, u \in Threads :
           q # p \/ u # t => call'[q][u] = call[q][u]
  <2>1. call[p][t] \in Call
    BY DEF Inv, TypeOK
  <2>2. QED BY <1>1, <2>1 DEF Goto, SetCall, Inv, TypeOK, Child, Call
<1>4. \A q \in Procs, u \in Threads : call'[q][u].child = call[q][u].child
  BY <1>1, <1>3 DEF Child
<1>5. \A d \in Procs \ {c} : InCall(d) => InCall(d)'
  BY <1>4 DEF InCall
<1>6. ASSUME NEW d \in Procs
      PROVE  /\ HooksLead(proc'[d]) /\ Progress(proc'[d]) /\ Obedient(proc[d])'
             /\ proc'[d].st = "suspended" => proc'[d].parent # Nobody
  BY <1>1, <1>2, PropagationAssumption DEF Inv, Obedient
<1>7. ASSUME NEW d \in Procs
      PROVE  Family(d)'
  <2>1. CASE d # c
    <3>1. /\ proc[c].st \in {"suspended", "ended"} /\ c # p
          /\ proc[c].st = "ended" => r.st = "ended"
          /\ r.hooked = proc[c].hooked
          /\ proc' = [proc EXCEPT ![c] = r] /\ virtual' = virtual
      BY <1>1, <1>2
    <3>2. QED BY <1>5, <2>1, <3>1, FamilyOfOthers
  <2>2. CASE d = c
    <3>1. InCall(d)'
      BY <1>3, <2>2 DEF InCall
    <3>2. proc'[p] = proc[p]
      BY <1>1, <1>2
    <3>3. r.st \in {"suspended", "ended"}
      BY <1>1
    <3>4. QED BY <1>1, <1>2, <2>2, <3>1, <3>2, <3>3 DEF Family
  <2>3. QED BY <2>1, <2>2
<1>8. ASSUME NEW q \in Procs, NEW u \in Threads
      PROVE  CallInv(q, u)'
  <2>1. CallInv(q, u)
    BY DEF Inv
  <2>2. proc'[q].hooked = proc[q].hooked
    BY <1>1, <1>2
  <2>3. CASE q = p /\ u = t
    <3>1. c # Nobody
      BY <1>1, PropagationAssumption
    <3>2. r.asked = call[p][t].asked \/ r.st = "ended"
      BY <1>1, <2>1, <2>3, <3>1 DEF CallInv, Child
    <3>3. r.st = "ended" => ~r.asked
      BY <1>1, <2>1, <2>3, <3>1 DEF CallInv, Child
    <3>4. QED
      BY <1>1, <1>2, <1>3, <2>2, <2>3, <3>1, <3>2, <3>3 DEF CallInv
  <2>4. CASE ~(q = p /\ u = t)
    <3>1. call'[q][u] = call[q][u]
      BY <1>3, <2>4
    <3>2. CASE call[q][u].child = Nobody
      BY <2>1, <2>2, <3>1, <3>2 DEF CallInv
    <3>3. CASE call[q][u].child # Nobody
      <4>1. call[q][u].child \in Procs
        BY <3>3 DEF Inv, TypeOK, Call
      <4>2. call[q][u].child # c
        BY <1>1, <2>4, <3>3 DEF Inv, OneCreator, Child
      <4>3. proc'[call[q][u].child] = proc[call[q][u].child]
        BY <1>2, <4>1, <4>2
      <4>4. QED BY <2>1, <2>2, <3>1, <4>3 DEF CallInv
    <3>4. QED BY <3>2, <3>3
  <2>5. QED BY <2>3, <2>4
<1>9. OneCreator'
  BY <1>4 DEF Inv, OneCreator, Child
<1>10. QED BY <1>6, <1>7, <1>8, <1>9 DEF Inv

(* The hook returns, perhaps after it has resumed the child.               *)
LEMMA ReturnKeeps ==
  ASSUME Inv, TypeOK', NEW p \in Procs, NEW t \in Threads, Created(p),
         call[p][t].pc \in {"bailout", "resume"},
         NEW r, SetProc(Child(p, t), r), Return(p, t), UNCHANGED virtual,
         \/ r.st = proc[Child(p, t)].st
         \/ r.st = "base" /\ proc[Child(p, t)].st = "suspended",
         r.parent = p, r.hooked = proc[Child(p, t)].hooked,
         HooksLead(r), Progress(r), Obedient(r),
         r.st # "ended" => Botched(r) \/ Full(r),
         r.st = "suspended" => r.asked \/ "resume" \in r.failed
  PROVE  Inv'
<1>1. PICK c \in Procs : /\ c = Child(p, t) /\ c # p /\ proc[c].parent = p
                         /\ proc[c].st \in {"suspended", "ended"}
                         /\ proc[p].st = "enabled" /\ proc[p].hooked
  BY ChildOfCall
<1>2. /\ proc' = [proc EXCEPT ![c] = r]
      /\ proc'[c] = r /\ \A d \in Procs \ {c} : proc'[d] = proc[d]
  BY <1>1 DEF SetProc, Inv, TypeOK
<1>3. /\ call'[p][t] = Idle
      /\ \A q \in Procs, u \in Threads :
           q # p \/ u # t => call'[q][u] = call[q][u]
  BY DEF Return, SetCall, Inv, TypeOK
<1>4. \A d \in Procs \ {c} : InCall(d) => InCall(d)'
  BY <1>1, <1>3 DEF InCall, Child
<1>5. ASSUME NEW d \in Procs
      PROVE  /\ HooksLead(proc'[d]) /\ Progress(proc'[d]) /\ Obedient(proc[d])'
             /\ proc'[d].st = "suspended" => proc'[d].parent # Nobody
  BY <1>1, <1>2, PropagationAssumption DEF Inv, Obedient
<1>6. ASSUME NEW d \in Procs
      PROVE  Family(d)'
  <2>1. CASE d # c
    BY <1>1, <1>2, <1>4, <2>1, FamilyOfOthers, ZenonT(40)
  <2>2. CASE d = c
    <3>1. proc'[p] = proc[p]
      BY <1>1, <1>2
    <3>2. r.st \in {"suspended", "base", "ended"}
      BY <1>1
    <3>3. r.st # "ended" /\ r.failed = {} => Full(r)
      BY DEF Botched
    <3>4. QED BY <1>1, <1>2, <2>2, <3>1, <3>2, <3>3 DEF Family
  <2>3. QED BY <2>1, <2>2
<1>7. ASSUME NEW q \in Procs, NEW u \in Threads
      PROVE  CallInv(q, u)'
  <2>1. CallInv(q, u)
    BY DEF Inv
  <2>2. proc'[q].hooked = proc[q].hooked
    BY <1>1, <1>2
  <2>3. CASE q = p /\ u = t
    BY <1>3, <2>3 DEF CallInv, Idle
  <2>4. CASE ~(q = p /\ u = t)
    <3>1. call'[q][u] = call[q][u]
      BY <1>3, <2>4
    <3>2. CASE call[q][u].child = Nobody
      BY <2>1, <2>2, <3>1, <3>2 DEF CallInv
    <3>3. CASE call[q][u].child # Nobody
      <4>1. call[q][u].child \in Procs
        BY <3>3 DEF Inv, TypeOK, Call
      <4>2. call[q][u].child # c
        BY <1>1, <2>4, <3>3 DEF Inv, OneCreator, Child
      <4>3. proc'[call[q][u].child] = proc[call[q][u].child]
        BY <1>2, <4>1, <4>2
      <4>4. QED BY <2>1, <2>2, <3>1, <4>3 DEF CallInv
    <3>4. QED BY <3>2, <3>3
  <2>5. QED BY <2>3, <2>4
<1>8. OneCreator'
  <2>1. \A q \in Procs, u \in Threads :
          call'[q][u].child = Nobody \/ call'[q][u].child = call[q][u].child
    BY <1>3 DEF Idle
  <2>2. QED BY <2>1 DEF Inv, OneCreator, Child
<1>9. QED BY <1>5, <1>6, <1>7, <1>8 DEF Inv

(* Every step of the hook after the child has been created.                *)
LEMMA HookKeeps ==
  ASSUME Inv, NEW p \in Procs, NEW t \in Threads, Continue(p, t), ~CreateAsAsked(p, t)
  PROVE  Inv'
<1>1. Created(p) /\ call[p][t].pc \notin {"idle", "retry"}
  BY DEF Continue, At, OpenKexDll, OpenKexDllFails, MapRemote, MapRemoteFails,
     FindHooks, FindHooksFails, WriteNtOpenKey, WriteNtOpenKeyFails,
     WriteNtOpenKeyEx, WriteNtOpenKeyExFails, BailOut, ResumeChild, ResumeChildFails
<1>2. PICK c \in Procs : /\ c = Child(p, t) /\ c # p /\ proc[c].parent = p
                         /\ proc[c].st \in {"suspended", "ended"}
                         /\ proc[p].st = "enabled" /\ proc[p].hooked
  BY <1>1, ChildOfCall
<1>3. TypeOK'
  BY <1>2, ContinueType DEF Inv
<1> DEFINE r == proc[c]
<1>4. r \in Process /\ HooksLead(r) /\ Progress(r) /\ Obedient(r)
  BY DEF Inv, TypeOK
<1>5. /\ r.st = "suspended" => r.asked = call[p][t].asked /\ Patched(call[p][t].pc, r)
      /\ call[p][t].pc = "resume" => ~call[p][t].asked
  <2>1. CallInv(p, t) /\ call[p][t].child = c /\ c # Nobody
    BY <1>2, PropagationAssumption DEF Inv, Child
  <2>2. QED BY <2>1 DEF CallInv
<1>6. UNCHANGED proc => SetProc(c, r)
  BY DEF Inv, TypeOK, SetProc
<1>7. ASSUME NEW n, SetProc(c, n), UNCHANGED virtual,
             NEW pc \in {"map", "mapped", "write", "writeex", "bailout", "resume"},
             Goto(p, t, pc), pc = "resume" => ~call[p][t].asked,
             n.st = r.st, n.parent = r.parent, n.hooked = r.hooked, n.asked = r.asked,
             HooksLead(n), Progress(n), Obedient(n),
             n.st = "suspended" => Patched(pc, n)
      PROVE  Inv'
  BY <1>1, <1>2, <1>3, <1>7, CallStepKeeps
<1>8. CASE OpenKexDll(p, t) \/ FindHooks(p, t)
  <2>1. PICK pc \in {"map", "write"} :
          /\ Goto(p, t, pc) /\ UNCHANGED <<proc, virtual>>
          /\ pc = "map" => call[p][t].pc = "open"
          /\ pc = "write" => call[p][t].pc = "mapped"
    BY <1>8 DEF OpenKexDll, FindHooks, At
  <2>2. r.st = "suspended" => Patched(pc, r)
    BY <1>5, <2>1 DEF Patched
  <2>3. QED BY <1>4, <1>6, <1>7, <2>1, <2>2
(* Whatever fails, the child is recorded as botched.                       *)
<1>9. ASSUME NEW s \in {"patch", "writeex"}, GiveUp(p, t, s)
      PROVE  Inv'
  <2> DEFINE n == Fail(c, s)
  <2>1. /\ n.st = r.st /\ n.key = r.key /\ n.keyex = r.keyex /\ n.temp = r.temp
        /\ n.flag = r.flag /\ n.disable = r.disable /\ n.hooked = r.hooked
        /\ n.parent = r.parent /\ n.asked = r.asked /\ n.magic = r.magic
        /\ n.failed = r.failed \cup {s}
    BY <1>4 DEF Fail, Process
  <2>2. SetProc(c, n) /\ Goto(p, t, "bailout") /\ UNCHANGED virtual
    BY <1>2, <1>9 DEF GiveUp
  <2> HIDE DEF n
  <2>3. HooksLead(n) /\ Obedient(n)
    BY <1>4, <2>1 DEF HooksLead, Obedient, Clean
  <2>4. Progress(n)
    BY <1>4, <2>1 DEF Progress, Clean, Full, Botched
  <2>5. Patched("bailout", n)
    BY <2>1 DEF Patched, Botched
  <2>6. QED BY <1>7, <2>1, <2>2, <2>3, <2>4, <2>5
<1>10. CASE \/ OpenKexDllFails(p, t) \/ MapRemoteFails(p, t) \/ FindHooksFails(p, t)
            \/ WriteNtOpenKeyFails(p, t) \/ WriteNtOpenKeyExFails(p, t)
  BY <1>9, <1>10 DEF OpenKexDllFails, MapRemoteFails, FindHooksFails,
     WriteNtOpenKeyFails, WriteNtOpenKeyExFails
<1>11. CASE MapRemote(p, t)
  <2> DEFINE n == [r EXCEPT !.temp = TRUE]
  <2>1. /\ r.st = "suspended" /\ call[p][t].pc = "map" /\ SetProc(c, n)
        /\ Goto(p, t, "mapped") /\ UNCHANGED virtual
    BY <1>2, <1>11 DEF MapRemote, At, Alive
  <2>2. /\ n.st = r.st /\ n.key = r.key /\ n.keyex = r.keyex /\ n.temp
        /\ n.flag = r.flag /\ n.disable = r.disable /\ n.hooked = r.hooked
        /\ n.parent = r.parent /\ n.asked = r.asked /\ n.magic = r.magic
        /\ n.failed = r.failed
    BY <1>4 DEF Process
  <2> HIDE DEF n
  <2>3. HooksLead(n) /\ Obedient(n) /\ Progress(n) /\ Patched("mapped", n)
    BY <1>4, <1>5, <2>1, <2>2 DEF HooksLead, Obedient, Progress, Patched, Clean
  <2>4. QED BY <1>7, <2>1, <2>2, <2>3
<1>12. CASE WriteNtOpenKey(p, t)
  <2> DEFINE n == [r EXCEPT !.key = HookTemplate]
  <2>1. /\ r.st = "suspended" /\ call[p][t].pc = "write" /\ SetProc(c, n)
        /\ Goto(p, t, "writeex") /\ UNCHANGED virtual
    BY <1>2, <1>12 DEF WriteNtOpenKey, At, Alive
  <2>2. /\ n.st = r.st /\ n.key = HookTemplate /\ n.keyex = r.keyex /\ n.temp = r.temp
        /\ n.flag = r.flag /\ n.disable = r.disable /\ n.hooked = r.hooked
        /\ n.parent = r.parent /\ n.asked = r.asked /\ n.magic = r.magic
        /\ n.failed = r.failed
    BY <1>4 DEF Process
  <2> HIDE DEF n
  <2>3. HooksLead(n) /\ Obedient(n) /\ Progress(n) /\ Patched("writeex", n)
    BY <1>4, <1>5, <2>1, <2>2, Templates
       DEF HooksLead, Obedient, Progress, Patched, Clean
  <2>4. QED BY <1>7, <2>1, <2>2, <2>3
<1>13. CASE WriteNtOpenKeyEx(p, t)
  <2> DEFINE n == [r EXCEPT !.keyex = HookTemplate]
  <2>1. /\ r.st = "suspended" /\ call[p][t].pc = "writeex" /\ SetProc(c, n)
        /\ Goto(p, t, "bailout") /\ UNCHANGED virtual
    BY <1>2, <1>13 DEF WriteNtOpenKeyEx, At, Alive
  <2>2. /\ n.st = r.st /\ n.key = r.key /\ n.keyex = HookTemplate /\ n.temp = r.temp
        /\ n.flag = r.flag /\ n.disable = r.disable /\ n.hooked = r.hooked
        /\ n.parent = r.parent /\ n.asked = r.asked /\ n.magic = r.magic
        /\ n.failed = r.failed
    BY <1>4 DEF Process
  <2> HIDE DEF n
  <2>3. HooksLead(n) /\ Obedient(n) /\ Progress(n) /\ Patched("bailout", n)
    BY <1>4, <1>5, <2>1, <2>2, Templates
       DEF HooksLead, Obedient, Progress, Patched, Clean, Full
  <2>4. QED BY <1>7, <2>1, <2>2, <2>3
(* The hook returns from BailOut or after NtResumeThread.                  *)
<1>14. ASSUME NEW n, SetProc(c, n), Return(p, t), UNCHANGED virtual,
              call[p][t].pc \in {"bailout", "resume"},
              n.st = r.st \/ (n.st = "base" /\ r.st = "suspended"),
              n.parent = r.parent, n.hooked = r.hooked,
              HooksLead(n), Progress(n), Obedient(n),
              n.st # "ended" => Botched(n) \/ Full(n),
              n.st = "suspended" => n.asked \/ "resume" \in n.failed
       PROVE  Inv'
  BY <1>1, <1>2, <1>3, <1>14, ReturnKeeps
<1>15. call[p][t].pc \in {"bailout", "resume"} /\ r.st = "suspended" => Botched(r) \/ Full(r)
  BY <1>5 DEF Patched
<1>16. CASE BailOut(p, t)
  <2>1. call[p][t].pc = "bailout" /\ UNCHANGED <<proc, virtual>> /\ SetProc(c, r)
    BY <1>6, <1>16 DEF BailOut, At
  <2>2. CASE call[p][t].asked
    <3>1. Return(p, t)
      BY <1>16, <2>2 DEF BailOut
    <3>2. r.st = "suspended" => r.asked
      BY <1>5, <2>2
    <3>3. r.st # "ended" => Botched(r) \/ Full(r)
      BY <1>2, <1>15, <2>1
    <3>4. QED BY <1>4, <1>14, <2>1, <3>1, <3>2, <3>3
  <2>3. CASE ~call[p][t].asked
    <3>1. Goto(p, t, "resume")
      BY <1>16, <2>3 DEF BailOut
    <3>2. r.st = "suspended" => Patched("resume", r)
      BY <1>15, <2>1 DEF Patched
    <3>3. QED BY <1>4, <1>7, <2>1, <2>3, <3>1, <3>2
  <2>4. QED BY <2>2, <2>3
<1>17. CASE ResumeChild(p, t)
  <2> DEFINE n == [r EXCEPT !.st = IF r.st = "suspended" THEN "base" ELSE r.st]
  <2>1. /\ call[p][t].pc = "resume" /\ SetProc(c, n) /\ Return(p, t) /\ UNCHANGED virtual
    BY <1>2, <1>17 DEF ResumeChild, At
  <2>2. /\ n.st = IF r.st = "suspended" THEN "base" ELSE r.st
        /\ n.key = r.key /\ n.keyex = r.keyex /\ n.temp = r.temp
        /\ n.flag = r.flag /\ n.disable = r.disable /\ n.hooked = r.hooked
        /\ n.parent = r.parent /\ n.magic = r.magic /\ n.failed = r.failed
    BY <1>4 DEF Process
  <2> HIDE DEF n
  <2>3. (n.st = "ended" /\ r.st = "ended") \/ (n.st = "base" /\ r.st = "suspended")
    BY <1>2, <2>2
  <2>4. HooksLead(n) /\ Obedient(n)
    BY <1>4, <2>2, <2>3 DEF HooksLead, Obedient, Clean
  <2>5. n.st = "base" => Botched(n) \/ Full(n)
    BY <1>15, <2>1, <2>2, <2>3 DEF Botched, Full
  <2>6. Progress(n)
    BY <1>4, <2>2, <2>3, <2>5 DEF Progress
  <2>7. QED BY <1>14, <2>1, <2>2, <2>3, <2>4, <2>5, <2>6
<1>18. CASE ResumeChildFails(p, t)
  <2> DEFINE n == Fail(c, "resume")
  <2>1. /\ call[p][t].pc = "resume" /\ SetProc(c, n) /\ Return(p, t) /\ UNCHANGED virtual
    BY <1>2, <1>18 DEF ResumeChildFails, At
  <2>2. /\ n.st = r.st /\ n.key = r.key /\ n.keyex = r.keyex /\ n.temp = r.temp
        /\ n.flag = r.flag /\ n.disable = r.disable /\ n.hooked = r.hooked
        /\ n.parent = r.parent /\ n.magic = r.magic
        /\ n.failed = r.failed \cup {"resume"}
    BY <1>4 DEF Fail, Process
  <2> HIDE DEF n
  <2>3. HooksLead(n) /\ Obedient(n)
    BY <1>4, <2>2 DEF HooksLead, Obedient, Clean
  <2>4. n.st # "ended" => Botched(n) \/ Full(n)
    BY <1>2, <1>15, <2>1, <2>2 DEF Botched, Full
  <2>5. Progress(n)
    BY <1>4, <2>2 DEF Progress, Clean, Full, Botched
  <2>6. QED BY <1>14, <2>1, <2>2, <2>3, <2>4, <2>5
<1>19. QED
  BY <1>8, <1>10, <1>11, <1>12, <1>13, <1>16, <1>17, <1>18, Zenon DEF Continue

-----------------------------------------------------------------------------
(* The creation of a process, of which nobody has heard before.            *)
LEMMA NewChildKeeps ==
  ASSUME Inv, TypeOK', NEW p \in Procs, NEW t \in Threads, NEW c \in Procs,
         proc[p].st \in {"plain", "enabled"}, proc[c].st = "none",
         NEW n, SetProc(c, n), UNCHANGED virtual,
         n.st \in {"suspended", "base"}, Clean(n), n.parent = p,
         ~n.flag, ~n.magic, ~n.hooked, "restore" \notin n.failed,
         NEW k, SetCall(p, t, k), call[p][t].pc \in {"idle", "retry"},
         \/ k = call[p][t] \/ k = Idle
         \/ /\ k.pc = "open" /\ k.child = c /\ k.asked = n.asked
            /\ proc[p].hooked /\ n.st = "suspended",
         proc[p].hooked /\ n.failed = {} => n.st = "suspended" /\ k.child = c,
         n.st = "suspended" => n.asked \/ k.child = c
  PROVE  Inv'
<1>1. /\ proc'[c] = n /\ \A d \in Procs \ {c} : proc'[d] = proc[d]
      /\ c # p /\ c # Nobody /\ proc'[p] = proc[p]
  BY PropagationAssumption DEF SetProc, Inv, TypeOK
<1>2. /\ call'[p][t] = k
      /\ \A q \in Procs, u \in Threads : q # p \/ u # t => call'[q][u] = call[q][u]
  BY DEF SetCall, Inv, TypeOK
<1>3. ~proc[c].hooked
  BY DEF Inv, Obedient
<1>4. call[p][t].child = Nobody
  BY DEF Inv, CallInv
<1>5. \A q \in Procs, u \in Threads : call[q][u].child # c
  <2> SUFFICES ASSUME NEW q \in Procs, NEW u \in Threads
               PROVE  call[q][u].child # c
    OBVIOUS
  <2>1. CallInv(q, u)
    BY DEF Inv
  <2>2. QED BY <1>1, <2>1 DEF CallInv
<1>6. k.child \in {Nobody, c}
  BY <1>4 DEF Idle
<1>7. /\ k.child = c => InCall(c)'
      /\ \A d \in Procs : InCall(d) => InCall(d)'
  BY <1>2, <1>4, PropagationAssumption DEF InCall
<1>8. ASSUME NEW d \in Procs
      PROVE  /\ HooksLead(proc'[d]) /\ Progress(proc'[d]) /\ Obedient(proc[d])'
             /\ proc'[d].st = "suspended" => proc'[d].parent # Nobody
  <2>1. CASE d = c
    <3>1. /\ n.st \in {"suspended", "base"} /\ Clean(n) /\ n.parent # Nobody
          /\ ~n.flag /\ ~n.magic /\ ~n.hooked /\ "restore" \notin n.failed
      BY PropagationAssumption
    <3>2. QED
      BY <1>1, <2>1, <3>1, Templates DEF HooksLead, Progress, Obedient, Clean
  <2>2. CASE d # c
    BY <1>1, <2>2 DEF Inv, Obedient
  <2>3. QED BY <2>1, <2>2
<1>9. ASSUME NEW d \in Procs
      PROVE  Family(d)'
  <2>1. CASE d = c
    <3>1. ~Touched(n)
      BY DEF Touched, Clean
    <3>2. n.st = "suspended" /\ ~InCall(d)' =>
            n.asked /\ ~(proc[p].hooked /\ n.failed = {})
      BY <1>7, <2>1
    <3>3. QED BY <1>1, <2>1, <1>7, <3>1, <3>2 DEF Family
  <2>2. CASE d # c
    <3> SUFFICES ASSUME proc'[d].parent # Nobody
                 PROVE  Family(d)'
      BY DEF Family
    <3>1. proc'[d] = proc[d] /\ Family(d)
      BY <1>1, <2>2 DEF Inv
    <3>2. proc[d].parent \in Procs \ {c}
      BY <3>1, ParentKnown DEF Inv, Family
    <3>3. QED BY <1>1, <1>7, <3>1, <3>2 DEF Family
  <2>3. QED BY <2>1, <2>2
<1>10. ASSUME NEW q \in Procs, NEW u \in Threads
       PROVE  CallInv(q, u)'
  <2>1. CallInv(q, u)
    BY DEF Inv
  <2>2. proc[q].hooked => proc'[q].hooked
    BY <1>1, <1>3
  <2>3. CASE q = p /\ u = t
    <3>1. CASE k = call[p][t] \/ k = Idle
      BY <1>2, <1>4, <2>1, <2>2, <2>3, <3>1 DEF CallInv, Idle
    <3>2. CASE ~(k = call[p][t] \/ k = Idle)
      <4>1. Patched("open", n)
        BY DEF Patched
      <4>2. QED BY <1>1, <1>2, <2>3, <3>2, <4>1 DEF CallInv
    <3>3. QED BY <3>1, <3>2
  <2>4. CASE ~(q = p /\ u = t)
    <3>1. call'[q][u] = call[q][u]
      BY <1>2, <2>4
    <3>2. CASE call[q][u].child = Nobody
      BY <2>1, <2>2, <3>1, <3>2 DEF CallInv
    <3>3. CASE call[q][u].child # Nobody
      <4>1. call[q][u].child \in Procs \ {c}
        BY <1>5, <3>3 DEF Inv, TypeOK, Call
      <4>2. proc'[call[q][u].child] = proc[call[q][u].child]
        BY <1>1, <4>1
      <4>3. QED BY <2>1, <2>2, <3>1, <4>2 DEF CallInv
    <3>4. QED BY <3>2, <3>3
  <2>5. QED BY <2>3, <2>4
<1>11. OneCreator'
  <2> SUFFICES ASSUME NEW q \in Procs, NEW u \in Threads,
                      NEW q2 \in Procs, NEW u2 \in Threads,
                      call'[q][u].child = call'[q2][u2].child, call'[q][u].child # Nobody
               PROVE  q = q2 /\ u = u2
    BY DEF OneCreator, Child
  <2>1. /\ call'[q][u].child = call[q][u].child \/ (q = p /\ u = t /\ call'[q][u].child = c)
        /\ call'[q2][u2].child = call[q2][u2].child \/ (q2 = p /\ u2 = t /\ call'[q2][u2].child = c)
    BY <1>2, <1>4, <1>6
  <2>2. QED BY <1>5, <2>1 DEF Inv, OneCreator, Child
<1>12. QED BY <1>8, <1>9, <1>10, <1>11 DEF Inv

(* NtCreateUserProcess fails, once or twice.                               *)
LEMMA FailedCallKeeps ==
  ASSUME Inv, TypeOK', NEW p \in Procs, NEW t \in Threads,
         call[p][t].pc \in {"idle", "retry"}, proc[p].hooked,
         NEW k, SetCall(p, t, k), UNCHANGED <<proc, virtual>>,
         k.pc \in {"idle", "retry"}, k.child = Nobody
  PROVE  Inv'
<1>1. /\ call'[p][t] = k
      /\ \A q \in Procs, u \in Threads : q # p \/ u # t => call'[q][u] = call[q][u]
  BY DEF SetCall, Inv, TypeOK
<1>2. call[p][t].child = Nobody
  BY DEF Inv, CallInv
<1>3. \A q \in Procs, u \in Threads : call'[q][u].child = call[q][u].child
  BY <1>1, <1>2
<1>4. \A d \in Procs : InCall(d) => InCall(d)'
  BY <1>3 DEF InCall
<1>5. ASSUME NEW d \in Procs
      PROVE  /\ HooksLead(proc'[d]) /\ Progress(proc'[d]) /\ Obedient(proc[d])'
             /\ proc'[d].st = "suspended" => proc'[d].parent # Nobody
             /\ Family(d)'
  <2>1. Family(d) /\ Obedient(proc[d])
    BY DEF Inv
  <2>2. Family(d)'
    BY <1>4, <2>1 DEF Family
  <2>3. QED BY <2>1, <2>2 DEF Inv, Obedient
<1>6. ASSUME NEW q \in Procs, NEW u \in Threads
      PROVE  CallInv(q, u)'
  <2>1. CallInv(q, u)
    BY DEF Inv
  <2>2. CASE q = p /\ u = t
    BY <1>1, <2>2 DEF CallInv
  <2>3. CASE ~(q = p /\ u = t)
    BY <1>1, <2>1, <2>3 DEF CallInv
  <2>4. QED BY <2>2, <2>3
<1>7. OneCreator'
  BY <1>3 DEF Inv, OneCreator, Child
<1>8. QED BY <1>5, <1>6, <1>7 DEF Inv

LEMMA CreationKeeps ==
  ASSUME Inv, NEW p \in Procs, NEW t \in Threads,
         CreateUserProcess(p, t) \/ CreateAsAsked(p, t)
  PROVE  Inv'
<1>1. CallInv(p, t) /\ Obedient(proc[p]) /\ call[p][t] \in Call
  BY DEF Inv, TypeOK
<1>2. call[p][t].pc \in {"idle", "retry"}
  BY DEF CreateUserProcess, CreateUnhooked, CreateSuspended, CreateSuspendedFails,
     CreateAsAsked, At
<1>3. TypeOK'
  <2>1. CASE CreateUserProcess(p, t)
    BY <2>1, CreateUserProcessType DEF Inv
  <2>2. CASE CreateAsAsked(p, t)
    <3>1. Continue(p, t)
      BY <2>2 DEF Continue
    <3>2. QED BY <1>2, <3>1, ContinueType DEF Inv
  <2>3. QED BY <2>1, <2>2
<1>4. SetCall(p, t, call[p][t]) <=> UNCHANGED call
  BY DEF SetCall, Inv, TypeOK
<1>5. CASE CreateUnhooked(p, t)
  <2>1. PICK c \in Procs, asked \in BOOLEAN : Create(p, c, asked, asked, {})
    BY <1>5 DEF CreateUnhooked
  <2> DEFINE n == [NewProcess(p, c, asked, asked) EXCEPT !.failed = {}]
  <2>2. /\ proc[p].st \in {"plain", "enabled"} /\ ~proc[p].hooked
        /\ UNCHANGED virtual /\ SetCall(p, t, call[p][t])
    BY <1>4, <1>5 DEF CreateUnhooked, Running
  <2>3. proc[c].st = "none" /\ SetProc(c, n)
    BY <2>1 DEF Create
  <2>4. /\ n.st = IF asked THEN "suspended" ELSE "base"
        /\ Clean(n) /\ n.parent = p /\ n.asked = asked
        /\ ~n.flag /\ ~n.magic /\ ~n.hooked /\ "restore" \notin n.failed
    BY DEF NewProcess, NoProcess, Clean
  <2> HIDE DEF n
  <2>5. QED BY <1>2, <1>3, <2>2, <2>3, <2>4, NewChildKeeps
<1>6. CASE CreateSuspended(p, t)
  <2>1. PICK c \in Procs, asked \in BOOLEAN :
          /\ Create(p, c, asked, TRUE, {})
          /\ SetCall(p, t, [pc |-> "open", child |-> c, asked |-> asked])
    BY <1>6 DEF CreateSuspended
  <2> DEFINE n == [NewProcess(p, c, asked, TRUE) EXCEPT !.failed = {}]
             k == [pc |-> "open", child |-> c, asked |-> asked]
  <2>2. /\ proc[p].st \in {"plain", "enabled"} /\ proc[p].hooked
        /\ UNCHANGED virtual /\ SetCall(p, t, k)
    BY <1>6, <2>1 DEF CreateSuspended, Running
  <2>3. proc[c].st = "none" /\ SetProc(c, n)
    BY <2>1 DEF Create
  <2>4. /\ n.st = "suspended"
        /\ Clean(n) /\ n.parent = p /\ n.asked = asked
        /\ ~n.flag /\ ~n.magic /\ ~n.hooked /\ "restore" \notin n.failed
    BY DEF NewProcess, NoProcess, Clean
  <2>5. k.pc = "open" /\ k.child = c /\ k.asked = asked
    OBVIOUS
  <2> HIDE DEF n, k
  <2>6. QED BY <1>2, <1>3, <2>2, <2>3, <2>4, <2>5, NewChildKeeps
<1>7. CASE CreateSuspendedFails(p, t)
  <2>1. PICK asked \in BOOLEAN :
          SetCall(p, t, [pc |-> "retry", child |-> Nobody, asked |-> asked])
    BY <1>7 DEF CreateSuspendedFails
  <2> DEFINE k == [pc |-> "retry", child |-> Nobody, asked |-> asked]
  <2>2. proc[p].hooked /\ UNCHANGED <<proc, virtual>> /\ SetCall(p, t, k)
    BY <1>7, <2>1 DEF CreateSuspendedFails
  <2>3. k.pc = "retry" /\ k.child = Nobody
    OBVIOUS
  <2> HIDE DEF k
  <2>4. QED BY <1>2, <1>3, <2>2, <2>3, FailedCallKeeps
<1>8. CASE CreateAsAsked(p, t)
  <2>1. /\ call[p][t].pc = "retry" /\ Created(p)
        /\ SetCall(p, t, Idle) /\ UNCHANGED virtual
    BY <1>8 DEF CreateAsAsked, At, Return
  <2>2. proc[p].hooked /\ proc[p].st = "enabled"
    BY <1>1, <2>1 DEF CallInv, Obedient, Created
  <2>3. Idle.pc = "idle" /\ Idle.child = Nobody
    BY DEF Idle
  <2>4. CASE UNCHANGED proc
    BY <1>2, <1>3, <2>1, <2>2, <2>3, <2>4, FailedCallKeeps
  <2>5. PICK asked \in BOOLEAN : asked = call[p][t].asked
    BY <1>1 DEF Call
  <2>6. ASSUME NEW c \in Procs, Create(p, c, asked, asked, {"create"})
        PROVE  Inv'
    <3> DEFINE n == [NewProcess(p, c, asked, asked) EXCEPT !.failed = {"create"}]
    <3>1. proc[c].st = "none" /\ SetProc(c, n)
      BY <2>6 DEF Create
    <3>2. /\ n.st = IF asked THEN "suspended" ELSE "base"
          /\ Clean(n) /\ n.parent = p /\ n.asked = asked /\ n.failed # {}
          /\ ~n.flag /\ ~n.magic /\ ~n.hooked /\ "restore" \notin n.failed
      BY DEF NewProcess, NoProcess, Clean
    <3> HIDE DEF n
    <3>3. QED BY <1>2, <1>3, <2>1, <2>2, <3>1, <3>2, NewChildKeeps
  <2>7. QED BY <1>8, <2>4, <2>5, <2>6 DEF CreateAsAsked
<1>9. QED BY <1>5, <1>6, <1>7, <1>8 DEF CreateUserProcess

-----------------------------------------------------------------------------
(* A process ends with its calls; its children are on their own.           *)
LEMMA EndKeeps ==
  ASSUME Inv, NEW p \in Procs, End(p)
  PROVE  Inv'
<1> DEFINE r == proc[p]
<1>1. TypeOK' /\ r \in Process
  BY EnvironmentType DEF Inv, TypeOK
<1>2. PICK n : /\ SetProc(p, n) /\ n.st = "ended" /\ Clean(n)
               /\ n.parent = r.parent /\ n.hooked = r.hooked
               /\ n.disable = r.disable /\ n.flag = r.flag /\ n.failed = r.failed
               /\ ~n.asked
  <2> DEFINE m == [NoProcess EXCEPT !.st = "ended", !.parent = proc[p].parent,
                     !.hooked = proc[p].hooked, !.disable = proc[p].disable,
                     !.flag = proc[p].flag, !.failed = proc[p].failed]
  <2>1. /\ m.st = "ended" /\ Clean(m)
        /\ m.parent = r.parent /\ m.hooked = r.hooked
        /\ m.disable = r.disable /\ m.flag = r.flag /\ m.failed = r.failed
        /\ ~m.asked
    BY DEF NoProcess, Clean
  <2>2. SetProc(p, m)
    BY DEF End
  <2> HIDE DEF m
  <2>3. QED BY <2>1, <2>2
<1>3. proc'[p] = n /\ \A d \in Procs \ {p} : proc'[d] = proc[d]
  BY <1>2 DEF SetProc, Inv, TypeOK
<1>4. /\ \A t \in Threads : call'[p][t] = Idle
      /\ \A q \in Procs \ {p}, u \in Threads : call'[q][u] = call[q][u]
      /\ UNCHANGED virtual
  BY DEF End, Inv, TypeOK
<1>5. HooksLead(n) /\ Progress(n) /\ Obedient(n)
  <2>1. HooksLead(r) /\ Obedient(r)
    BY DEF Inv
  <2>2. QED BY <1>2, <2>1, Templates DEF HooksLead, Progress, Obedient, Clean
<1>6. ASSUME NEW d \in Procs
      PROVE  /\ HooksLead(proc'[d]) /\ Progress(proc'[d]) /\ Obedient(proc[d])'
             /\ proc'[d].st = "suspended" => proc'[d].parent # Nobody
  <2>1. CASE d = p
    BY <1>2, <1>3, <1>4, <1>5, <2>1 DEF Obedient
  <2>2. CASE d # p
    BY <1>3, <1>4, <2>2 DEF Inv, Obedient
  <2>3. QED BY <2>1, <2>2
<1>7. ASSUME NEW d \in Procs
      PROVE  Family(d)'
  <2> SUFFICES ASSUME proc'[d].parent # Nobody
               PROVE  Family(d)'
    BY DEF Family
  <2>1. Family(d) /\ proc'[d].parent = proc[d].parent /\ proc[d].parent \in Procs
    BY <1>2, <1>3, ParentKnown DEF Inv
  <2>2. /\ proc'[proc[d].parent].hooked = proc[proc[d].parent].hooked
        /\ proc'[proc[d].parent].st \in {proc[proc[d].parent].st, "ended"}
    BY <1>2, <1>3, <2>1
  <2>3. CASE d = p
    <3>1. ~Touched(n)
      BY <1>2 DEF Clean, Touched
    <3>2. QED BY <1>2, <1>3, <2>1, <2>2, <2>3, <3>1 DEF Family
  <2>4. CASE d # p
    <3>1. proc'[d] = proc[d]
      BY <1>3, <2>4
(* Its creator's call has gone only when the creator has.                  *)
    <3>2. proc[d].st = "suspended" /\ proc'[proc[d].parent].st # "ended" =>
            (InCall(d) => InCall(d)')
      <4> SUFFICES ASSUME proc'[proc[d].parent].st # "ended", InCall(d)
                   PROVE  InCall(d)'
        OBVIOUS
      <4>1. PICK q \in Procs, u \in Threads : call[q][u].child = d
        BY DEF InCall
      <4>2. proc[d].parent = q
        <5>1. CallInv(q, u)
          BY DEF Inv
        <5>2. QED BY <4>1, <5>1, PropagationAssumption DEF CallInv
      <4>3. q # p
        BY <1>2, <1>3, <4>2
      <4>4. QED BY <1>4, <4>1, <4>3 DEF InCall
    <3>3. QED BY <1>4, <2>1, <2>2, <3>1, <3>2 DEF Family
  <2>5. QED BY <2>3, <2>4
<1>8. ASSUME NEW q \in Procs, NEW u \in Threads
      PROVE  CallInv(q, u)'
  <2>1. CASE q = p
    BY <1>4, <2>1 DEF CallInv, Idle
  <2>2. CASE q # p
    <3>1. CallInv(q, u) /\ call'[q][u] = call[q][u] /\ proc'[q] = proc[q]
      BY <1>3, <1>4, <2>2 DEF Inv
    <3>2. CASE call[q][u].child = p
      BY <1>2, <1>3, <3>1, <3>2 DEF CallInv
    <3>3. CASE call[q][u].child = Nobody
      BY <3>1, <3>3 DEF CallInv
    <3>4. CASE call[q][u].child \in Procs \ {p}
      <4>1. proc'[call[q][u].child] = proc[call[q][u].child]
        BY <1>3, <3>4
      <4>2. QED BY <3>1, <4>1 DEF CallInv
    <3>5. QED BY <3>2, <3>3, <3>4 DEF Inv, TypeOK, Call
  <2>3. QED BY <2>1, <2>2
<1>9. OneCreator'
  <2>1. \A q \in Procs, u \in Threads :
          call'[q][u].child = Nobody \/ call'[q][u].child = call[q][u].child
    BY <1>4 DEF Idle
  <2>2. QED BY <2>1 DEF Inv, OneCreator, Child
<1>10. QED BY <1>1, <1>6, <1>7, <1>8, <1>9 DEF Inv

(* The caller who asked for a suspended thread resumes it.                 *)
LEMMA ResumedKeeps ==
  ASSUME Inv, NEW p \in Procs, ProgramResumes(p)
  PROVE  Inv'
<1> DEFINE r == proc[p]
           n == [r EXCEPT !.st = "base"]
<1>1. TypeOK' /\ r \in Process
  BY EnvironmentType DEF Inv, TypeOK
<1>2. /\ r.st = "suspended" /\ ~InCall(p) /\ proc[r.parent].st # "ended"
      /\ SetProc(p, n) /\ UNCHANGED <<call, virtual>>
  BY DEF ProgramResumes
<1>3. /\ n.st = "base" /\ n.key = r.key /\ n.keyex = r.keyex /\ n.temp = r.temp
      /\ n.flag = r.flag /\ n.disable = r.disable /\ n.hooked = r.hooked
      /\ n.parent = r.parent /\ n.failed = r.failed /\ n.magic = r.magic
  BY <1>1 DEF Process
<1>4. HooksLead(r) /\ Progress(r) /\ Obedient(r) /\ r.parent # Nobody /\ Family(p)
  BY <1>2 DEF Inv
<1>5. /\ Botched(r) \/ Clean(r) \/ Full(r)
      /\ proc[r.parent].hooked /\ r.failed = {} => Full(r)
  BY <1>2, <1>4 DEF Family
<1> HIDE DEF n
<1>6. HooksLead(n) /\ Obedient(n)
  BY <1>2, <1>3, <1>4 DEF HooksLead, Obedient, Clean
<1>7. Progress(n)
  <2>1. Botched(n) \/ Clean(n) \/ Full(n)
    BY <1>3, <1>5 DEF Botched, Clean, Full
  <2>2. QED BY <1>2, <1>3, <1>4, <2>1 DEF Progress
<1>8. proc'[p] = n /\ \A d \in Procs \ {p} : proc'[d] = proc[d]
  BY <1>2 DEF SetProc, Inv, TypeOK
<1>9. ASSUME NEW d \in Procs
      PROVE  /\ HooksLead(proc'[d]) /\ Progress(proc'[d]) /\ Obedient(proc[d])'
             /\ proc'[d].st = "suspended" => proc'[d].parent # Nobody
  BY <1>2, <1>3, <1>4, <1>6, <1>7, <1>8 DEF Inv, Obedient
<1>10. ASSUME NEW d \in Procs
       PROVE  Family(d)'
  <2> SUFFICES ASSUME proc'[d].parent # Nobody
               PROVE  Family(d)'
    BY DEF Family
  <2>1. Family(d) /\ proc'[d].parent = proc[d].parent /\ proc[d].parent \in Procs
    BY <1>3, <1>8, ParentKnown DEF Inv
  <2>2. proc'[proc[d].parent] = proc[proc[d].parent]
    BY <1>2, <1>8, <2>1 DEF Family
  <2>3. CASE d = p
    BY <1>3, <1>5, <1>8, <2>1, <2>2, <2>3 DEF Family, Touched, Full
  <2>4. CASE d # p
    BY <1>2, <1>8, <2>1, <2>2, <2>4 DEF Family, InCall
  <2>5. QED BY <2>3, <2>4
<1>11. ASSUME NEW q \in Procs, NEW u \in Threads
       PROVE  CallInv(q, u)'
  <2>1. CallInv(q, u) /\ call' = call /\ proc'[q].hooked = proc[q].hooked
    BY <1>2, <1>3, <1>8 DEF Inv
  <2>2. CASE call[q][u].child = Nobody
    BY <2>1, <2>2 DEF CallInv
  <2>3. CASE call[q][u].child # Nobody
    <3>1. call[q][u].child \in Procs \ {p}
      BY <1>2, <2>3 DEF Inv, TypeOK, Call, InCall
    <3>2. proc'[call[q][u].child] = proc[call[q][u].child]
      BY <1>8, <3>1
    <3>3. QED BY <2>1, <3>2 DEF CallInv
  <2>4. QED BY <2>2, <2>3
<1>12. OneCreator'
  BY <1>2 DEF Inv, OneCreator, Child
<1>13. QED BY <1>1, <1>9, <1>10, <1>11, <1>12 DEF Inv

-----------------------------------------------------------------------------
LEMMA InitInv == Init => Inv
<1> SUFFICES ASSUME Init
             PROVE  Inv
  OBVIOUS
<1> DEFINE first == [NoProcess EXCEPT !.st = "base"]
<1>1. NoProcess \in Process /\ first \in Process
  BY NoProcessType DEF Process, States
<1>2. /\ \A p \in Procs : proc[p] \in {NoProcess, first}
      /\ \A p \in Procs, t \in Threads : call[p][t] = Idle
  BY DEF Init
<1>3. TypeOK
  <2>1. proc \in [Procs -> Process]
    <3> HIDE DEF first
    <3>1. proc = [p \in Procs |-> IF p = Root THEN first ELSE NoProcess]
      BY DEF Init, first
    <3>2. QED BY <1>1, <3>1
  <2>2. call \in [Procs -> [Threads -> Call]]
    <3>1. Idle \in Call
      BY DEF Idle, Call, CallSteps
    <3>2. QED BY <3>1 DEF Init
  <2>3. QED BY <2>1, <2>2 DEF Init, TypeOK
<1>4. \A r \in {NoProcess, first} :
        /\ r.st \in {"none", "base"} /\ Clean(r) /\ r.parent = Nobody
        /\ ~r.flag /\ ~r.magic /\ ~r.hooked /\ "restore" \notin r.failed
  BY DEF NoProcess, Clean
<1>5. ASSUME NEW p \in Procs
      PROVE  /\ HooksLead(proc[p]) /\ Progress(proc[p]) /\ Obedient(proc[p])
             /\ proc[p].st # "suspended" /\ Family(p)
  <2>1. PICK r : /\ r = proc[p] /\ r.st \in {"none", "base"} /\ Clean(r)
                 /\ r.parent = Nobody /\ ~r.flag /\ ~r.magic /\ ~r.hooked
                 /\ "restore" \notin r.failed
    BY <1>2, <1>4
  <2>2. HooksLead(r) /\ Progress(r) /\ Obedient(r)
    BY <2>1, Templates DEF HooksLead, Progress, Obedient, Clean
  <2>3. QED BY <2>1, <2>2 DEF Family
<1>6. ASSUME NEW p \in Procs, NEW t \in Threads
      PROVE  CallInv(p, t)
  BY <1>2 DEF CallInv, Idle
<1>7. OneCreator
  BY <1>2 DEF OneCreator, Child, Idle
<1>8. QED BY <1>3, <1>5, <1>6, <1>7 DEF Inv

LEMMA NextInv == Inv /\ [Next]_vars => Inv'
<1> SUFFICES ASSUME Inv, [Next]_vars
             PROVE  Inv'
  OBVIOUS
<1>1. ASSUME NEW p \in Procs, Start(p)
      PROVE  Inv'
  BY <1>1, LoaderKeeps, KexDllKeeps, Zenon DEF Start
<1>2. ASSUME NEW p \in Procs, ProgramResumes(p) \/ End(p)
      PROVE  Inv'
  BY <1>2, ResumedKeeps, EndKeeps
<1>3. ASSUME NEW p \in Procs, NEW t \in Threads,
             CreateUserProcess(p, t) \/ Continue(p, t)
      PROVE  Inv'
  BY <1>3, CreationKeeps, HookKeeps
<1>4. CASE UNCHANGED vars
  BY <1>4 DEF vars, Inv, TypeOK, HooksLead, Progress, Obedient, Family, CallInv,
     InCall, Patched, OneCreator, Child
<1>5. QED
  BY <1>1, <1>2, <1>3, <1>4 DEF Next

(* The processes and the calls that work on them are consistent: how far a *)
(* child has started says what its creator did to it and what is left of   *)
(* it (propagte.c, kexdata.c).                                             *)
THEOREM ProcessesAreConsistent == Spec => []Inv
BY InitInv, NextInv, PTL DEF Spec

(* The state keeps its types, whatever fails and whoever ends              *)
(* (propagte.c, kexdata.c).                                                *)
THEOREM TypeCorrect == Spec => []TypeOK
<1>1. Inv => TypeOK
  BY DEF Inv
<1>2. QED BY <1>1, ProcessesAreConsistent, PTL

(* A hooked NtOpenKey or NtOpenKeyEx never jumps into a KexDll that is not *)
(* mapped any more, except while the two are being restored and after a    *)
(* restoration that failed (propagte.c 110-178).                           *)
THEOREM HooksNeverDangle == Spec => []NoDanglingHook
<1>1. Inv => NoDanglingHook
  <2> SUFFICES ASSUME Inv, NEW p \in Procs
               PROVE  IF "restore" \in proc[p].failed
                      THEN ~proc[p].temp
                      ELSE /\ Hooked(p) => proc[p].temp \/ proc[p].st \in {"key", "keyex"}
                           /\ proc[p].keyex # Syscall /\ proc[p].st # "keyex"
                                => proc[p].key = HookTemplate
    BY DEF NoDanglingHook
  <2>1. HooksLead(proc[p])
    BY DEF Inv
  <2>2. QED BY <2>1 DEF HooksLead, Hooked
<1>2. QED BY <1>1, ProcessesAreConsistent, PTL

(* When KexDll of a child is ready, nothing is left of the temporary view  *)
(* and of the hooks that its parent made, unless one of the steps on which *)
(* that depends failed (propagte.c 43-191).                                *)
THEOREM NothingRemains == Spec => []CleanWhenEnabled
<1>1. Inv => CleanWhenEnabled
  <2> SUFFICES ASSUME Inv, NEW p \in Procs, proc[p].st = "enabled",
                      proc[p].failed \cap {"patch", "writeex", "native", "unmap", "restore"} = {}
               PROVE  ~Hooked(p) /\ ~proc[p].temp
    BY DEF CleanWhenEnabled
  <2>1. Progress(proc[p])
    BY DEF Inv
  <2>2. Clean(proc[p])
    <3>1. /\ proc[p].failed \cap {"patch", "writeex"} = {}
          /\ proc[p].failed \cap {"native", "unmap", "restore"} = {}
      OBVIOUS
    <3>2. QED BY <2>1, <3>1 DEF Progress, Botched
  <2>3. QED BY <2>2 DEF Clean, Hooked
<1>2. QED BY <1>1, ProcessesAreConsistent, PTL

(* VxKex spreads to every child of a process that propagates, and to no    *)
(* child of a process that was told not to (propagte.c 229-284, 347-398).  *)
THEOREM SpreadsAsTold == Spec => []PropagatesAsTold
<1>1. Inv => PropagatesAsTold
  <2> SUFFICES ASSUME Inv, NEW c \in Procs, proc[c].parent # Nobody,
                      NEW p \in Procs, p = proc[c].parent
               PROVE  /\ Running(c) /\ proc[p].hooked /\ proc[c].failed = {}
                           /\ virtual # "absent"
                           => proc[c].st = "enabled"
                      /\ Hooked(c) \/ proc[c].temp
                           => /\ ~proc[p].disable
                              /\ proc[p].flag /\ virtual = "stay" => proc[p].failed # {}
    BY ParentKnown DEF PropagatesAsTold, Inv
  <2>1. Family(c) /\ Obedient(proc[p])
    BY DEF Inv
  <2>2. Running(c) /\ proc[p].hooked /\ proc[c].failed = {} /\ virtual # "absent"
          => proc[c].st = "enabled"
    BY <2>1 DEF Family, Running
  <2>3. Hooked(c) \/ proc[c].temp => Touched(proc[c])
    BY DEF Hooked, Touched
  <2>4. Touched(proc[c]) => proc[p].hooked
    BY <2>1 DEF Family
  <2>5. QED BY <2>1, <2>2, <2>3, <2>4 DEF Obedient
<1>2. QED BY <1>1, ProcessesAreConsistent, PTL

(* A child runs nothing while the hook works on it, and after that it runs *)
(* or waits as its creator asked, unless NtResumeThread failed             *)
(* (propagte.c 402-407, 660-679).                                          *)
THEOREM ChildrenStartAsAsked == Spec => []StartsAsAsked
<1>1. Inv => StartsAsAsked
  <2> SUFFICES ASSUME Inv
               PROVE  StartsAsAsked
    OBVIOUS
  <2>1. ASSUME NEW p \in Procs, NEW t \in Threads, Child(p, t) # Nobody
        PROVE  /\ proc[Child(p, t)].st \in {"suspended", "ended"}
               /\ call[p][t].pc = "resume" => ~proc[Child(p, t)].asked
    <3>1. CallInv(p, t)
      BY DEF Inv
    <3>2. QED BY <2>1, <3>1 DEF CallInv, Child
  <2>2. ASSUME NEW c \in Procs, proc[c].st = "suspended", ~InCall(c),
               proc[proc[c].parent].st # "ended"
        PROVE  proc[c].asked \/ "resume" \in proc[c].failed
    BY <2>2 DEF Inv, Family
  <2>3. QED BY <2>1, <2>2 DEF StartsAsAsked
<1>2. QED BY <1>1, ProcessesAreConsistent, PTL

=============================================================================
