---------------------------- MODULE Propagation ----------------------------
(***************************************************************************)
(* How VxKex spreads from a process to the processes it creates            *)
(* (src/KexDll/propagte.c, kexhk.c, kexdata.c).                            *)
(*                                                                         *)
(* A process that runs VxKex has NtCreateUserProcess hooked.  The hook     *)
(* creates the child suspended, maps KexDll into it and overwrites its     *)
(* NtOpenKey and NtOpenKeyEx stubs, so that the child's loader reads the   *)
(* virtual Image File Execution Options (IFEO) key and loads KexDll.  The  *)
(* KexDll of the child then removes the temporary mapping and the hooks,   *)
(* and hooks NtCreateUserProcess for the next generation.                  *)
(*                                                                         *)
(* Processes run concurrently, and several threads of a process may create *)
(* children at the same time.  Every system call may fail; a process may   *)
(* end at any moment.  The loader of NTDLL is external: it opens the IFEO  *)
(* key, then the key of the image below it, and loads KexDll when the key  *)
(* that it got says so.                                                    *)
(***************************************************************************)
EXTENDS Naturals, FiniteSets

CONSTANTS
    Procs,      \* the processes
    Root,       \* the one that the user starts with VxKex enabled
    Threads,    \* threads of each process that create processes
    Nobody,     \* not a process
    OSBits,     \* KexRtlOperatingSystemBitness(): 32 or 64
    Bits,       \* KexRtlCurrentProcessBitness() of each process
    IfeoKey,    \* the IFEO key of the image of each process
    MaxFailed,  \* bound: steps that may fail in the start of one process
    MaxEnded    \* bound: processes that end

(* An IFEO key that enables VxKex, without KEX_DisableForChild or with it. *)
KeyValues == {"absent", "spread", "stay"}

ASSUME PropagationAssumption ==
    /\ Root \in Procs
    /\ Nobody \notin Procs
    /\ OSBits \in {32, 64}
    /\ Bits \in [Procs -> {n \in {32, 64} : n <= OSBits}]
    /\ IfeoKey \in [Procs -> KeyValues] /\ IfeoKey[Root] # "absent"
    /\ MaxFailed \in Nat /\ MaxEnded \in Nat

VARIABLES
    proc,       \* proc[p]: the state of process p
    call,       \* call[p][t]: the NtCreateUserProcess call of thread t of p
    virtual     \* the key {VxKexPropagationVirtualKey} below IFEO

vars == <<proc, call, virtual>>

-----------------------------------------------------------------------------
(* Data.  A stub holds the system call or one of the two hook templates.   *)

Syscall == "syscall"
HookTemplate == IF OSBits = 64 THEN "FF 25" ELSE "68 C3"
StubValues == {Syscall, "FF 25", "68 C3"}

States == {"none",       \* not created yet
           "suspended",  \* created, initial thread suspended
           "base",       \* the loader opens the IFEO key
           "image",      \* the loader opens the key of the image
           "plain",      \* runs without VxKex
           "data",       \* KexDll is in KexDataInitialize
           "native",     \* KexInitializePropagation looks for the stubs
           "inspect",    \* KexpCleanupPropagationRemains
           "key", "keyex",  \* ... restores NtOpenKey, then NtOpenKeyEx
           "hook",       \* KexInitializePropagation after the clean-up
           "enabled",    \* runs with VxKex
           "ended"}

(* The steps of the hook, in the order of the code.                        *)
CallSteps == {"idle", "retry", "open", "map", "mapped", "write", "writeex",
              "bailout", "resume"}

Process ==
    [st      : States,
     key     : StubValues,     \* first bytes of the native NtOpenKey
     keyex   : StubValues,     \* ... of the native NtOpenKeyEx
     temp    : BOOLEAN,        \* the temporary KexDll is mapped
     missing : BOOLEAN,        \* RTL_USER_PROCESS_PARAMETERS_IMAGE_KEY_MISSING
     magic   : BOOLEAN,        \* Peb->SubSystemData = 0xB02BA295
     flag    : BOOLEAN,        \* KEXDATA_FLAG_PROPAGATED
     disable : BOOLEAN,        \* IfeoParameters.DisableForChild
     hooked  : BOOLEAN,        \* NtCreateUserProcess is hooked
     parent  : Procs \cup {Nobody},
     asked   : BOOLEAN,        \* the caller asked for a suspended thread
     failed  : SUBSET {"create", "patch", "writeex", "resume", "memory",
                       "native", "unmap", "restore"}]   \* the steps that failed

Call == [pc : CallSteps, child : Procs \cup {Nobody}, asked : BOOLEAN]

NoProcess ==
    [st |-> "none", key |-> Syscall, keyex |-> Syscall,
     temp |-> FALSE, missing |-> FALSE, magic |-> FALSE, flag |-> FALSE,
     disable |-> FALSE, hooked |-> FALSE,
     parent |-> Nobody, asked |-> FALSE, failed |-> {}]

Idle == [pc |-> "idle", child |-> Nobody, asked |-> FALSE]

(* The user starts Root from an unhooked process; its image has an IFEO    *)
(* key of its own.                                                         *)
Init ==
    /\ proc = [p \in Procs |-> IF p = Root THEN [NoProcess EXCEPT !.st = "base"]
                                ELSE NoProcess]
    /\ call = [p \in Procs |-> [t \in Threads |-> Idle]]
    /\ virtual \in KeyValues

SetProc(p, r) == proc' = [proc EXCEPT ![p] = r]
SetCall(p, t, r) == call' = [call EXCEPT ![p][t] = r]
Fail(p, step) == [proc[p] EXCEPT !.failed = @ \cup {step}]
MayFail(p) == Cardinality(proc[p].failed) < MaxFailed

Running(p) == proc[p].st \in {"plain", "enabled"}
Created(p) == proc[p].st \notin {"none", "ended"}

-----------------------------------------------------------------------------
(* The hooks on NtOpenKey and NtOpenKeyEx, in the child                    *)

(* Mutant: the magic number is not stored.                                 *)
MutantNoMagic(r) == [r EXCEPT !.missing = FALSE]

(* Mutant: the flag stays, and the loader skips the key of the image.      *)
MutantStillMissing(r) == [r EXCEPT !.magic = TRUE]

(* KexpNtOpenKeyExHook, KexpNtOpenKeyHook: whatever key is opened, the     *)
(* flag is cleared and the magic number is stored.                         *)
Marked(r) == [r EXCEPT !.missing = FALSE, !.magic = TRUE]

(* A call of one of the two functions; a hooked stub jumps into the        *)
(* temporary KexDll.                                                       *)
Stub(r, ex) == IF ex THEN r.keyex ELSE r.key
Opened(r, ex) == IF Stub(r, ex) = Syscall THEN r ELSE Marked(r)

(* The key that such a call opens for the image: the hook replaces the key *)
(* of an executable below IFEO, unless it gets no memory for the name of   *)
(* the root directory.                                                     *)
MemoryFor(p) == IF MayFail(p) THEN BOOLEAN ELSE {TRUE}
Shortage(r, ex, memory) ==
    IF Stub(r, ex) # Syscall /\ ~memory THEN {"memory"} ELSE {}
ImageKey(p, ex, memory) ==
    IF Stub(proc[p], ex) # Syscall /\ memory THEN virtual ELSE IfeoKey[p]

-----------------------------------------------------------------------------
(* The loader of a process (external).  It calls NtOpenKey or NtOpenKeyEx. *)

LoaderOpensBase(p) ==
    /\ proc[p].st = "base"
    /\ \E ex \in BOOLEAN :
         SetProc(p, [Opened(proc[p], ex) EXCEPT !.st = "image"])
    /\ UNCHANGED <<call, virtual>>

LoaderOpensImageKey(p) ==
    /\ proc[p].st = "image"
    /\ ~proc[p].missing
    /\ \E ex \in BOOLEAN, memory \in MemoryFor(p) :
         SetProc(p, [Opened(proc[p], ex) EXCEPT
                       !.st = IF ImageKey(p, ex, memory) = "absent"
                              THEN "plain" ELSE "data",
                       !.failed = @ \cup Shortage(proc[p], ex, memory)])
    /\ UNCHANGED <<call, virtual>>

(* The creator found no key for the image, so the loader looks for none.   *)
LoaderSkipsImageKey(p) ==
    /\ proc[p].st = "image"
    /\ proc[p].missing
    /\ SetProc(p, [proc[p] EXCEPT !.st = "plain"])
    /\ UNCHANGED <<call, virtual>>

-----------------------------------------------------------------------------
(* KexDll in a new process                                                 *)

(* KexDataInitialize takes the magic number from the Peb.  After that,     *)
(* KexpInitializeIfeoParameters opens the key of the image with NtOpenKey, *)
(* whose hook is still active, so the virtual key decides what the         *)
(* children inherit; the keys of the configuration are opened the same     *)
(* way.                                                                    *)
TakeMagic(r) == [r EXCEPT !.flag = r.magic, !.magic = FALSE]

KexDataInitialize(p) ==
    /\ proc[p].st = "data"
    /\ \E memory \in MemoryFor(p) :
         SetProc(p, [Opened(TakeMagic(proc[p]), FALSE) EXCEPT
                       !.st = "native",
                       !.disable = ImageKey(p, FALSE, memory) = "stay",
                       !.failed = @ \cup Shortage(proc[p], FALSE, memory)])
    /\ UNCHANGED <<call, virtual>>

(* KexInitializePropagation finds the native stubs; in a process of        *)
(* another bitness KexLdrMiniGetProcedureAddress may fail.                 *)
FindNative(p) ==
    /\ proc[p].st = "native"
    /\ \/ SetProc(p, [proc[p] EXCEPT !.st = "inspect"])
       \/ /\ Bits[p] # OSBits /\ MayFail(p)
          /\ SetProc(p, [Fail(p, "native") EXCEPT !.st = "enabled"])
    /\ UNCHANGED <<call, virtual>>

(* KexpCleanupPropagationRemains: nothing to do without the flag, or when  *)
(* the native NtOpenKey does not begin with the template of this system.   *)
NoRemains(p) == ~proc[p].flag \/ proc[p].key # HookTemplate

InspectRemains(p) ==
    /\ proc[p].st = "inspect"
    /\ NoRemains(p)
    /\ SetProc(p, [proc[p] EXCEPT !.st = "hook"])
    /\ UNCHANGED <<call, virtual>>

(* It unmaps the view that the hook points into; when that fails the hooks *)
(* stay where they are.                                                    *)
UnmapTemporary(p) ==
    /\ proc[p].st = "inspect"
    /\ ~NoRemains(p)
    /\ \/ SetProc(p, [proc[p] EXCEPT !.temp = FALSE, !.st = "key"])
       \/ /\ MayFail(p)
          /\ SetProc(p, [Fail(p, "unmap") EXCEPT !.st = "hook"])
    /\ UNCHANGED <<call, virtual>>

(* ... and writes the system calls back, one stub after the other.  It     *)
(* ignores whether NtProtectVirtualMemory has made their pages writable:   *)
(* when it has not, the copy faults, PROTECTED_FUNCTION swallows the fault *)
(* and KexInitializePropagation goes on.  A stub that is still hooked then *)
(* leads into the view that is gone, and the process ends (End) with the   *)
(* first key that it opens through it.                                     *)
RestoreFails(p) == MayFail(p) /\ SetProc(p, [Fail(p, "restore") EXCEPT !.st = "hook"])

RestoreNtOpenKey(p) ==
    /\ proc[p].st = "key"
    /\ \/ SetProc(p, [proc[p] EXCEPT !.key = Syscall, !.st = "keyex"])
       \/ RestoreFails(p)
    /\ UNCHANGED <<call, virtual>>

(* Mutant: NtOpenKeyEx is left hooked.                                     *)
MutantOneRestored(p) ==
    /\ proc[p].st = "keyex"
    /\ SetProc(p, [proc[p] EXCEPT !.st = "hook"])
    /\ UNCHANGED <<call, virtual>>

RestoreNtOpenKeyEx(p) ==
    /\ proc[p].st = "keyex"
    /\ \/ SetProc(p, [proc[p] EXCEPT !.keyex = Syscall, !.st = "hook"])
       \/ RestoreFails(p)
    /\ UNCHANGED <<call, virtual>>

(* KexHkInstallBasicHook on NtCreateUserProcess, unless the user disabled  *)
(* propagation; making the page writable may fail.                         *)
InstallCreateHook(p) ==
    /\ proc[p].st = "hook"
    /\ IF proc[p].disable
       THEN SetProc(p, [proc[p] EXCEPT !.st = "enabled"])
       ELSE \E protected \in BOOLEAN :
              SetProc(p, [proc[p] EXCEPT !.st = "enabled", !.hooked = protected])
    /\ UNCHANGED <<call, virtual>>

-----------------------------------------------------------------------------
(* NtCreateUserProcess, called by thread t of process p                    *)

At(p, t, pc) == Created(p) /\ call[p][t].pc = pc
Goto(p, t, pc) == SetCall(p, t, [call[p][t] EXCEPT !.pc = pc])
Return(p, t) == SetCall(p, t, Idle)

(* A new process; kernel32 passes on that there is no key for its image.   *)
NewProcess(p, c, asked, suspended) ==
    [NoProcess EXCEPT !.st = IF suspended THEN "suspended" ELSE "base",
                      !.missing = (IfeoKey[c] = "absent"),
                      !.parent = p, !.asked = asked]

(* KexNtCreateUserProcess: any program may be started.                     *)
Create(p, c, asked, suspended, failed) ==
    /\ proc[c].st = "none"
    /\ SetProc(c, [NewProcess(p, c, asked, suspended) EXCEPT !.failed = failed])

(* A process whose NtCreateUserProcess is not hooked.                      *)
CreateUnhooked(p, t) ==
    /\ Running(p) /\ At(p, t, "idle")
    /\ ~proc[p].hooked
    /\ \E c \in Procs, asked \in BOOLEAN : Create(p, c, asked, asked, {})
    /\ UNCHANGED <<call, virtual>>

(* Mutant: the thread is created as the caller asks.                       *)
MutantNotSuspended(p, t) ==
    /\ Running(p) /\ At(p, t, "idle")
    /\ proc[p].hooked
    /\ \E c \in Procs, asked \in BOOLEAN :
         /\ Create(p, c, asked, asked, {})
         /\ SetCall(p, t, [pc |-> "open", child |-> c, asked |-> asked])
    /\ UNCHANGED virtual

(* KexpNtCreateUserProcessHook creates the initial thread suspended and    *)
(* asks for access to the memory of the process, whatever the caller       *)
(* wants.                                                                  *)
CreateSuspended(p, t) ==
    /\ Running(p) /\ At(p, t, "idle")
    /\ proc[p].hooked
    /\ \E c \in Procs, asked \in BOOLEAN :
         /\ Create(p, c, asked, TRUE, {})
         /\ SetCall(p, t, [pc |-> "open", child |-> c, asked |-> asked])
    /\ UNCHANGED virtual

CreateSuspendedFails(p, t) ==
    /\ Running(p) /\ At(p, t, "idle")
    /\ proc[p].hooked
    /\ \E asked \in BOOLEAN :
         SetCall(p, t, [pc |-> "retry", child |-> Nobody, asked |-> asked])
    /\ UNCHANGED <<proc, virtual>>

(* The retry with the parameters of the caller: the child is left alone.   *)
CreateAsAsked(p, t) ==
    /\ At(p, t, "retry")
    /\ LET asked == call[p][t].asked
       IN \/ \E c \in Procs : Create(p, c, asked, asked, {"create"})
          \/ UNCHANGED proc
    /\ Return(p, t)
    /\ UNCHANGED virtual

Child(p, t) == call[p][t].child
Alive(c) == proc[c].st # "ended"

(* Whatever fails from here on, the hook goes on to BailOut.               *)
GiveUp(p, t, step) ==
    /\ MayFail(Child(p, t)) \/ ~Alive(Child(p, t))
    /\ SetProc(Child(p, t), Fail(Child(p, t), step))
    /\ Goto(p, t, "bailout")
    /\ UNCHANGED virtual

(* The file \SystemRoot\system32\KexDll.dll and an image section of it.    *)
OpenKexDll(p, t) ==
    /\ At(p, t, "open")
    /\ Goto(p, t, "map")
    /\ UNCHANGED <<proc, virtual>>

OpenKexDllFails(p, t) == At(p, t, "open") /\ GiveUp(p, t, "patch")

(* NtMapViewOfSection in the child.                                        *)
MapRemote(p, t) ==
    /\ At(p, t, "map")
    /\ Alive(Child(p, t))
    /\ SetProc(Child(p, t), [proc[Child(p, t)] EXCEPT !.temp = TRUE])
    /\ Goto(p, t, "mapped")
    /\ UNCHANGED virtual

MapRemoteFails(p, t) == At(p, t, "map") /\ GiveUp(p, t, "patch")

(* The addresses of the hooks: this KexDll has them when it is of the      *)
(* bitness of the system; otherwise they come from a second, temporary     *)
(* view, which may be impossible to map (the code asks for an address and  *)
(* a size that it never initialised) or lack one of the two names.         *)
FindHooks(p, t) ==
    /\ At(p, t, "mapped")
    /\ Goto(p, t, "write")
    /\ UNCHANGED <<proc, virtual>>

FindHooksFails(p, t) ==
    /\ At(p, t, "mapped")
    /\ Bits[p] # OSBits
    /\ GiveUp(p, t, "patch")

(* KexRtlWriteProcessMemory over NtOpenKey, then over NtOpenKeyEx.         *)
WriteNtOpenKey(p, t) ==
    /\ At(p, t, "write")
    /\ Alive(Child(p, t))
    /\ SetProc(Child(p, t), [proc[Child(p, t)] EXCEPT !.key = HookTemplate])
    /\ Goto(p, t, "writeex")
    /\ UNCHANGED virtual

WriteNtOpenKeyFails(p, t) == At(p, t, "write") /\ GiveUp(p, t, "patch")

WriteNtOpenKeyEx(p, t) ==
    /\ At(p, t, "writeex")
    /\ Alive(Child(p, t))
    /\ SetProc(Child(p, t), [proc[Child(p, t)] EXCEPT !.keyex = HookTemplate])
    /\ Goto(p, t, "bailout")
    /\ UNCHANGED virtual

WriteNtOpenKeyExFails(p, t) == At(p, t, "writeex") /\ GiveUp(p, t, "writeex")

(* Mutant: the child is not resumed.                                       *)
MutantNoResume(p, t) ==
    /\ At(p, t, "bailout")
    /\ Return(p, t)
    /\ UNCHANGED <<proc, virtual>>

(* BailOut: the caller who wanted a suspended thread gets one ...          *)
BailOut(p, t) ==
    /\ At(p, t, "bailout")
    /\ IF call[p][t].asked THEN Return(p, t) ELSE Goto(p, t, "resume")
    /\ UNCHANGED <<proc, virtual>>

(* ... for the others it is resumed, if that succeeds.                     *)
ResumeChild(p, t) ==
    /\ At(p, t, "resume")
    /\ LET c == Child(p, t)
       IN SetProc(c, [proc[c] EXCEPT !.st = IF @ = "suspended" THEN "base" ELSE @])
    /\ Return(p, t)
    /\ UNCHANGED virtual

ResumeChildFails(p, t) ==
    /\ At(p, t, "resume")
    /\ MayFail(Child(p, t))
    /\ SetProc(Child(p, t), Fail(Child(p, t), "resume"))
    /\ Return(p, t)
    /\ UNCHANGED virtual

-----------------------------------------------------------------------------
(* The environment                                                         *)

InCall(c) == \E p \in Procs, t \in Threads : call[p][t].child = c

(* The caller who asked for a suspended thread resumes it.                 *)
ProgramResumes(c) ==
    /\ proc[c].st = "suspended" /\ proc[c].asked
    /\ ~InCall(c) /\ proc[proc[c].parent].st # "ended"
    /\ SetProc(c, [proc[c] EXCEPT !.st = "base"])
    /\ UNCHANGED <<call, virtual>>

(* A process ends, or is ended, at any moment, with the calls it was in.   *)
End(p) ==
    /\ Created(p)
    /\ Cardinality({q \in Procs : proc[q].st = "ended"}) < MaxEnded
    /\ SetProc(p, [NoProcess EXCEPT !.st = "ended", !.parent = proc[p].parent,
                     !.hooked = proc[p].hooked, !.disable = proc[p].disable,
                     !.flag = proc[p].flag,
                     !.failed = proc[p].failed])
    /\ call' = [call EXCEPT ![p] = [t \in Threads |-> Idle]]
    /\ UNCHANGED virtual

-----------------------------------------------------------------------------
Start(p) ==
    \/ LoaderOpensBase(p) \/ LoaderOpensImageKey(p) \/ LoaderSkipsImageKey(p)
    \/ KexDataInitialize(p) \/ FindNative(p)
    \/ InspectRemains(p) \/ UnmapTemporary(p)
    \/ RestoreNtOpenKey(p) \/ RestoreNtOpenKeyEx(p)
    \/ InstallCreateHook(p)

CreateUserProcess(p, t) ==
    \/ CreateUnhooked(p, t) \/ CreateSuspended(p, t) \/ CreateSuspendedFails(p, t)

Continue(p, t) ==
    \/ CreateAsAsked(p, t)
    \/ OpenKexDll(p, t) \/ OpenKexDllFails(p, t)
    \/ MapRemote(p, t) \/ MapRemoteFails(p, t)
    \/ FindHooks(p, t) \/ FindHooksFails(p, t)
    \/ WriteNtOpenKey(p, t) \/ WriteNtOpenKeyFails(p, t)
    \/ WriteNtOpenKeyEx(p, t) \/ WriteNtOpenKeyExFails(p, t)
    \/ BailOut(p, t)
    \/ ResumeChild(p, t) \/ ResumeChildFails(p, t)

Next ==
    \/ \E p \in Procs : Start(p) \/ ProgramResumes(p) \/ End(p)
    \/ \E p \in Procs, t \in Threads : CreateUserProcess(p, t) \/ Continue(p, t)

(* A thread in the middle of the hook keeps running, and so does the       *)
(* initial thread of a process; nobody has to create or to end a process.  *)
Fairness ==
    /\ \A p \in Procs : WF_vars(Start(p))
    /\ \A p \in Procs, t \in Threads : WF_vars(Continue(p, t))

Spec == Init /\ [][Next]_vars
FairSpec == Spec /\ Fairness

-----------------------------------------------------------------------------
(* Properties                                                              *)

(* The types of the state of the processes and of their calls              *)
(* (propagte.c, kexdata.c).                                                *)
TypeOK ==
    /\ proc \in [Procs -> Process]
    /\ call \in [Procs -> [Threads -> Call]]
    /\ virtual \in KeyValues

Hooked(p) == proc[p].key # Syscall \/ proc[p].keyex # Syscall

(* As long as restoring a stub has not failed (129-174: the protection     *)
(* whose result is ignored), a hooked NtOpenKey or NtOpenKeyEx jumps into a*)
(* mapped KexDll; only KexpCleanupPropagationRemains, which calls neither, *)
(* has unmapped it before it restores them (propagte.c 110-178).  It looks *)
(* at NtOpenKey alone (72), so NtOpenKeyEx is never hooked when NtOpenKey  *)
(* is not, except while both are being restored.  After such a failure the *)
(* temporary KexDll is gone for good, with the hooks that are left.        *)
NoDanglingHook ==
    \A p \in Procs :
        IF "restore" \in proc[p].failed
        THEN ~proc[p].temp
        ELSE /\ Hooked(p) => proc[p].temp \/ proc[p].st \in {"key", "keyex"}
             /\ proc[p].keyex # Syscall /\ proc[p].st # "keyex"
                  => proc[p].key = HookTemplate

(* Once VxKex runs in a child, nothing is left of what its parent did to   *)
(* it, unless one of the steps on which that depends failed: finding or    *)
(* writing the hooks, finding the native stubs, unmapping the view, making *)
(* the stubs writable to restore them.                                     *)
CleanWhenEnabled ==
    \A p \in Procs :
        /\ proc[p].st = "enabled"
        /\ proc[p].failed \cap {"patch", "writeex", "native", "unmap", "restore"} = {}
        => ~Hooked(p) /\ ~proc[p].temp

(* Every child of a process that propagates runs with VxKex, whether its   *)
(* image has a key of its own or not, when no step failed and the virtual  *)
(* key exists.  A process that was told not to propagate never touches its *)
(* children; and with KEX_DisableForChild in the virtual key, which        *)
(* replaces the key of every child, a process that was itself propagated   *)
(* to touches none of its children unless one of the steps of its own      *)
(* start failed (propagte.c 229-284, 347-398).                             *)
PropagatesAsTold ==
    \A c \in Procs \ {Root} : proc[c].parent # Nobody =>
        LET p == proc[c].parent
        IN /\ Running(c) /\ proc[p].hooked /\ proc[c].failed = {} /\ virtual # "absent"
                => proc[c].st = "enabled"
           /\ Hooked(c) \/ proc[c].temp
                => /\ ~proc[p].disable
                   /\ proc[p].flag /\ virtual = "stay" => proc[p].failed # {}

(* The child runs nothing while the hook still works on it, so its loader  *)
(* meets both stubs hooked or knows that a step failed; and afterwards it  *)
(* is suspended if the caller asked for that, and otherwise only if it     *)
(* cannot be resumed.                                                      *)
StartsAsAsked ==
    /\ \A p \in Procs, t \in Threads :
         Child(p, t) # Nobody =>
           /\ proc[Child(p, t)].st \in {"suspended", "ended"}
           /\ call[p][t].pc = "resume" => ~proc[Child(p, t)].asked
    /\ \A c \in Procs :
         proc[c].st = "suspended" /\ ~InCall(c) /\ proc[proc[c].parent].st # "ended"
           => proc[c].asked \/ "resume" \in proc[c].failed

(* A child whose creator did not ask for a suspended thread runs in the    *)
(* end, unless its creator ends first or NtResumeThread fails.             *)
ResumedInTheEnd ==
    \A c \in Procs :
        proc[c].st = "suspended" /\ ~proc[c].asked
          ~> \/ proc[c].st # "suspended"
             \/ proc[proc[c].parent].st = "ended"
             \/ "resume" \in proc[c].failed
============================================================================
