------------------------------- MODULE KexDll -------------------------------
(***************************************************************************)
(* KexDll in a process, from its first call to the end (DllMain in         *)
(* src/KexDll/dllmain.c, with avrf.c and verspoof.c), composed with the    *)
(* advanced logging that it switches on.                                   *)
(*                                                                         *)
(* KexData has the configuration, Rewriting and Propagation have the       *)
(* initialisers of these names, KexSrv the channel to the server and       *)
(* VxlLog the log; here they are steps in their order.                     *)
(***************************************************************************)
EXTENDS AdvLog, Integers

CONSTANTS
    WinVers,        \* the values of KEX_WinVerSpoof
    Strongs,        \* the values of KEX_StrongVersionSpoof, as sets of flags
    Places,         \* where ntdll.dll calls the internal print function
    Main            \* the thread that starts and ends the process

ASSUME KexDllAssumption ==
    /\ WinVers \subseteq Nat /\ Places \subseteq Nat /\ Main \in Threads
    /\ Strongs \subseteq SUBSET {"sharedUserData", "registry"}

VARIABLES
    pc,             \* where DllMain is
    winVer,         \* IfeoParameters.WinVerSpoof
    strong,         \* IfeoParameters.StrongVersionSpoof
    globalFlag,     \* Peb->NtGlobalFlag, as a set of flags
    peb,            \* the version in the Peb
    shared,         \* what SharedUserData holds
    versionHook,    \* RtlGetNtVersionNumbers is hooked
    timeHook        \* NtQuerySystemTime is hooked

startVars == <<winVer, strong, globalFlag, peb, shared, versionHook, timeHook>>
vars == <<advVars, pc, startVars>>

Version(major, minor, build, csd) ==
    [major |-> major, minor |-> minor, build |-> build, csd |-> csd]
Windows7 == Version(6, 1, 7601, 1)

(* The first call of DllMain, with DLL_PROCESS_VERIFIER, the two with      *)
(* DLL_PROCESS_ATTACH, the program itself and the last call.               *)
Order == <<"data", "log", "channel", "errors", "advanced", "verifier", "rewrite",
           "propagation", "spoof", "versionHook", "protect", "timeHook", "descriptor",
           "attach", "reattach", "running", "ended">>
After(step) == Order[(CHOOSE i \in DOMAIN Order : Order[i] = step) + 1]

Init ==
    /\ AdvInit
    /\ pc = "data"
    /\ winVer \in WinVers
    /\ strong \in Strongs
    /\ globalFlag \in {{"verifier", "pageHeap"},
                       {"verifier", "loaderSnaps"}}
    /\ peb = Windows7
    /\ shared = [major |-> 6, minor |-> 1, build |-> 0, private |-> FALSE]
    /\ versionHook = FALSE
    /\ timeHook = FALSE

(* What the main thread prints during the start-up comes between steps.    *)
GoFrom(step, to) == At(Main, "idle") /\ pc = step /\ pc' = to
Do(step) == GoFrom(step, After(step))
Logging == <<stringMapper, mappers, thread, history, lost>>

(* Steps that leave everything else as it is: the error handler, the       *)
(* channel, propagation, the descriptor and the calls for attachment.      *)
Simple ==
    /\ \E step \in {"data", "channel", "errors", "rewrite", "propagation", "descriptor",
                    "attach", "reattach"} : Do(step)
    /\ UNCHANGED <<advVars, startVars>>

(* KexHkInstallBasicHook                                                   *)
Install(hook) == \/ hook' = TRUE /\ UNCHANGED failed
                 \/ UNCHANGED hook /\ MayFail

(* The log may be impossible to open; nothing asks.                        *)
OpenLog ==
    /\ Do("log")
    /\ \/ log' = "open" /\ UNCHANGED failed
       \/ UNCHANGED log /\ MayFail
    /\ UNCHANGED <<Logging, hooked, startVars>>

(* A failure of the rewriting shows an error box and ends the process.     *)
RewriteFails ==
    /\ GoFrom("rewrite", "errorBox")
    /\ MayFail
    /\ UNCHANGED <<Logging, log, hooked, startVars>>

(* KexInitializeAdvancedLogging                                            *)
InitializeAdvancedLogging ==
    /\ Do("advanced")
    /\ \/ /\ "loaderSnaps" \in globalFlag
          /\ \E place \in Places : Found(place)
          /\ Install(hooked)
       \/ /\ "loaderSnaps" \in globalFlag => \E place \in Places : ~Found(place)
          /\ UNCHANGED <<hooked, failed>>
    /\ UNCHANGED <<Logging, log, startVars>>

(* KexDisableAVrf: nothing is done when verifier.dll is not there.         *)
DisableAVrf ==
    /\ Do("verifier")
    /\ globalFlag' \in {globalFlag, globalFlag \ {"verifier", "pageHeap"}}
    /\ UNCHANGED <<advVars, winVer, strong, peb, shared, versionHook, timeHook>>

-----------------------------------------------------------------------------
(* KexApplyVersionSpoof                                                    *)

Spoofed(v) ==
    CASE v = 1 -> Windows7
      [] v = 2 -> Version(6, 2, 9200, 0)
      [] v = 3 -> Version(6, 3, 9600, 0)
      [] v = 4 -> Version(10, 0, 19044, 0)
      [] OTHER -> Version(10, 0, 22000, 0)

NoSpoof ==
    /\ GoFrom("spoof", "descriptor") /\ winVer = 0
    /\ UNCHANGED <<advVars, startVars>>

SpoofPeb ==
    /\ Do("spoof") /\ winVer # 0
    /\ peb' = Spoofed(winVer)
    /\ UNCHANGED <<advVars, winVer, strong, globalFlag, shared, versionHook, timeHook>>

(* Nobody looks whether a hook could be installed.                         *)
InstallVersionHook ==
    /\ GoFrom("versionHook", IF "sharedUserData" \in strong THEN "protect" ELSE "descriptor")
    /\ Install(versionHook)
    /\ UNCHANGED <<Logging, log, hooked, winVer, strong, globalFlag, peb, shared, timeHook>>

(* From the first write on, the page of SharedUserData is a private copy,  *)
(* in which the time stands still.                                         *)
SpoofSharedUserData ==
    /\ Do("protect")
    /\ shared' = [major |-> Spoofed(winVer).major, minor |-> Spoofed(winVer).minor,
                  build |-> IF Spoofed(winVer).major >= 10 THEN Spoofed(winVer).build
                            ELSE shared.build,
                  private |-> TRUE]
    /\ UNCHANGED <<advVars, winVer, strong, globalFlag, peb, versionHook, timeHook>>

ProtectFails ==
    /\ GoFrom("protect", "descriptor") /\ MayFail
    /\ UNCHANGED <<Logging, log, hooked, startVars>>

InstallTimeHook ==
    /\ Do("timeHook") /\ Install(timeHook)
    /\ UNCHANGED <<Logging, log, hooked, winVer, strong, globalFlag, peb, shared, versionHook>>

(* KexpRtlGetNtVersionNumbersHook, by the module of the caller; without    *)
(* the hook the numbers are those of Windows 7.  The build number comes    *)
(* from the field of the service pack.  Every path that begins with that   *)
(* of the Windows directory counts as inside it.                           *)
(* Mutant: every caller is told the spoofed version.                       *)
MutantToldAll(caller) == FALSE

IsNative(caller) == caller \in {"windows", "besideWindows"}

GetNtVersionNumbers(caller) ==
    IF ~versionHook \/ IsNative(caller)
    THEN [major |-> 6, minor |-> 1, build |-> 7601]
    ELSE [major |-> peb.major, minor |-> peb.minor, build |-> peb.csd]

-----------------------------------------------------------------------------
(* The last call closes the log and then writes to it in vain.             *)
Detach ==
    /\ Do("running")
    /\ log' = IF log = "open" THEN "closed" ELSE log
    /\ UNCHANGED <<Logging, hooked, failed, startVars>>

DllMain ==
    \/ Simple \/ OpenLog \/ RewriteFails \/ InitializeAdvancedLogging \/ DisableAVrf
    \/ NoSpoof \/ SpoofPeb \/ InstallVersionHook \/ SpoofSharedUserData \/ ProtectFails
    \/ InstallTimeHook \/ Detach

(* There are other threads only from the start-up to the end.              *)
Alive == CASE pc = "running" -> Threads [] pc = "errorBox" -> {} [] OTHER -> {Main}

Next ==
    \/ DllMain
    \/ /\ \E t \in Alive : InHook(t)
       /\ UNCHANGED <<pc, startVars>>

Spec == Init /\ [][Next]_vars
-----------------------------------------------------------------------------
(* Properties                                                              *)

FilesOf(function) == {Table[i].value : i \in {j \in DOMAIN Table : Table[j].key = function}}
Busy(t) == thread[t].pc \in {"create", "allocate", "fill", "insert"}
Logged(t) == {i \in DOMAIN history[t] : history[t][i].line.kind = "loader"}

(* A line of the loader in the log names the file of its function or none, *)
(* whatever other threads do with the mapper and whatever collides in it.  *)
(* When no thread is creating or filling the mapper, there was no failure  *)
(* and no two threads changed the same list at once, the mapper that all   *)
(* later messages use has every function of the table, although several    *)
(* may have been created and filled in turns (advlog.c 226-245).           *)
SourceFileIsRight ==
    /\ \A t \in Threads : \A i \in Logged(t) :
         LET line == history[t][i].line
         IN line.file \in FilesOf(line.function) \cup {Unknown}
    /\ /\ stringMapper # NoMapper /\ failed = 0 /\ ~lost
       /\ \A t \in Threads : ~Busy(t)
       => \A i \in DOMAIN Table :
            LookupEntry(mappers[stringMapper], Table[i].key) = Table[i].value

(* If the log is open and nothing failed, an error of the loader whose     *)
(* text fits is in the log and no other message of the loader is, for      *)
(* every prefix in which the name of the function begins before the 25     *)
(* characters that are skipped are over and ends behind them.  The name in *)
(* the log then lacks as many characters as the name begins too early: it  *)
(* is whole for 25 characters alone, and lacks two for the 23 that the     *)
(* comment at 266 describes (advlog.c 248-389).                            *)
ErrorsAreLogged ==
    log = "open" /\ failed = 0 =>
      \A t \in Threads : \A i \in DOMAIN history[t] :
        LET m == history[t][i].message
            line == history[t][i].line
            missing == SkipCch - m.lead
        IN m.component = "Loader" /\ missing \in 0 .. Len(m.function) =>
             IF m.severity = ErrorSeverity /\ m.fits
             THEN /\ line.kind = "loader"
                  /\ line.function = SubSeq(m.function, missing + 1, Len(m.function))
             ELSE line = NoLine

(* From the call of KexApplyVersionSpoof on and until the process ends,    *)
(* the Peb, RtlGetNtVersionNumbers and SharedUserData agree on the major   *)
(* and minor version that was asked for, the Peb and a SharedUserData that *)
(* was changed to Windows 10 or later on the build number as well; Windows *)
(* itself is told the real version and build, and where the time in        *)
(* SharedUserData stands still NtQuerySystemTime reads another.  A hook or *)
(* protection that failed leaves its source at the real major and minor    *)
(* version.  Nothing is said of the build number RtlGetNtVersionNumbers    *)
(* tells a program: it is the number of the service pack, not the build of *)
(* the Peb (verspoof.c 37-230, of which 52 against 111 and 156).           *)
Asked == CASE winVer = 2 -> <<6, 2>> [] winVer = 3 -> <<6, 3>>
           [] winVer \in {0, 1} -> <<6, 1>> [] OTHER -> <<10, 0>>
Real == <<6, 1>>
Pair(v) == <<v.major, v.minor>>
Told(source) == source = Asked \/ (failed > 0 /\ source = Real)
VersionsAgree ==
    pc \in {"descriptor", "attach", "reattach", "running", "ended"} =>
      /\ Pair(peb) = Asked
      /\ Told(Pair(GetNtVersionNumbers("program")))
      /\ GetNtVersionNumbers("nowhere") = GetNtVersionNumbers("program")
      /\ GetNtVersionNumbers("windows") = [major |-> 6, minor |-> 1, build |-> 7601]
      /\ "sharedUserData" \in strong => Told(Pair(shared))
      /\ "sharedUserData" \notin strong => Pair(shared) = Real
      /\ peb.major >= 10 /\ Pair(shared) = Asked => shared.build = peb.build
      /\ shared.private => timeHook \/ failed > 0
=============================================================================
