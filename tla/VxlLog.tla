------------------------------- MODULE VxlLog -------------------------------
(***************************************************************************)
(* One VXL log file (KexDll/vxl*.c, format version 3) and the processes    *)
(* that open it.                                                           *)
(*                                                                         *)
(* A writer maps the header of the file (event counts, tables of source    *)
(* names, dirty flag) and appends entries with NtWriteFile; its threads    *)
(* are serialised by the SRW lock of the log handle.  A reader maps the    *)
(* file as it is when it opens it and builds an index of the entries from  *)
(* the counts of the header, which it shares with a live writer.           *)
(*                                                                         *)
(* A process may exit or be terminated between any two steps; what it did  *)
(* to the mapped header and to the file stays.                             *)
(***************************************************************************)
EXTENDS Naturals, Sequences, FiniteSets, Functions

CONSTANTS
  Processes,     \* processes that open the log for writing
  Threads,       \* their threads
  ProcOf,        \* the process of each thread
  Readers,       \* processes that open the log for reading (VxlView)
  Apps,          \* values of SourceApplication
  AppOf,         \* the SourceApplication a process passes to VxlOpenLog
  Dispositions,  \* the CreateDispositions that processes use
  Severities,    \* values of VXLSEVERITY
  Names,         \* source component, file and function names
  Empty,         \* the empty string: an omitted name, an unused slot
  Stored,        \* Stored[n]: what StringCchCopy leaves of n in a slot
  NumTables,     \* tables of source names: components, files, functions
  SlotCount,     \* slots of each table
  Requests,      \* the records that calls of VxlWriteLogEx ask for
  FaultReport,   \* the record the exception filter of KexDll asks for
  Faults,        \* failures of the system: "create", "map", "page", "write"
  MaxRecords,    \* bound: calls that may count an event in one file
  Absent,        \* there is no file
  Foreign,       \* the file does not start with a valid VXL header
  None           \* no thread, no process

Tables == 1..NumTables
Slots == 1..SlotCount

(* A name that is not truncated when it is copied to a slot.               *)
Fits(n) == Stored[n] = n

Request == [sev : Severities, src : [Tables -> Names]]

(* An entry of the file.  `idx' is what the file holds; `src' is a history *)
(* of the names the call passed.                                           *)
Entry == [sev : Severities, idx : [Tables -> Slots], src : [Tables -> Names]]

(* What NtCreateFile does with each disposition.                           *)
CreatesAbsent  == {"SUPERSEDE", "CREATE", "OPEN_IF", "OVERWRITE_IF"}
OpensExisting  == {"OPEN", "OPEN_IF"}
ResetsExisting == {"SUPERSEDE", "OVERWRITE", "OVERWRITE_IF"}

ASSUME ConstantsAssumption ==
  /\ ProcOf \in [Threads -> Processes]
  /\ AppOf \in [Processes -> Apps]
  /\ Dispositions \subseteq CreatesAbsent \cup OpensExisting \cup ResetsExisting
  /\ NumTables \in Nat \ {0}
  /\ SlotCount \in Nat \ {0}
  /\ IsFiniteSet(Severities)
  /\ MaxRecords \in Nat
  /\ Requests \subseteq Request
  /\ FaultReport \in Request
  /\ None \notin Request
  /\ Absent \notin Apps /\ Foreign \notin Apps /\ Absent # Foreign
  /\ None \notin Threads /\ None \notin Processes

(* Names are null-terminated strings, the empty one among them; a truncated*)
(* copy of a name is a name, and is empty only when the name is.           *)
ASSUME NamesAssumption ==
  /\ Empty \in Names
  /\ Stored \in [Names -> Names]
  /\ \A n \in Names : Stored[n] = Empty <=> n = Empty

VARIABLES
  fileApp,   \* Absent, Foreign or the SourceApplication in the header
  count,     \* EventSeverityTypeCount of the header
  table,     \* SourceComponents, SourceFiles and SourceFunctions
  dirty,     \* Dirty of the header
  entries,   \* the entries after the header
  holder,    \* the process that has the file open for writing
  handle,    \* handle[p]: how far VxlOpenLog got in process p
  lock,      \* lock[p]: the thread that holds the SRW lock of p's handle
  pc,        \* pc[t]: where thread t is in VxlWriteLogEx
  req,       \* req[t]: the record thread t was asked to write
  idx,       \* idx[t]: the indices thread t has looked up
  step,      \* step[t]: the table thread t looks up next
  rstate,    \* rstate[r]: "closed", "mapped" or "open"
  rlen,      \* rlen[r]: entries of the file when reader r mapped it
  rindex,    \* rindex[r]: entries in the index of reader r
  rread,     \* rread[r]: the last index VxlReadLog accepted, or None
  lost       \* history: events counted whose entry was never written

fileVars == <<fileApp, count, table, dirty, entries, lost>>
threadVars == <<pc, req, idx, step>>
readerVars == <<rstate, rlen, rindex, rread>>
vars == <<fileVars, holder, handle, lock, threadVars, readerVars>>

HandleStates == {"none", "new", "existing", "open", "broken"}
WriterStates == {"idle", "wait", "find", "count", "append", "release"}

EmptyTable == [k \in Tables |-> [i \in Slots |-> Empty]]
NoCounts == [s \in Severities |-> 0]

(* VxlpGetTotalLogEntryCount.                                              *)
TotalCount == FoldFunction(LAMBDA x, y : x + y, 0, count)

ThreadsOf(p) == {t \in Threads : ProcOf[t] = p}
NoReader == \A r \in Readers : rstate[r] = "closed"

(* The variables of a call of VxlWriteLogEx that has not begun; the file   *)
(* entry it is going to fill is zeroed memory.                             *)
NoIndices == [k \in Tables |-> 1]

(* Before the first step there may be no file, a file that is not a log, or*)
(* an empty log that some application closed or left dirty.                *)
Init ==
  /\ fileApp \in {Absent, Foreign} \cup Apps
  /\ count = NoCounts /\ lost = NoCounts
  /\ table = EmptyTable
  /\ dirty \in IF fileApp = Absent THEN {FALSE} ELSE BOOLEAN
  /\ entries = <<>>
  /\ holder = None
  /\ handle = [p \in Processes |-> "none"]
  /\ lock = [p \in Processes |-> None]
  /\ pc = [t \in Threads |-> "idle"]
  /\ req = [t \in Threads |-> FaultReport]
  /\ idx = [t \in Threads |-> NoIndices]
  /\ step = [t \in Threads |-> 1]
  /\ rstate = [r \in Readers |-> "closed"]
  /\ rlen = [r \in Readers |-> 0]
  /\ rindex = [r \in Readers |-> 0]
  /\ rread = [r \in Readers |-> None]

-----------------------------------------------------------------------------
(* VxlOpenLog for GENERIC_WRITE.                                           *)

(* Mutant: a file is emptied while a reader has it mapped.                 *)
MutantCreateUnderReader(p, d) ==
  /\ handle[p] = "none" /\ holder = None
  /\ IF fileApp = Absent THEN d \in CreatesAbsent ELSE d \in ResetsExisting
  /\ fileApp' = Foreign
  /\ count' = NoCounts /\ lost' = NoCounts
  /\ table' = EmptyTable
  /\ dirty' = FALSE
  /\ entries' = <<>>
  /\ holder' = p
  /\ handle' = [handle EXCEPT ![p] = "new"]
  /\ UNCHANGED <<lock, threadVars, readerVars>>

(* A writer shares the file with readers only, so NtCreateFile succeeds    *)
(* when no other process has it open for writing.  A file that is created  *)
(* or emptied has a header of zeros until PopulateHeader.                  *)
CreateLogFile(p, d) ==
  /\ handle[p] = "none" /\ holder = None
  /\ \/ fileApp = Absent /\ d \in CreatesAbsent
     \/ fileApp # Absent /\ d \in ResetsExisting /\ NoReader
  /\ fileApp' = Foreign
  /\ count' = NoCounts /\ lost' = NoCounts
  /\ table' = EmptyTable
  /\ dirty' = FALSE
  /\ entries' = <<>>
  /\ holder' = p
  /\ handle' = [handle EXCEPT ![p] = "new"]
  /\ UNCHANGED <<lock, threadVars, readerVars>>

(* Mutant: ShareAccess of a writer includes FILE_SHARE_WRITE.              *)
MutantShareWrite(p, d) ==
  /\ handle[p] = "none"
  /\ fileApp # Absent /\ d \in OpensExisting
  /\ holder' = p
  /\ handle' = [handle EXCEPT ![p] = "existing"]
  /\ UNCHANGED <<fileVars, lock, threadVars, readerVars>>

OpenExistingLogFile(p, d) ==
  /\ handle[p] = "none" /\ holder = None
  /\ fileApp # Absent /\ d \in OpensExisting
  /\ holder' = p
  /\ handle' = [handle EXCEPT ![p] = "existing"]
  /\ UNCHANGED <<fileVars, lock, threadVars, readerVars>>

(* NtCreateFile cannot give the process the file: sharing violation, name  *)
(* collision, no such file, or a file that a reader has mapped and that    *)
(* cannot be emptied.                                                      *)
Refused(d) ==
  \/ holder # None
  \/ fileApp = Absent /\ d \notin CreatesAbsent
  \/ fileApp # Absent /\ d \notin OpensExisting \cup ResetsExisting
  \/ fileApp # Absent /\ d \in ResetsExisting /\ ~NoReader

(* VxlCloseLog faults on the header that was never mapped, before it frees *)
(* anything, and VxlOpenLog returns the context as the log handle.         *)
OpenFails(p, d) ==
  /\ handle[p] = "none"
  /\ Refused(d) \/ "create" \in Faults
  /\ handle' = [handle EXCEPT ![p] = "broken"]
  /\ UNCHANGED <<fileVars, holder, lock, threadVars, readerVars>>

(* The file is open but its header cannot be mapped: the same failure, and *)
(* the handle of the file is never closed.                                 *)
MapFails(p) ==
  /\ handle[p] \in {"new", "existing"}
  /\ "map" \in Faults
  /\ handle' = [handle EXCEPT ![p] = "broken"]
  /\ UNCHANGED <<fileVars, holder, lock, threadVars, readerVars>>

PopulateHeader(p) ==
  /\ handle[p] = "new"
  /\ fileApp' = AppOf[p]
  /\ dirty' = TRUE
  /\ handle' = [handle EXCEPT ![p] = "open"]
  /\ UNCHANGED <<count, table, entries, lost, holder, lock, threadVars, readerVars>>

ValidateHeader(p) ==
  /\ handle[p] = "existing"
  /\ fileApp = AppOf[p]
  /\ dirty' = TRUE
  /\ handle' = [handle EXCEPT ![p] = "open"]
  /\ UNCHANGED <<fileApp, count, table, entries, lost, holder, lock, threadVars, readerVars>>

(* Wrong magic, version or source application: VxlCloseLog clears the dirty*)
(* flag of the file it was refused.                                        *)
RejectHeader(p) ==
  /\ handle[p] = "existing"
  /\ fileApp # AppOf[p]
  /\ dirty' = FALSE
  /\ holder' = None
  /\ handle' = [handle EXCEPT ![p] = "none"]
  /\ UNCHANGED <<fileApp, count, table, entries, lost, lock, threadVars, readerVars>>

-----------------------------------------------------------------------------
(* VxlWriteLogEx.                                                          *)

(* Calls on a NULL handle and calls whose text cannot be formatted return  *)
(* before they touch anything.  MaxRecords bounds the counts.              *)
BeginWrite(t, r) ==
  /\ pc[t] = "idle"
  /\ handle[ProcOf[t]] \in {"open", "broken"}
  /\ TotalCount + Cardinality({u \in Threads : pc[u] # "idle"}) < MaxRecords
  /\ pc' = [pc EXCEPT ![t] = "wait"]
  /\ req' = [req EXCEPT ![t] = r]
  /\ UNCHANGED <<fileVars, holder, handle, lock, idx, step, readerVars>>

AcquireLock(t) ==
  /\ pc[t] = "wait"
  /\ lock[ProcOf[t]] = None
  /\ lock' = [lock EXCEPT ![ProcOf[t]] = t]
  /\ pc' = [pc EXCEPT ![t] = "find"]
  /\ UNCHANGED <<fileVars, holder, handle, req, idx, step, readerVars>>

(* Mutant: any slot that is equal or unused will do, not just the first.   *)
MutantAnySlot(tbl, n, i) == tbl[i] \in {n, Empty} /\ i \in Slots

(* The slot where the scan of a table for name n ends: the first one that  *)
(* is equal to n or unused.                                                *)
IsScanEnd(tbl, n, i) ==
  /\ tbl[i] \in {n, Empty}
  /\ \A j \in 1..(i-1) : tbl[j] \notin {n, Empty}

(* Mutant: the lookups do not stop after the last table.                   *)
MutantNoLastTable(t, i) ==
  /\ idx' = [idx EXCEPT ![t][step[t]] = i]
  /\ step' = [step EXCEPT ![t] = @ + 1]
  /\ UNCHANGED <<pc, fileApp, count, dirty, entries, lost, holder, handle, lock,
                 req, readerVars>>

(* Mutant: every lookup stores its index as the index of the component.    *)
MutantSameIndex(t, i) ==
  /\ idx' = [idx EXCEPT ![t][1] = i]
  /\ IF step[t] = NumTables
       THEN pc' = [pc EXCEPT ![t] = "count"] /\ UNCHANGED step
       ELSE step' = [step EXCEPT ![t] = @ + 1] /\ UNCHANGED pc
  /\ UNCHANGED <<fileApp, count, dirty, entries, lost, holder, handle, lock,
                 req, readerVars>>

(* The lookup of the current table succeeded with slot i.                  *)
GotIndex(t, i) ==
  /\ idx' = [idx EXCEPT ![t][step[t]] = i]
  /\ IF step[t] = NumTables
       THEN pc' = [pc EXCEPT ![t] = "count"] /\ UNCHANGED step
       ELSE step' = [step EXCEPT ![t] = @ + 1] /\ UNCHANGED pc
  /\ UNCHANGED <<fileApp, count, dirty, entries, lost, holder, handle, lock,
                 req, readerVars>>

LookupName(t) == req[t].src[step[t]]
LookupTable(t) == table[step[t]]
Looking(t) == pc[t] = "find" /\ handle[ProcOf[t]] = "open"

FindIndex(t) ==
  /\ Looking(t)
  /\ \E i \in Slots :
       /\ IsScanEnd(LookupTable(t), LookupName(t), i)
       /\ LookupTable(t)[i] = LookupName(t)
       /\ GotIndex(t, i)
  /\ UNCHANGED table

CreateIndex(t) ==
  /\ Looking(t)
  /\ \E i \in Slots :
       /\ IsScanEnd(LookupTable(t), LookupName(t), i)
       /\ LookupTable(t)[i] # LookupName(t)
       /\ Fits(LookupName(t))
       /\ table' = [table EXCEPT ![step[t]][i] = LookupName(t)]
       /\ GotIndex(t, i)

(* Mutant: this error returns without releasing the lock.                  *)
MutantReturnLocked(t) ==
  /\ Looking(t)
  /\ \E i \in Slots :
       /\ IsScanEnd(LookupTable(t), LookupName(t), i)
       /\ LookupTable(t)[i] # LookupName(t)
       /\ ~Fits(LookupName(t))
       /\ table' = [table EXCEPT ![step[t]][i] = Stored[LookupName(t)]]
  /\ pc' = [pc EXCEPT ![t] = "idle"]
  /\ UNCHANGED <<fileApp, count, dirty, entries, lost, holder, handle, lock,
                 req, idx, step, readerVars>>

(* STATUS_BUFFER_TOO_SMALL: the truncated name stays in the slot.          *)
NameTooLong(t) ==
  /\ Looking(t)
  /\ \E i \in Slots :
       /\ IsScanEnd(LookupTable(t), LookupName(t), i)
       /\ LookupTable(t)[i] # LookupName(t)
       /\ ~Fits(LookupName(t))
       /\ table' = [table EXCEPT ![step[t]][i] = Stored[LookupName(t)]]
  /\ pc' = [pc EXCEPT ![t] = "release"]
  /\ UNCHANGED <<fileApp, count, dirty, entries, lost, holder, handle, lock,
                 req, idx, step, readerVars>>

(* STATUS_TOO_MANY_INDICES.                                                *)
TableFull(t) ==
  /\ Looking(t)
  /\ \A i \in Slots : LookupTable(t)[i] \notin {LookupName(t), Empty}
  /\ pc' = [pc EXCEPT ![t] = "release"]
  /\ UNCHANGED <<fileVars, holder, handle, lock, req, idx, step, readerVars>>

(* The access to the header raises an exception (no header is mapped, or   *)
(* its page cannot be read).  Before anything is unwound, the filter of the*)
(* protected function logs it: a call of VxlWriteLogEx in the same thread, *)
(* on the same handle, with the lock still held.                           *)
HeaderFault(t) ==
  /\ pc[t] = "find"
  /\ handle[ProcOf[t]] = "broken" \/ "page" \in Faults
  /\ pc' = [pc EXCEPT ![t] = "wait"]
  /\ req' = [req EXCEPT ![t] = FaultReport]
  /\ idx' = [idx EXCEPT ![t] = NoIndices]
  /\ step' = [step EXCEPT ![t] = 1]
  /\ UNCHANGED <<fileVars, holder, handle, lock, readerVars>>

(* Mutant: the event is not counted.                                       *)
MutantNoCount(t) ==
  /\ pc[t] = "count"
  /\ pc' = [pc EXCEPT ![t] = "append"]
  /\ UNCHANGED <<fileVars, holder, handle, lock, req, idx, step, readerVars>>

CountEvent(t) ==
  /\ pc[t] = "count"
  /\ count' = [count EXCEPT ![req[t].sev] = @ + 1]
  /\ pc' = [pc EXCEPT ![t] = "append"]
  /\ UNCHANGED <<fileApp, table, dirty, entries, lost, holder, handle, lock,
                 req, idx, step, readerVars>>

(* The page of the counts cannot be read: the handler of VxlWriteLogEx      *)
(* itself gets this exception, and the call fails.                         *)
CountFaults(t) ==
  /\ pc[t] = "count"
  /\ "page" \in Faults
  /\ pc' = [pc EXCEPT ![t] = "release"]
  /\ UNCHANGED <<fileVars, holder, handle, lock, req, idx, step, readerVars>>

WriteEntry(t) ==
  /\ pc[t] = "append"
  /\ entries' = Append(entries, [sev |-> req[t].sev, idx |-> idx[t], src |-> req[t].src])
  /\ pc' = [pc EXCEPT ![t] = "release"]
  /\ UNCHANGED <<fileApp, count, table, dirty, lost, holder, handle, lock,
                 req, idx, step, readerVars>>

(* NtWriteFile fails (disk full); the count is not taken back.             *)
WriteFails(t) ==
  /\ pc[t] = "append"
  /\ "write" \in Faults
  /\ lost' = [lost EXCEPT ![req[t].sev] = @ + 1]
  /\ pc' = [pc EXCEPT ![t] = "release"]
  /\ UNCHANGED <<fileApp, count, table, dirty, entries, holder, handle, lock,
                 req, idx, step, readerVars>>

(* The calls of the threads of T are over.                                 *)
Return(T) ==
  /\ pc' = [t \in Threads |-> IF t \in T THEN "idle" ELSE pc[t]]
  /\ req' = [t \in Threads |-> IF t \in T THEN FaultReport ELSE req[t]]
  /\ idx' = [t \in Threads |-> IF t \in T THEN NoIndices ELSE idx[t]]
  /\ step' = [t \in Threads |-> IF t \in T THEN 1 ELSE step[t]]

ReleaseLock(t) ==
  /\ pc[t] = "release"
  /\ lock' = [lock EXCEPT ![ProcOf[t]] = None]
  /\ Return({t})
  /\ UNCHANGED <<fileVars, holder, handle, readerVars>>

-----------------------------------------------------------------------------
(* The end of a writer process; p then stands for its next incarnation.    *)

(* An event that was counted by a thread of p has no entry any more.       *)
Abandon(p) ==
  lost' = [s \in Severities |->
             lost[s] + Cardinality({t \in ThreadsOf(p) : pc[t] = "append" /\ req[t].sev = s})]

EndProcess(p) ==
  /\ handle[p] # "none"
  /\ Abandon(p)
  /\ holder' = IF holder = p THEN None ELSE holder
  /\ handle' = [handle EXCEPT ![p] = "none"]
  /\ lock' = [lock EXCEPT ![p] = None]
  /\ Return(ThreadsOf(p))
  /\ UNCHANGED <<fileApp, count, table, entries, readerVars>>

(* ExitProcess stops the other threads wherever they are; then             *)
(* DLL_PROCESS_DETACH closes the log without taking its lock.              *)
ExitProcess(p) ==
  /\ EndProcess(p)
  /\ dirty' = IF handle[p] = "open" THEN FALSE ELSE dirty

(* The process is terminated: nobody closes the log.                       *)
TerminateProcess(p) ==
  /\ EndProcess(p)
  /\ UNCHANGED dirty

-----------------------------------------------------------------------------
(* VxlOpenLog for GENERIC_READ, VxlReadLog and VxlCloseLog.                *)

writerVars == <<fileVars, holder, handle, lock, threadVars>>

Unmap(r) ==
  /\ rstate' = [rstate EXCEPT ![r] = "closed"]
  /\ rlen' = [rlen EXCEPT ![r] = 0]
  /\ rindex' = [rindex EXCEPT ![r] = 0]
  /\ rread' = [rread EXCEPT ![r] = None]
  /\ UNCHANGED writerVars

(* The view has the size the file has now.                                 *)
MapForReading(r) ==
  /\ rstate[r] = "closed"
  /\ fileApp # Absent
  /\ rstate' = [rstate EXCEPT ![r] = "mapped"]
  /\ rlen' = [rlen EXCEPT ![r] = Len(entries)]
  /\ UNCHANGED <<writerVars, rindex, rread>>

(* Mutant: the index is as long as the largest index, not as the count.    *)
MutantShortIndex(r) ==
  /\ rstate[r] = "mapped"
  /\ fileApp # Foreign
  /\ TotalCount \in Nat \ {0}
  /\ rindex' = [rindex EXCEPT ![r] = TotalCount - 1]
  /\ rstate' = [rstate EXCEPT ![r] = "open"]
  /\ UNCHANGED <<writerVars, rlen, rread>>

(* The index is as long as the counts of the header say.                   *)
BuildIndex(r) ==
  /\ rstate[r] = "mapped"
  /\ fileApp # Foreign
  /\ TotalCount \in Nat \ {0}
  /\ rindex' = [rindex EXCEPT ![r] = TotalCount]
  /\ rstate' = [rstate EXCEPT ![r] = "open"]
  /\ UNCHANGED <<writerVars, rlen, rread>>

(* The header is not valid, there are no entries, or the walk over the     *)
(* entries left the view before it was done.                               *)
BuildIndexFails(r) ==
  /\ rstate[r] = "mapped"
  /\ fileApp = Foreign \/ TotalCount = 0 \/ TotalCount > rlen[r]
  /\ Unmap(r)

ReadLog(r, i) ==
  /\ rstate[r] = "open"
  /\ i <= TotalCount
  /\ rread' = [rread EXCEPT ![r] = i]
  /\ UNCHANGED <<writerVars, rstate, rlen, rindex>>

CloseReader(r) ==
  /\ rstate[r] = "open"
  /\ Unmap(r)

-----------------------------------------------------------------------------
OpenSteps(p) ==
  \/ \E d \in Dispositions :
       \/ CreateLogFile(p, d)
       \/ OpenExistingLogFile(p, d)
       \/ OpenFails(p, d)
  \/ MapFails(p)
  \/ PopulateHeader(p)
  \/ ValidateHeader(p)
  \/ RejectHeader(p)

(* The steps of a thread that holds the lock.                              *)
LockedSteps(t) ==
  \/ FindIndex(t)
  \/ CreateIndex(t)
  \/ NameTooLong(t)
  \/ TableFull(t)
  \/ HeaderFault(t)
  \/ CountEvent(t)
  \/ CountFaults(t)
  \/ WriteEntry(t)
  \/ WriteFails(t)
  \/ ReleaseLock(t)

ReaderSteps(r) ==
  \/ MapForReading(r)
  \/ BuildIndex(r)
  \/ BuildIndexFails(r)
  \/ \E i \in 0..MaxRecords : ReadLog(r, i)
  \/ CloseReader(r)

Next ==
  \/ \E p \in Processes : OpenSteps(p) \/ ExitProcess(p) \/ TerminateProcess(p)
  \/ \E t \in Threads : (\E r \in Requests : BeginWrite(t, r)) \/ AcquireLock(t) \/ LockedSteps(t)
  \/ \E r \in Readers : ReaderSteps(r)

Spec == Init /\ [][Next]_vars

(* A thread inside the lock is scheduled again; nothing obliges a process  *)
(* to make another call, to exit or to open the log.                       *)
FairSpec == Spec /\ \A t \in Threads : WF_vars(LockedSteps(t))

-----------------------------------------------------------------------------
(* Correctness.                                                            *)

(* The types of the variables.                                             *)
TypeOK ==
  /\ fileApp \in {Absent, Foreign} \cup Apps
  /\ count \in [Severities -> Nat]
  /\ table \in [Tables -> [Slots -> Names]]
  /\ dirty \in BOOLEAN
  /\ entries \in Seq(Entry)
  /\ holder \in Processes \cup {None}
  /\ handle \in [Processes -> HandleStates]
  /\ lock \in [Processes -> Threads \cup {None}]
  /\ pc \in [Threads -> WriterStates]
  /\ req \in [Threads -> Request]
  /\ idx \in [Threads -> [Tables -> Slots]]
  /\ step \in [Threads -> Tables]
  /\ rstate \in [Readers -> {"closed", "mapped", "open"}]
  /\ rlen \in [Readers -> Nat]
  /\ rindex \in [Readers -> Nat]
  /\ rread \in [Readers -> Nat \cup {None}]
  /\ lost \in [Severities -> Nat]

(* A thread that is about to look at or change the mapped header, or to    *)
(* write an entry.                                                         *)
Changing(t) == pc[t] \in {"find", "count", "append"} /\ handle[ProcOf[t]] = "open"

(* The share mode of NtCreateFile keeps the writer processes apart and the *)
(* SRW lock of the handle keeps the threads of one process apart: no two   *)
(* threads of the whole system ever work on the same file, also when       *)
(* processes die with the lock held and when opening the file fails        *)
(* half-way (vxlopcl.c:126-128, vxlwrite.c:166).                           *)
OneChanger == \A t, u \in Threads : Changing(t) /\ Changing(u) => t = u

Logged(s) == {i \in DOMAIN entries : entries[i].sev = s}
Counted(s) == {t \in Threads : pc[t] = "append" /\ req[t].sev = s}

(* The count of a severity in the header is the number of its entries, of  *)
(* the event that is just being written, and of the events whose write     *)
(* failed or whose process died in between: nothing else makes the header  *)
(* and the entries differ, through any number of sessions and crashes      *)
(* (vxlwrite.c:204-213).                                                   *)
CountsAccount ==
  \A s \in Severities :
    count[s] = Cardinality(Logged(s)) + Cardinality(Counted(s)) + lost[s]

(* Every name that a call passed can be found in the header under the index*)
(* that is stored with its entry, whatever was logged since and however    *)
(* many sessions ago (vxlpriv.c:125-231).                                  *)
SourcesResolve ==
  \A i \in DOMAIN entries : \A k \in Tables :
    entries[i].src[k] # Empty => table[k][entries[i].idx[k]] = entries[i].src[k]

(* The used slots of a table come first: the scan that stops at the first  *)
(* unused slot has seen every name there is.                               *)
SlotsArePacked ==
  \A k \in Tables : \A i, j \in Slots :
    i < j /\ table[k][j] # Empty => table[k][i] # Empty

(* A name stands in a table twice only if it is what remained of a name    *)
(* that was too long.                                                      *)
DuplicatesAreTruncations ==
  \A k \in Tables : \A i, j \in Slots :
    i # j /\ table[k][i] = table[k][j] /\ table[k][i] # Empty =>
      \E n \in Names : ~Fits(n) /\ Stored[n] = table[k][i]

(* The tables of names serve as a dictionary of the entries, whatever names*)
(* are too long, tables full or processes killed (vxlpriv.c:125-231).      *)
SourceTables == SourcesResolve /\ SlotsArePacked /\ DuplicatesAreTruncations

(* A log that a process has open for writing is marked dirty, also after   *)
(* other processes tried to open it and failed (vxlopcl.c:308-315,         *)
(* 341-344).                                                               *)
DirtyWhileOpen == \A p \in Processes : handle[p] = "open" => dirty

(* A reader finds all the entries that were in the file when it mapped it: *)
(* its index is never shorter, because an event is counted before its      *)
(* entry is written (vxlwrite.c:204, vxlpriv.c:92-120).                    *)
ReaderMissesNothing == \A r \in Readers : rstate[r] = "open" => rlen[r] <= rindex[r]

(* The entries only ever grow at the end, unless the file is emptied, which*)
(* no step does while another process has it open.                         *)
AppendOnly ==
  [][ \/ /\ Len(entries) <= Len(entries')
         /\ \A i \in DOMAIN entries : entries'[i] = entries[i]
      \/ holder = None /\ NoReader ]_entries

(* A slot that is in use keeps its name as long as the file is not emptied,*)
(* so that a reader may look up names while a writer adds some.            *)
SlotsAreStable ==
  [][ \/ \A k \in Tables : \A i \in Slots :
           table[k][i] # Empty => table'[k][i] = table[k][i]
      \/ holder = None /\ NoReader ]_table

(* What a reader has mapped stays true: neither its entries nor the names  *)
(* they refer to change while the writer goes on (vxlread.c:24-133).       *)
FileOnlyGrows == AppendOnly /\ SlotsAreStable

(* A thread that has the lock of a log handle gives it back, whichever of  *)
(* the steps under the lock fails; only an exception in the header keeps it*)
(* from that (vxlwrite.c:166-227).                                         *)
LockIsReleased ==
  \A t \in Threads :
    lock[ProcOf[t]] = t ~> (lock[ProcOf[t]] # t \/ pc[t] = "wait")

-----------------------------------------------------------------------------
(* What the file means: the log that VxlLogSpec speaks of.                 *)

(* A name that was not given is not looked up in the header.               *)
SourceOf(e) == [k \in Tables |-> IF e.src[k] = Empty THEN Empty ELSE table[k][e.idx[k]]]
RecordOf(e) == [sev |-> e.sev, src |-> SourceOf(e)]

InLog == [i \in DOMAIN entries |-> RecordOf(entries[i])]
InFlight ==
  [t \in Threads |-> IF pc[t] \in {"wait", "find", "count", "append"} THEN req[t] ELSE None]

Abstract == INSTANCE VxlLogSpec WITH
              Records <- Request, log <- InLog, pending <- InFlight

(* The log file, read through the tables of its header, is a log to which  *)
(* every record is added once and unaltered, or not at all.                *)
ImplementsLog == Abstract!Spec

-----------------------------------------------------------------------------
(* What comments and assertions of the program say.                        *)

(* kexsrv.c:77-79: when the log cannot be opened, nothing is logged and    *)
(* that is not critical.  A thread that waits for a lock it holds itself   *)
(* never gets any further.                                                 *)
NoSelfDeadlock == \A t \in Threads : ~(pc[t] = "wait" /\ lock[ProcOf[t]] = t)

(* vxlread.c:37: the index that VxlReadLog accepted has an offset in       *)
(* EntryIndexToFileOffset.                                                 *)
AcceptedReadsAreIndexed ==
  \A r \in Readers : rread[r] # None => rread[r] < rindex[r]

=============================================================================
