---------------------------- MODULE VxlLogProofs ----------------------------
(***************************************************************************)
(* Proofs about VxlLog, for every number of processes, threads, readers,   *)
(* names, tables and slots, and whichever failures occur.                  *)
(***************************************************************************)
EXTENDS VxlLog, FiniteSetTheorems, WellFoundedInduction, TLAPS

(* A process that has got past NtCreateFile is the one that has the file.  *)
HolderInv ==
  \A p \in Processes : handle[p] \in {"new", "existing", "open"} => holder = p

(* Between AcquireLock and ReleaseLock a thread has the lock of its process.*)
LockInv ==
  \A t \in Threads :
    pc[t] \in {"find", "count", "append", "release"} => lock[ProcOf[t]] = t

(* A thread that has looked up a name did so in a mapped header.           *)
OpenInv ==
  /\ \A t \in Threads : pc[t] \in {"idle", "wait"} => step[t] = 1
  /\ \A t \in Threads :
       pc[t] \in {"count", "append"} \/ (pc[t] = "find" /\ step[t] # 1) =>
         handle[ProcOf[t]] = "open"

(* Thread t has looked up the name of table k.                             *)
HasIndex(t, k) == pc[t] \in {"count", "append"} \/ (pc[t] = "find" /\ k < step[t])

(* The indices that a thread has looked up are still those of its names.   *)
IndicesResolve ==
  \A t \in Threads : \A k \in Tables :
    HasIndex(t, k) /\ req[t].src[k] # Empty => table[k][idx[t][k]] = req[t].src[k]

(* A reader that has the file mapped keeps it in existence.                *)
ReaderInv == \A r \in Readers : rstate[r] # "closed" => fileApp # Absent

(* What makes the invariants of VxlLog inductive: who may touch the file.  *)
AccessInv == TypeOK /\ HolderInv /\ LockInv /\ OpenInv /\ ReaderInv

(* ... and what the tables of names look like.                             *)
NamesInv == IndicesResolve /\ SourcesResolve /\ SlotsArePacked /\ DuplicatesAreTruncations

-----------------------------------------------------------------------------
(* Types.                                                                  *)

(* The first table and the first slot exist; zeroed memory has their types.*)
LEMMA FirstSlot ==
  /\ 1 \in Tables /\ 1 \in Slots
  /\ NoIndices \in [Tables -> Slots]
  /\ EmptyTable \in [Tables -> [Slots -> Names]]
  /\ NoCounts \in [Severities -> Nat]
  /\ None \notin Threads /\ None \notin Processes /\ None \notin Request
  /\ FaultReport \in Request
  /\ <<>> \in Seq(Entry)
  /\ ProcOf \in [Threads -> Processes]
  /\ AppOf \in [Processes -> Apps]
BY ConstantsAssumption, NamesAssumption
DEF Tables, Slots, NoIndices, EmptyTable, NoCounts

(* Cardinality is a number for the sets that are counted here: Abandon adds*)
(* the cardinality of a set of threads that hold the lock of one process.  *)
LEMMA AtMostOne ==
  ASSUME NEW S, \A x, y \in S : x = y
  PROVE  IsFiniteSet(S) /\ Cardinality(S) \in Nat
<1>1. CASE S = {}
  BY <1>1, FS_EmptySet
<1>2. CASE S # {}
  <2>1. PICK x \in S : S = {x}
    BY <1>2
  <2>2. IsFiniteSet({x}) /\ Cardinality({x}) = 1
    BY FS_Singleton
  <2>3. QED BY <2>1, <2>2
<1>3. QED BY <1>1, <1>2

(* The threads of p whose event is counted and not yet written.            *)
AbandonedOf(p, s) == {t \in ThreadsOf(p) : pc[t] = "append" /\ req[t].sev = s}

(* Whoever is between the count and the entry is alone in its process.     *)
LEMMA AbandonedAtMostOne ==
  ASSUME LockInv, NEW p \in Processes, NEW s \in Severities
  PROVE  Cardinality(AbandonedOf(p, s)) \in Nat
<1>1. \A t, u \in AbandonedOf(p, s) : t = u
  BY DEF LockInv, AbandonedOf, ThreadsOf
<1>2. QED BY <1>1, AtMostOne

LEMMA InitTypeOK == Init => TypeOK
<1> SUFFICES ASSUME Init PROVE TypeOK
  OBVIOUS
<1>1. dirty \in BOOLEAN
  BY DEF Init
<1>2. QED BY <1>1, FirstSlot DEF Init, TypeOK, HandleStates, WriterStates

LEMMA GotIndexTypeOK ==
  ASSUME TypeOK, NEW t \in Threads, NEW i \in Slots, GotIndex(t, i),
         table' \in [Tables -> [Slots -> Names]]
  PROVE  TypeOK'
<1>1. idx' \in [Threads -> [Tables -> Slots]]
  BY DEF TypeOK, GotIndex
<1>2. step' \in [Threads -> Tables] /\ pc' \in [Threads -> WriterStates]
  <2>1. CASE step[t] = NumTables
    BY <2>1 DEF TypeOK, GotIndex, WriterStates
  <2>2. CASE step[t] # NumTables
    <3>1. step[t] + 1 \in Tables
      BY <2>2, ConstantsAssumption DEF TypeOK, Tables
    <3>2. QED BY <2>2, <3>1 DEF TypeOK, GotIndex
  <2>3. QED BY <2>1, <2>2
<1>3. QED BY <1>1, <1>2 DEF TypeOK, GotIndex, readerVars

LEMMA EndProcessTypeOK ==
  ASSUME TypeOK, LockInv, NEW p \in Processes, EndProcess(p), dirty' \in BOOLEAN
  PROVE  TypeOK'
<1>1. lost' \in [Severities -> Nat]
  <2>1. \A s \in Severities : lost[s] + Cardinality(AbandonedOf(p, s)) \in Nat
    BY AbandonedAtMostOne DEF TypeOK
  <2>2. QED BY <2>1 DEF EndProcess, Abandon, AbandonedOf
<1>2. /\ pc' \in [Threads -> WriterStates]
      /\ req' \in [Threads -> Request]
      /\ idx' \in [Threads -> [Tables -> Slots]]
      /\ step' \in [Threads -> Tables]
  BY FirstSlot DEF TypeOK, EndProcess, Return, WriterStates
<1>3. /\ holder' \in Processes \cup {None}
      /\ handle' \in [Processes -> HandleStates]
      /\ lock' \in [Processes -> Threads \cup {None}]
  BY DEF TypeOK, EndProcess, HandleStates
<1>4. QED BY <1>1, <1>2, <1>3 DEF TypeOK, EndProcess, readerVars

(* The type invariant needs the lock: a count of events that a process may *)
(* leave behind is a number because at most one thread can leave one.      *)
LEMMA NextTypeOK ==
  ASSUME TypeOK, LockInv, [Next]_vars
  PROVE  TypeOK'
<1> USE DEF fileVars, threadVars, readerVars
<1>1. ASSUME NEW p \in Processes, NEW d \in Dispositions, CreateLogFile(p, d)
      PROVE  TypeOK'
  BY <1>1, FirstSlot DEF TypeOK, CreateLogFile, HandleStates
<1>2. ASSUME NEW p \in Processes, NEW d \in Dispositions, OpenExistingLogFile(p, d)
      PROVE  TypeOK'
  BY <1>2 DEF TypeOK, OpenExistingLogFile, HandleStates
<1>3. ASSUME NEW p \in Processes, NEW d \in Dispositions, OpenFails(p, d)
      PROVE  TypeOK'
  BY <1>3 DEF TypeOK, OpenFails, HandleStates
<1>4. ASSUME NEW p \in Processes, MapFails(p) PROVE TypeOK'
  BY <1>4 DEF TypeOK, MapFails, HandleStates
<1>5. ASSUME NEW p \in Processes, PopulateHeader(p) PROVE TypeOK'
  BY <1>5, FirstSlot DEF TypeOK, PopulateHeader, HandleStates
<1>6. ASSUME NEW p \in Processes, ValidateHeader(p) PROVE TypeOK'
  BY <1>6 DEF TypeOK, ValidateHeader, HandleStates
<1>7. ASSUME NEW p \in Processes, RejectHeader(p) PROVE TypeOK'
  BY <1>7 DEF TypeOK, RejectHeader, HandleStates
<1>8. ASSUME NEW t \in Threads, NEW r \in Requests, BeginWrite(t, r) PROVE TypeOK'
  BY <1>8, ConstantsAssumption DEF TypeOK, BeginWrite, WriterStates
<1>9. ASSUME NEW t \in Threads, AcquireLock(t) PROVE TypeOK'
  BY <1>9 DEF TypeOK, AcquireLock, WriterStates
<1>10. ASSUME NEW t \in Threads, FindIndex(t) PROVE TypeOK'
  BY <1>10, GotIndexTypeOK DEF TypeOK, FindIndex
<1>11. ASSUME NEW t \in Threads, CreateIndex(t) PROVE TypeOK'
  <2>1. PICK i \in Slots :
          /\ table' = [table EXCEPT ![step[t]][i] = LookupName(t)]
          /\ GotIndex(t, i)
    BY <1>11 DEF CreateIndex
  <2>2. LookupName(t) \in Names /\ step[t] \in Tables
    BY DEF TypeOK, LookupName, Request
  <2>3. table' \in [Tables -> [Slots -> Names]]
    BY <2>1, <2>2 DEF TypeOK
  <2>4. QED BY <2>1, <2>3, GotIndexTypeOK
<1>12. ASSUME NEW t \in Threads, NameTooLong(t) PROVE TypeOK'
  <2>1. PICK i \in Slots : table' = [table EXCEPT ![step[t]][i] = Stored[LookupName(t)]]
    BY <1>12 DEF NameTooLong
  <2>2. Stored[LookupName(t)] \in Names /\ step[t] \in Tables
    BY NamesAssumption DEF TypeOK, LookupName, Request
  <2>3. table' \in [Tables -> [Slots -> Names]]
    BY <2>1, <2>2 DEF TypeOK
  <2>4. QED BY <1>12, <2>3 DEF TypeOK, NameTooLong, WriterStates
<1>13. ASSUME NEW t \in Threads, TableFull(t) PROVE TypeOK'
  BY <1>13 DEF TypeOK, TableFull, WriterStates
<1>14. ASSUME NEW t \in Threads, HeaderFault(t) PROVE TypeOK'
  BY <1>14, FirstSlot DEF TypeOK, HeaderFault, WriterStates
<1>15. ASSUME NEW t \in Threads, CountEvent(t) PROVE TypeOK'
  <2>1. req[t].sev \in Severities
    BY DEF TypeOK, Request
  <2>2. QED BY <1>15, <2>1 DEF TypeOK, CountEvent, WriterStates
<1>16. ASSUME NEW t \in Threads, CountFaults(t) PROVE TypeOK'
  BY <1>16 DEF TypeOK, CountFaults, WriterStates
<1>17. ASSUME NEW t \in Threads, WriteEntry(t) PROVE TypeOK'
  <2>1. [sev |-> req[t].sev, idx |-> idx[t], src |-> req[t].src] \in Entry
    BY DEF TypeOK, Request, Entry
  <2>2. entries' \in Seq(Entry)
    BY <1>17, <2>1 DEF TypeOK, WriteEntry
  <2>3. QED BY <1>17, <2>2 DEF TypeOK, WriteEntry, WriterStates
<1>18. ASSUME NEW t \in Threads, WriteFails(t) PROVE TypeOK'
  <2>1. req[t].sev \in Severities
    BY DEF TypeOK, Request
  <2>2. QED BY <1>18, <2>1 DEF TypeOK, WriteFails, WriterStates
<1>19. ASSUME NEW t \in Threads, ReleaseLock(t) PROVE TypeOK'
  BY <1>19, FirstSlot DEF TypeOK, ReleaseLock, Return, WriterStates
<1>20. ASSUME NEW p \in Processes, ExitProcess(p) PROVE TypeOK'
  BY <1>20, EndProcessTypeOK DEF TypeOK, ExitProcess
<1>21. ASSUME NEW p \in Processes, TerminateProcess(p) PROVE TypeOK'
  BY <1>21, EndProcessTypeOK DEF TypeOK, TerminateProcess
<1>22. ASSUME NEW r \in Readers, MapForReading(r) PROVE TypeOK'
  BY <1>22 DEF TypeOK, MapForReading, writerVars
<1>23. ASSUME NEW r \in Readers, BuildIndex(r) PROVE TypeOK'
  BY <1>23 DEF TypeOK, BuildIndex, writerVars
<1>24. ASSUME NEW r \in Readers, BuildIndexFails(r) \/ CloseReader(r) PROVE TypeOK'
  <2>1. Unmap(r)
    BY <1>24 DEF BuildIndexFails, CloseReader
  <2>2. QED BY <2>1 DEF TypeOK, Unmap, writerVars
<1>25. ASSUME NEW r \in Readers, NEW i \in 0..MaxRecords, ReadLog(r, i) PROVE TypeOK'
  <2>1. i \in Nat
    BY ConstantsAssumption
  <2>2. QED BY <1>25, <2>1 DEF TypeOK, ReadLog, writerVars
<1>26. CASE UNCHANGED vars
  BY <1>26 DEF TypeOK, vars
<1>27. QED
  BY <1>1, <1>2, <1>3, <1>4, <1>5, <1>6, <1>7, <1>8, <1>9, <1>10, <1>11, <1>12, <1>13,
     <1>14, <1>15, <1>16, <1>17, <1>18, <1>19, <1>20, <1>21, <1>22, <1>23, <1>24, <1>25,
     <1>26
  DEF Next, OpenSteps, LockedSteps, ReaderSteps

-----------------------------------------------------------------------------
(* What the steps of threads and of readers leave alone.                   *)

LEMMA ReaderFrame ==
  ASSUME NEW r \in Readers, ReaderSteps(r)
  PROVE  UNCHANGED writerVars
BY DEF ReaderSteps, MapForReading, BuildIndex, BuildIndexFails, ReadLog, CloseReader, Unmap

CallSteps(t) == (\E r \in Requests : BeginWrite(t, r)) \/ AcquireLock(t) \/ LockedSteps(t)

LEMMA ThreadFrame ==
  ASSUME NEW t \in Threads, CallSteps(t)
  PROVE  UNCHANGED <<fileApp, dirty, holder, handle, readerVars>>
<1> USE DEF fileVars, readerVars
<1>1. ASSUME NEW r \in Requests, BeginWrite(t, r)
      PROVE  UNCHANGED <<fileApp, dirty, holder, handle, readerVars>>
  BY <1>1 DEF BeginWrite
<1>2. ASSUME AcquireLock(t) PROVE UNCHANGED <<fileApp, dirty, holder, handle, readerVars>>
  BY <1>2 DEF AcquireLock
<1>3. ASSUME FindIndex(t) \/ CreateIndex(t)
      PROVE  UNCHANGED <<fileApp, dirty, holder, handle, readerVars>>
  BY <1>3 DEF FindIndex, CreateIndex, GotIndex
<1>4. ASSUME NameTooLong(t) \/ TableFull(t) \/ HeaderFault(t)
      PROVE  UNCHANGED <<fileApp, dirty, holder, handle, readerVars>>
  BY <1>4 DEF NameTooLong, TableFull, HeaderFault
<1>5. ASSUME CountEvent(t) \/ CountFaults(t) \/ WriteEntry(t) \/ WriteFails(t) \/ ReleaseLock(t)
      PROVE  UNCHANGED <<fileApp, dirty, holder, handle, readerVars>>
  BY <1>5 DEF CountEvent, CountFaults, WriteEntry, WriteFails, ReleaseLock
<1>6. QED BY <1>1, <1>2, <1>3, <1>4, <1>5 DEF CallSteps, LockedSteps

-----------------------------------------------------------------------------
(* Who may touch the file.                                                 *)

LEMMA NextHolderInv ==
  ASSUME TypeOK, HolderInv, [Next]_vars
  PROVE  HolderInv'
<1>1. ASSUME NEW p \in Processes, OpenSteps(p) PROVE HolderInv'
  <2>1. ASSUME NEW d \in Dispositions, CreateLogFile(p, d) PROVE HolderInv'
    BY <2>1, FirstSlot DEF TypeOK, HolderInv, CreateLogFile
  <2>2. ASSUME NEW d \in Dispositions, OpenExistingLogFile(p, d) PROVE HolderInv'
    BY <2>2, FirstSlot DEF TypeOK, HolderInv, OpenExistingLogFile
  <2>3. ASSUME NEW d \in Dispositions, OpenFails(p, d) PROVE HolderInv'
    BY <2>3 DEF TypeOK, HolderInv, OpenFails
  <2>4. CASE MapFails(p)
    BY <2>4 DEF TypeOK, HolderInv, MapFails
  <2>5. CASE PopulateHeader(p)
    BY <2>5 DEF TypeOK, HolderInv, PopulateHeader
  <2>6. CASE ValidateHeader(p)
    BY <2>6 DEF TypeOK, HolderInv, ValidateHeader
  <2>7. CASE RejectHeader(p)
    BY <2>7 DEF TypeOK, HolderInv, RejectHeader
  <2>8. QED BY <1>1, <2>1, <2>2, <2>3, <2>4, <2>5, <2>6, <2>7 DEF OpenSteps
<1>2. ASSUME NEW p \in Processes, ExitProcess(p) \/ TerminateProcess(p) PROVE HolderInv'
  <2>1. EndProcess(p)
    BY <1>2 DEF ExitProcess, TerminateProcess
  <2>2. QED BY <2>1 DEF TypeOK, HolderInv, EndProcess
<1>3. ASSUME NEW t \in Threads, CallSteps(t) PROVE HolderInv'
  BY <1>3, ThreadFrame DEF HolderInv
<1>4. ASSUME NEW r \in Readers, ReaderSteps(r) PROVE HolderInv'
  BY <1>4, ReaderFrame DEF HolderInv, writerVars
<1>5. CASE UNCHANGED vars
  BY <1>5 DEF HolderInv, vars
<1>6. QED BY <1>1, <1>2, <1>3, <1>4, <1>5 DEF Next, CallSteps

(* Opening a file is no business of a thread inside VxlWriteLogEx: it stays*)
(* where it is, and its handle was not even usable.                        *)
LEMMA OpenFrame ==
  ASSUME NEW p \in Processes, OpenSteps(p)
  PROVE  /\ UNCHANGED <<lock, threadVars, readerVars>>
         /\ handle[p] # "open"
         /\ \E h \in HandleStates : handle' = [handle EXCEPT ![p] = h]
BY DEF OpenSteps, CreateLogFile, OpenExistingLogFile, OpenFails, MapFails, PopulateHeader,
       ValidateHeader, RejectHeader, HandleStates

(* The end of a process leaves the threads of other processes alone.       *)
LEMMA EndFrame ==
  ASSUME TypeOK, NEW p \in Processes, EndProcess(p)
  PROVE  /\ \A t \in Threads : ProcOf[t] = p =>
              pc'[t] = "idle" /\ step'[t] = 1 /\ idx'[t] = NoIndices
         /\ \A t \in Threads : ProcOf[t] # p =>
              /\ pc'[t] = pc[t] /\ req'[t] = req[t] /\ idx'[t] = idx[t] /\ step'[t] = step[t]
              /\ lock'[ProcOf[t]] = lock[ProcOf[t]]
              /\ handle'[ProcOf[t]] = handle[ProcOf[t]]
BY FirstSlot DEF TypeOK, EndProcess, Return, ThreadsOf

LEMMA NextLockInv ==
  ASSUME TypeOK, LockInv, [Next]_vars
  PROVE  LockInv'
<1> USE DEF fileVars, threadVars, readerVars
<1>1. ASSUME NEW p \in Processes, OpenSteps(p) PROVE LockInv'
  BY <1>1, OpenFrame DEF LockInv
<1>2. ASSUME NEW p \in Processes, ExitProcess(p) \/ TerminateProcess(p) PROVE LockInv'
  <2>1. EndProcess(p)
    BY <1>2 DEF ExitProcess, TerminateProcess
  <2>2. QED BY <2>1, EndFrame DEF LockInv
<1>3. ASSUME NEW t \in Threads, CallSteps(t) PROVE LockInv'
  <2>1. ASSUME NEW r \in Requests, BeginWrite(t, r) PROVE LockInv'
    BY <2>1 DEF TypeOK, LockInv, BeginWrite
  <2>2. CASE AcquireLock(t)
    BY <2>2, FirstSlot DEF TypeOK, LockInv, AcquireLock
  <2>3. CASE FindIndex(t) \/ CreateIndex(t)
    <3>1. PICK i \in Slots : GotIndex(t, i) /\ pc[t] = "find"
      BY <2>3 DEF FindIndex, CreateIndex, Looking
    <3>2. QED BY <3>1 DEF TypeOK, LockInv, GotIndex
  <2>4. CASE NameTooLong(t)
    BY <2>4 DEF TypeOK, LockInv, NameTooLong, Looking
  <2>5. CASE TableFull(t)
    BY <2>5 DEF TypeOK, LockInv, TableFull, Looking
  <2>6. CASE HeaderFault(t)
    BY <2>6 DEF TypeOK, LockInv, HeaderFault
  <2>7. CASE CountEvent(t)
    BY <2>7 DEF TypeOK, LockInv, CountEvent
  <2>8. CASE CountFaults(t)
    BY <2>8 DEF TypeOK, LockInv, CountFaults
  <2>9. CASE WriteEntry(t)
    BY <2>9 DEF TypeOK, LockInv, WriteEntry
  <2>10. CASE WriteFails(t)
    BY <2>10 DEF TypeOK, LockInv, WriteFails
  <2>11. CASE ReleaseLock(t)
    BY <2>11, FirstSlot DEF TypeOK, LockInv, ReleaseLock, Return
  <2>12. QED BY <1>3, <2>1, <2>2, <2>3, <2>4, <2>5, <2>6, <2>7, <2>8, <2>9, <2>10, <2>11
    DEF CallSteps, LockedSteps
<1>4. ASSUME NEW r \in Readers, ReaderSteps(r) PROVE LockInv'
  BY <1>4, ReaderFrame DEF LockInv, writerVars
<1>5. CASE UNCHANGED vars
  BY <1>5 DEF LockInv, vars
<1>6. QED BY <1>1, <1>2, <1>3, <1>4, <1>5 DEF Next, CallSteps

LEMMA NextOpenInv ==
  ASSUME TypeOK, OpenInv, [Next]_vars
  PROVE  OpenInv'
<1> USE DEF fileVars, threadVars, readerVars
<1>1. ASSUME NEW p \in Processes, OpenSteps(p) PROVE OpenInv'
  BY <1>1, OpenFrame, FirstSlot DEF TypeOK, OpenInv
<1>2. ASSUME NEW p \in Processes, ExitProcess(p) \/ TerminateProcess(p) PROVE OpenInv'
  <2>1. EndProcess(p)
    BY <1>2 DEF ExitProcess, TerminateProcess
  <2>2. QED BY <2>1, EndFrame DEF OpenInv
<1>3. ASSUME NEW t \in Threads, CallSteps(t) PROVE OpenInv'
  <2>1. ASSUME NEW r \in Requests, BeginWrite(t, r) PROVE OpenInv'
    BY <2>1 DEF TypeOK, OpenInv, BeginWrite
  <2>2. CASE AcquireLock(t)
    BY <2>2 DEF TypeOK, OpenInv, AcquireLock
  <2>3. CASE FindIndex(t) \/ CreateIndex(t)
    <3>1. PICK i \in Slots : GotIndex(t, i) /\ Looking(t)
      BY <2>3 DEF FindIndex, CreateIndex
    <3>2. QED BY <3>1 DEF TypeOK, OpenInv, GotIndex, Looking
  <2>4. CASE NameTooLong(t)
    BY <2>4 DEF TypeOK, OpenInv, NameTooLong, Looking
  <2>5. CASE TableFull(t)
    BY <2>5 DEF TypeOK, OpenInv, TableFull, Looking
  <2>6. CASE HeaderFault(t)
    BY <2>6 DEF TypeOK, OpenInv, HeaderFault
  <2>7. CASE CountEvent(t)
    BY <2>7 DEF TypeOK, OpenInv, CountEvent
  <2>8. CASE CountFaults(t)
    BY <2>8 DEF TypeOK, OpenInv, CountFaults
  <2>9. CASE WriteEntry(t)
    BY <2>9 DEF TypeOK, OpenInv, WriteEntry
  <2>10. CASE WriteFails(t)
    BY <2>10 DEF TypeOK, OpenInv, WriteFails
  <2>11. CASE ReleaseLock(t)
    BY <2>11 DEF TypeOK, OpenInv, ReleaseLock, Return
  <2>12. QED BY <1>3, <2>1, <2>2, <2>3, <2>4, <2>5, <2>6, <2>7, <2>8, <2>9, <2>10, <2>11
    DEF CallSteps, LockedSteps
<1>4. ASSUME NEW r \in Readers, ReaderSteps(r) PROVE OpenInv'
  BY <1>4, ReaderFrame DEF OpenInv, writerVars
<1>5. CASE UNCHANGED vars
  BY <1>5 DEF OpenInv, vars
<1>6. QED BY <1>1, <1>2, <1>3, <1>4, <1>5 DEF Next, CallSteps

LEMMA NextReaderInv ==
  ASSUME TypeOK, ReaderInv, [Next]_vars
  PROVE  ReaderInv'
<1> USE DEF fileVars, threadVars, readerVars
<1>1. ASSUME NEW p \in Processes, OpenSteps(p) PROVE ReaderInv'
  <2>1. fileApp' # Absent \/ UNCHANGED fileApp
    BY <1>1, ConstantsAssumption DEF OpenSteps, CreateLogFile, OpenExistingLogFile, OpenFails,
       MapFails, PopulateHeader, ValidateHeader, RejectHeader
  <2>2. QED BY <1>1, <2>1, OpenFrame DEF ReaderInv
<1>2. ASSUME NEW p \in Processes, ExitProcess(p) \/ TerminateProcess(p) PROVE ReaderInv'
  BY <1>2 DEF ReaderInv, ExitProcess, TerminateProcess, EndProcess
<1>3. ASSUME NEW t \in Threads, CallSteps(t) PROVE ReaderInv'
  BY <1>3, ThreadFrame DEF ReaderInv
<1>4. ASSUME NEW r \in Readers, ReaderSteps(r) PROVE ReaderInv'
  BY <1>4 DEF TypeOK, ReaderInv, ReaderSteps, writerVars, MapForReading, BuildIndex,
              BuildIndexFails, ReadLog, CloseReader, Unmap
<1>5. CASE UNCHANGED vars
  BY <1>5 DEF ReaderInv, vars
<1>6. QED BY <1>1, <1>2, <1>3, <1>4, <1>5 DEF Next, CallSteps

LEMMA AccessIsInvariant == Spec => []AccessInv
<1>1. Init => AccessInv
  BY InitTypeOK DEF Init, AccessInv, HolderInv, LockInv, OpenInv, ReaderInv
<1>2. AccessInv /\ [Next]_vars => AccessInv'
  BY NextTypeOK, NextHolderInv, NextLockInv, NextOpenInv, NextReaderInv DEF AccessInv
<1>3. QED BY <1>1, <1>2, PTL DEF Spec

(* Every variable keeps its type, whatever threads, processes and readers  *)
(* do and whichever steps fail (vxlopcl.c, vxlwrite.c, vxlread.c).         *)
THEOREM TypeCorrect == Spec => []TypeOK
BY AccessIsInvariant, PTL DEF AccessInv

(* No two threads of the system work on the log file at a time: the share  *)
(* mode of NtCreateFile (vxlopcl.c:126-128) and the SRW lock of the handle *)
(* (vxlwrite.c:166) suffice, through failures and ends of processes.       *)
THEOREM MutualExclusion == Spec => []OneChanger
<1>1. AccessInv => OneChanger
  <2> SUFFICES ASSUME AccessInv, NEW t \in Threads, NEW u \in Threads, Changing(t), Changing(u)
               PROVE  t = u
    BY DEF OneChanger
  <2>1. holder = ProcOf[t] /\ holder = ProcOf[u]
    BY FirstSlot DEF AccessInv, HolderInv, Changing
  <2>2. lock[ProcOf[t]] = t /\ lock[ProcOf[u]] = u
    BY DEF AccessInv, LockInv, Changing
  <2>3. QED BY <2>1, <2>2
<1>2. QED BY <1>1, AccessIsInvariant, PTL

-----------------------------------------------------------------------------
(* The dirty flag.                                                         *)

(* A log that some process has open for writing is marked dirty: nobody    *)
(* else can be far enough in VxlOpenLog or VxlCloseLog to clear the flag   *)
(* (vxlopcl.c:308-315, 341-344).                                           *)
THEOREM OpenLogsAreDirty == Spec => []DirtyWhileOpen
<1>1. Init => DirtyWhileOpen
  BY DEF Init, DirtyWhileOpen
<1>2. AccessInv /\ DirtyWhileOpen /\ [Next]_vars => DirtyWhileOpen'
  <2> SUFFICES ASSUME AccessInv, DirtyWhileOpen, [Next]_vars PROVE DirtyWhileOpen'
    OBVIOUS
  <2> USE DEF AccessInv, fileVars
  <2>1. ASSUME NEW p \in Processes, OpenSteps(p) PROVE DirtyWhileOpen'
    <3>1. ASSUME NEW d \in Dispositions, CreateLogFile(p, d) PROVE DirtyWhileOpen'
      BY <3>1, FirstSlot DEF TypeOK, HolderInv, DirtyWhileOpen, CreateLogFile
    <3>2. ASSUME NEW d \in Dispositions, OpenExistingLogFile(p, d) \/ OpenFails(p, d)
          PROVE  DirtyWhileOpen'
      BY <3>2 DEF TypeOK, DirtyWhileOpen, OpenExistingLogFile, OpenFails
    <3>3. CASE MapFails(p)
      BY <3>3 DEF TypeOK, DirtyWhileOpen, MapFails
    <3>4. CASE PopulateHeader(p) \/ ValidateHeader(p)
      BY <3>4 DEF TypeOK, DirtyWhileOpen, PopulateHeader, ValidateHeader
    <3>5. CASE RejectHeader(p)
      BY <3>5 DEF TypeOK, HolderInv, DirtyWhileOpen, RejectHeader
    <3>6. QED BY <2>1, <3>1, <3>2, <3>3, <3>4, <3>5 DEF OpenSteps
  <2>2. ASSUME NEW p \in Processes, ExitProcess(p) PROVE DirtyWhileOpen'
    BY <2>2 DEF TypeOK, HolderInv, DirtyWhileOpen, ExitProcess, EndProcess
  <2>3. ASSUME NEW p \in Processes, TerminateProcess(p) PROVE DirtyWhileOpen'
    BY <2>3 DEF TypeOK, DirtyWhileOpen, TerminateProcess, EndProcess
  <2>4. ASSUME NEW t \in Threads, CallSteps(t) PROVE DirtyWhileOpen'
    BY <2>4, ThreadFrame DEF DirtyWhileOpen
  <2>5. ASSUME NEW r \in Readers, ReaderSteps(r) PROVE DirtyWhileOpen'
    BY <2>5, ReaderFrame DEF DirtyWhileOpen, writerVars
  <2>6. CASE UNCHANGED vars
    BY <2>6 DEF DirtyWhileOpen, vars
  <2>7. QED BY <2>1, <2>2, <2>3, <2>4, <2>5, <2>6 DEF Next, CallSteps
<1>3. QED BY <1>1, <1>2, AccessIsInvariant, PTL DEF Spec

-----------------------------------------------------------------------------
(* The tables of names.                                                    *)

(* Thread t writes n to the slot i where its scan ended.                   *)
AddsName(t, i, n) ==
  /\ Looking(t)
  /\ IsScanEnd(LookupTable(t), LookupName(t), i)
  /\ LookupTable(t)[i] # LookupName(t)
  /\ table' = [table EXCEPT ![step[t]][i] = n]

(* No used slot loses its name.                                            *)
KeepsNames ==
  \A k \in Tables : \A j \in Slots : table[k][j] # Empty => table'[k][j] = table[k][j]

LEMMA AddedName ==
  ASSUME TypeOK, SlotsArePacked, NEW t \in Threads, NEW i \in Slots, NEW n \in Names,
         AddsName(t, i, n)
  PROVE  /\ step[t] \in Tables
         /\ table[step[t]][i] = Empty
         /\ LookupName(t) # Empty
         /\ \A j \in 1..(i-1) : table[step[t]][j] \notin {LookupName(t), Empty}
         /\ \A j \in Slots : j > i => table[step[t]][j] = Empty
         /\ table'[step[t]][i] = n
         /\ \A k \in Tables : \A j \in Slots :
              k # step[t] \/ j # i => table'[k][j] = table[k][j]
         /\ KeepsNames
<1>1. step[t] \in Tables
  BY DEF TypeOK
<1>2. table[step[t]][i] = Empty /\ LookupName(t) # Empty
  BY DEF AddsName, IsScanEnd, LookupTable
<1>3. \A j \in 1..(i-1) : table[step[t]][j] \notin {LookupName(t), Empty}
  BY DEF AddsName, IsScanEnd, LookupTable
<1>4. \A j \in Slots : j > i => table[step[t]][j] = Empty
  BY <1>1, <1>2 DEF SlotsArePacked, Slots
<1>5. /\ table'[step[t]][i] = n
      /\ \A k \in Tables : \A j \in Slots :
           k # step[t] \/ j # i => table'[k][j] = table[k][j]
  BY <1>1 DEF TypeOK, AddsName
<1>6. KeepsNames
  BY <1>2, <1>5 DEF KeepsNames
<1>7. QED BY <1>1, <1>2, <1>3, <1>4, <1>5, <1>6

(* The only steps that change the tables.                                  *)
ClearsTables ==
  /\ holder = None /\ NoReader
  /\ table' = EmptyTable /\ entries' = <<>>
  /\ UNCHANGED threadVars

LEMMA TableSteps ==
  ASSUME AccessInv, [Next]_vars
  PROVE  \/ UNCHANGED table
         \/ ClearsTables
         \/ \E t \in Threads : \E i \in Slots :
              /\ UNCHANGED entries
              /\ \/ CreateIndex(t) /\ AddsName(t, i, LookupName(t)) /\ Fits(LookupName(t))
                                   /\ GotIndex(t, i)
                 \/ NameTooLong(t) /\ AddsName(t, i, Stored[LookupName(t)])
                                   /\ ~Fits(LookupName(t))
<1> USE DEF fileVars
<1>1. ASSUME NEW p \in Processes, OpenSteps(p) PROVE UNCHANGED table \/ ClearsTables
  <2>1. ASSUME NEW d \in Dispositions, CreateLogFile(p, d) PROVE ClearsTables
    BY <2>1 DEF AccessInv, ReaderInv, CreateLogFile, ClearsTables, NoReader, threadVars
  <2>2. QED BY <1>1, <2>1 DEF OpenSteps, OpenExistingLogFile, OpenFails, MapFails,
                 PopulateHeader, ValidateHeader, RejectHeader
<1>2. ASSUME NEW p \in Processes, ExitProcess(p) \/ TerminateProcess(p) PROVE UNCHANGED table
  BY <1>2 DEF ExitProcess, TerminateProcess, EndProcess
<1>3. ASSUME NEW t \in Threads, CreateIndex(t)
      PROVE  \E i \in Slots : /\ UNCHANGED entries
                              /\ AddsName(t, i, LookupName(t)) /\ Fits(LookupName(t))
                              /\ GotIndex(t, i)
  BY <1>3 DEF CreateIndex, AddsName, GotIndex
<1>4. ASSUME NEW t \in Threads, NameTooLong(t)
      PROVE  \E i \in Slots : /\ UNCHANGED entries
                              /\ AddsName(t, i, Stored[LookupName(t)])
                              /\ ~Fits(LookupName(t))
  BY <1>4 DEF NameTooLong, AddsName
<1>5. ASSUME NEW t \in Threads, CallSteps(t), ~CreateIndex(t), ~NameTooLong(t)
      PROVE  UNCHANGED table
  BY <1>5 DEF CallSteps, LockedSteps, BeginWrite, AcquireLock, FindIndex, TableFull,
              HeaderFault, CountEvent, CountFaults, WriteEntry, WriteFails, ReleaseLock
<1>6. ASSUME NEW r \in Readers, ReaderSteps(r) PROVE UNCHANGED table
  BY <1>6, ReaderFrame DEF writerVars
<1>7. CASE UNCHANGED vars
  BY <1>7 DEF vars
<1>8. QED BY <1>1, <1>2, <1>3, <1>4, <1>5, <1>6, <1>7 DEF Next, CallSteps

LEMMA NextSlotsArePacked ==
  ASSUME AccessInv, SlotsArePacked, [Next]_vars
  PROVE  SlotsArePacked'
<1>1. ASSUME NEW t \in Threads, NEW i \in Slots, NEW n \in Names, AddsName(t, i, n)
      PROVE  SlotsArePacked'
  <2>1. \A j \in Slots : j < i => table'[step[t]][j] # Empty
    BY <1>1, AddedName DEF AccessInv, Slots
  <2>2. QED BY <1>1, <2>1, AddedName DEF AccessInv, SlotsArePacked, Slots
<1>2. CASE ClearsTables
  BY <1>2 DEF ClearsTables, SlotsArePacked, EmptyTable
<1>3. CASE UNCHANGED table
  BY <1>3 DEF SlotsArePacked
<1>4. \A t \in Threads : LookupName(t) \in Names /\ Stored[LookupName(t)] \in Names
  BY NamesAssumption DEF AccessInv, TypeOK, LookupName, Request
<1>5. QED BY <1>1, <1>2, <1>3, <1>4, TableSteps

LEMMA NextDuplicates ==
  ASSUME AccessInv, SlotsArePacked, DuplicatesAreTruncations, [Next]_vars
  PROVE  DuplicatesAreTruncations'
<1> DEFINE Same(k, i, j) == i # j /\ table'[k][i] = table'[k][j] /\ table'[k][i] # Empty
           Cut(name) == \E n \in Names : ~Fits(n) /\ Stored[n] = name
<1> SUFFICES ASSUME NEW k \in Tables, NEW i \in Slots, NEW j \in Slots, Same(k, i, j)
             PROVE  Cut(table'[k][i])
  BY DEF DuplicatesAreTruncations, Fits
<1>1. ASSUME NEW t \in Threads, NEW m \in Slots, AddsName(t, m, LookupName(t)),
             LookupName(t) \in Names
      PROVE  Cut(table'[k][i])
  <2>1. CASE k = step[t] /\ (i = m \/ j = m)
    <3>1. PICK o \in Slots : o # m /\ table'[k][o] = LookupName(t)
      BY <1>1, <2>1, AddedName DEF AccessInv
    <3>2. table[k][o] = LookupName(t) /\ LookupName(t) # Empty
      BY <1>1, <2>1, <3>1, AddedName DEF AccessInv
    <3>3. o < m \/ o > m
      BY <3>1 DEF Slots
    <3>4. QED BY <1>1, <2>1, <3>2, <3>3, AddedName DEF AccessInv, Slots
  <2>2. CASE ~(k = step[t] /\ (i = m \/ j = m))
    <3>1. table'[k][i] = table[k][i] /\ table'[k][j] = table[k][j]
      BY <1>1, <2>2, AddedName DEF AccessInv
    <3>2. QED BY <3>1 DEF DuplicatesAreTruncations
  <2>3. QED BY <2>1, <2>2
<1>2. ASSUME NEW t \in Threads, NEW m \in Slots, AddsName(t, m, Stored[LookupName(t)]),
             LookupName(t) \in Names, Stored[LookupName(t)] \in Names, ~Fits(LookupName(t))
      PROVE  Cut(table'[k][i])
  <2>1. CASE k = step[t] /\ (i = m \/ j = m)
    <3>1. table'[k][i] = Stored[LookupName(t)]
      BY <1>2, <2>1, AddedName DEF AccessInv
    <3>2. QED BY <1>2, <3>1
  <2>2. CASE ~(k = step[t] /\ (i = m \/ j = m))
    <3>1. table'[k][i] = table[k][i] /\ table'[k][j] = table[k][j]
      BY <1>2, <2>2, AddedName DEF AccessInv
    <3>2. QED BY <3>1 DEF DuplicatesAreTruncations
  <2>3. QED BY <2>1, <2>2
<1>3. CASE ClearsTables
  BY <1>3 DEF ClearsTables, EmptyTable
<1>4. CASE UNCHANGED table
  BY <1>4 DEF DuplicatesAreTruncations
<1>5. \A t \in Threads : LookupName(t) \in Names /\ Stored[LookupName(t)] \in Names
  BY NamesAssumption DEF AccessInv, TypeOK, LookupName, Request
<1>6. QED BY <1>1, <1>2, <1>3, <1>4, <1>5, TableSteps

(* The names in use stay, unless the file is emptied.                      *)
LEMMA TablesKept ==
  ASSUME AccessInv, SlotsArePacked, [Next]_vars
  PROVE  KeepsNames \/ ClearsTables
<1>1. CASE UNCHANGED table
  BY <1>1 DEF KeepsNames
<1>2. \A t \in Threads : LookupName(t) \in Names /\ Stored[LookupName(t)] \in Names
  BY NamesAssumption DEF AccessInv, TypeOK, LookupName, Request
<1>3. QED BY <1>1, <1>2, TableSteps, AddedName DEF AccessInv

(* An event is emptied from a table only when no thread is in the middle of*)
(* writing one: the thread would need the file to be open.                 *)
LEMMA NobodyHasIndices ==
  ASSUME AccessInv, holder = None, NEW t \in Threads, NEW k \in Tables
  PROVE  ~HasIndex(t, k)
<1> SUFFICES ASSUME HasIndex(t, k) PROVE FALSE
  OBVIOUS
<1>1. handle[ProcOf[t]] = "open"
  BY DEF AccessInv, OpenInv, HasIndex, Tables, TypeOK
<1>2. QED BY <1>1, FirstSlot DEF AccessInv, HolderInv

LEMMA NextIndicesResolve ==
  ASSUME AccessInv, SlotsArePacked, IndicesResolve, [Next]_vars
  PROVE  IndicesResolve'
<1> DEFINE Good(t) == \A k \in Tables :
             HasIndex(t, k)' /\ req'[t].src[k] # Empty => table'[k][idx'[t][k]] = req'[t].src[k]
<1> SUFFICES ASSUME NEW u \in Threads PROVE Good(u)
  BY DEF IndicesResolve
<1>1. CASE ClearsTables
  BY <1>1, NobodyHasIndices DEF ClearsTables, HasIndex, threadVars
<1>2. CASE KeepsNames
  <2> USE DEF AccessInv, fileVars, threadVars, readerVars
  <2>1. ASSUME pc'[u] = pc[u], req'[u] = req[u], idx'[u] = idx[u], step'[u] = step[u]
        PROVE  Good(u)
    BY <1>2, <2>1 DEF TypeOK, IndicesResolve, HasIndex, KeepsNames
  <2>2. ASSUME pc'[u] \in {"idle", "wait", "release"} PROVE Good(u)
    BY <2>2 DEF HasIndex
  <2>3. ASSUME NEW p \in Processes, OpenSteps(p) PROVE Good(u)
    BY <2>1, <2>3, OpenFrame
  <2>4. ASSUME NEW p \in Processes, EndProcess(p) PROVE Good(u)
    BY <2>1, <2>2, <2>4, EndFrame
  <2>5. ASSUME NEW t \in Threads, CallSteps(t) PROVE Good(u)
    <3>1. CASE t # u
      <4>1. ASSUME NEW r \in Requests, BeginWrite(t, r)
            PROVE  pc'[u] = pc[u] /\ req'[u] = req[u] /\ idx'[u] = idx[u] /\ step'[u] = step[u]
        BY <3>1, <4>1 DEF TypeOK, BeginWrite
      <4>2. ASSUME FindIndex(t) \/ CreateIndex(t)
            PROVE  pc'[u] = pc[u] /\ req'[u] = req[u] /\ idx'[u] = idx[u] /\ step'[u] = step[u]
        BY <3>1, <4>2 DEF TypeOK, FindIndex, CreateIndex, GotIndex
      <4>3. ASSUME AcquireLock(t) \/ NameTooLong(t) \/ TableFull(t) \/ HeaderFault(t)
            PROVE  pc'[u] = pc[u] /\ req'[u] = req[u] /\ idx'[u] = idx[u] /\ step'[u] = step[u]
        BY <3>1, <4>3 DEF TypeOK, AcquireLock, NameTooLong, TableFull, HeaderFault
      <4>4. ASSUME \/ CountEvent(t) \/ CountFaults(t) \/ WriteEntry(t)
                   \/ WriteFails(t) \/ ReleaseLock(t)
            PROVE  pc'[u] = pc[u] /\ req'[u] = req[u] /\ idx'[u] = idx[u] /\ step'[u] = step[u]
        BY <3>1, <4>4 DEF TypeOK, CountEvent, CountFaults, WriteEntry, WriteFails, ReleaseLock,
                         Return
      <4>5. QED BY <2>1, <2>5, <4>1, <4>2, <4>3, <4>4 DEF CallSteps, LockedSteps
    <3>2. CASE t = u
      <4>1. ASSUME NEW r \in Requests, BeginWrite(t, r) PROVE Good(u)
        BY <2>2, <3>2, <4>1 DEF TypeOK, BeginWrite
      <4>2. CASE AcquireLock(t)
        BY <3>2, <4>2 DEF TypeOK, OpenInv, AcquireLock, HasIndex, Tables
      <4>3. ASSUME NEW i \in Slots, GotIndex(t, i), Looking(t),
                   LookupName(t) # Empty => table'[step[t]][i] = LookupName(t)
            PROVE  Good(u)
        <5> SUFFICES ASSUME NEW k \in Tables, HasIndex(t, k)', req'[t].src[k] # Empty
                     PROVE  table'[k][idx'[t][k]] = req'[t].src[k]
          BY <3>2
        <5>1. req' = req /\ step[t] \in Tables /\ pc[t] = "find"
          BY <4>3 DEF GotIndex, TypeOK, Looking
        <5>2. CASE k = step[t]
          <6>1. idx'[t][k] = i
            BY <4>3, <5>1, <5>2 DEF GotIndex, TypeOK
          <6>2. QED BY <4>3, <5>1, <5>2, <6>1 DEF LookupName
        <5>3. CASE k # step[t]
          <6>1. idx'[t][k] = idx[t][k] /\ idx[t][k] \in Slots
            BY <4>3, <5>1, <5>3 DEF GotIndex, TypeOK
          <6>2. k < step[t]
            BY <4>3, <5>1, <5>3 DEF GotIndex, TypeOK, HasIndex, Tables
          <6>3. table[k][idx[t][k]] = req[t].src[k]
            BY <5>1, <6>2 DEF IndicesResolve, HasIndex
          <6>4. QED BY <1>2, <5>1, <6>1, <6>3 DEF KeepsNames
        <5>4. QED BY <5>2, <5>3
      <4>4. CASE FindIndex(t)
        BY <4>3, <4>4 DEF FindIndex, LookupTable
      <4>5. CASE CreateIndex(t)
        <5>1. PICK i \in Slots :
                /\ table' = [table EXCEPT ![step[t]][i] = LookupName(t)]
                /\ GotIndex(t, i) /\ Looking(t)
          BY <4>5 DEF CreateIndex
        <5>2. table'[step[t]][i] = LookupName(t)
          BY <5>1 DEF TypeOK
        <5>3. QED BY <4>3, <5>1, <5>2
      <4>6. CASE NameTooLong(t) \/ TableFull(t) \/ HeaderFault(t)
        BY <2>2, <3>2, <4>6 DEF TypeOK, NameTooLong, TableFull, HeaderFault
      <4>7. CASE CountEvent(t)
        <5>1. UNCHANGED <<table, req, idx, step>> /\ pc[t] = "count"
          BY <4>7 DEF CountEvent
        <5>2. QED BY <3>2, <5>1 DEF IndicesResolve, HasIndex
      <4>8. CASE CountFaults(t) \/ WriteEntry(t) \/ WriteFails(t) \/ ReleaseLock(t)
        BY <2>2, <3>2, <4>8 DEF TypeOK, CountFaults, WriteEntry, WriteFails, ReleaseLock, Return
      <4>9. QED BY <2>5, <4>1, <4>2, <4>4, <4>5, <4>6, <4>7, <4>8 DEF CallSteps, LockedSteps
    <3>3. QED BY <3>1, <3>2
  <2>6. ASSUME NEW r \in Readers, ReaderSteps(r) PROVE Good(u)
    BY <2>1, <2>6, ReaderFrame DEF writerVars
  <2>7. CASE UNCHANGED vars
    BY <2>1, <2>7 DEF vars
  <2>8. QED BY <2>3, <2>4, <2>5, <2>6, <2>7
        DEF Next, CallSteps, ExitProcess, TerminateProcess
<1>3. QED BY <1>1, <1>2, TablesKept

-----------------------------------------------------------------------------
(* The entries.                                                            *)

LEMMA EntrySteps ==
  ASSUME AccessInv, [Next]_vars
  PROVE  UNCHANGED entries \/ ClearsTables \/ (\E t \in Threads : WriteEntry(t))
<1> USE DEF fileVars
<1>1. ASSUME NEW p \in Processes, OpenSteps(p) PROVE UNCHANGED entries \/ ClearsTables
  <2>1. ASSUME NEW d \in Dispositions, CreateLogFile(p, d) PROVE ClearsTables
    BY <2>1 DEF AccessInv, ReaderInv, CreateLogFile, ClearsTables, NoReader, threadVars
  <2>2. QED BY <1>1, <2>1 DEF OpenSteps, OpenExistingLogFile, OpenFails, MapFails,
                 PopulateHeader, ValidateHeader, RejectHeader
<1>2. ASSUME NEW p \in Processes, ExitProcess(p) \/ TerminateProcess(p) PROVE UNCHANGED entries
  BY <1>2 DEF ExitProcess, TerminateProcess, EndProcess
<1>3. ASSUME NEW t \in Threads, CallSteps(t), ~WriteEntry(t) PROVE UNCHANGED entries
  BY <1>3 DEF CallSteps, LockedSteps, BeginWrite, AcquireLock, FindIndex, CreateIndex, GotIndex,
              NameTooLong, TableFull, HeaderFault, CountEvent, CountFaults, WriteFails, ReleaseLock
<1>4. ASSUME NEW r \in Readers, ReaderSteps(r) PROVE UNCHANGED entries
  BY <1>4, ReaderFrame DEF writerVars
<1>5. CASE UNCHANGED vars
  BY <1>5 DEF vars
<1>6. QED BY <1>1, <1>2, <1>3, <1>4, <1>5 DEF Next, CallSteps

(* The entry that thread t adds to the file.                               *)
EntryOf(t) == [sev |-> req[t].sev, idx |-> idx[t], src |-> req[t].src]

LEMMA Appended ==
  ASSUME TypeOK, NEW t \in Threads, WriteEntry(t)
  PROVE  /\ DOMAIN entries = 1..Len(entries) /\ Len(entries) \in Nat
         /\ DOMAIN entries' = DOMAIN entries \cup {Len(entries) + 1}
         /\ \A i \in DOMAIN entries : entries'[i] = entries[i]
         /\ entries'[Len(entries) + 1] = EntryOf(t)
         /\ Len(entries') = Len(entries) + 1
         /\ Len(entries) + 1 \notin DOMAIN entries
<1>1. EntryOf(t) \in Entry
  BY DEF TypeOK, Request, Entry, EntryOf
<1>2. entries \in Seq(Entry) /\ entries' = Append(entries, EntryOf(t))
  BY DEF TypeOK, WriteEntry, EntryOf
<1>3. QED BY <1>1, <1>2

LEMMA NextSourcesResolve ==
  ASSUME AccessInv, SlotsArePacked, IndicesResolve, SourcesResolve, [Next]_vars
  PROVE  SourcesResolve'
<1>1. CASE ClearsTables
  BY <1>1 DEF ClearsTables, SourcesResolve
<1>2. CASE KeepsNames
  <2>1. \A i \in DOMAIN entries : \A k \in Tables : entries[i].idx[k] \in Slots
    <3>1. \A i \in DOMAIN entries : entries[i] \in Entry
      BY DEF AccessInv, TypeOK
    <3>2. QED BY <3>1 DEF Entry
  <2>2. \A i \in DOMAIN entries : \A k \in Tables :
          entries[i].src[k] # Empty => table'[k][entries[i].idx[k]] = entries[i].src[k]
    BY <1>2, <2>1 DEF KeepsNames, SourcesResolve
  <2>3. CASE UNCHANGED entries
    BY <2>2, <2>3 DEF SourcesResolve
  <2>4. ASSUME NEW t \in Threads, WriteEntry(t) PROVE SourcesResolve'
    <3>1. UNCHANGED table /\ pc[t] = "append"
      BY <2>4 DEF WriteEntry
    <3>2. \A k \in Tables : req[t].src[k] # Empty => table[k][idx[t][k]] = req[t].src[k]
      BY <3>1 DEF IndicesResolve, HasIndex
    <3> SUFFICES ASSUME NEW i \in DOMAIN entries', NEW k \in Tables, entries'[i].src[k] # Empty
                 PROVE  table'[k][entries'[i].idx[k]] = entries'[i].src[k]
      BY DEF SourcesResolve
    <3>3. CASE i \in DOMAIN entries
      <4>1. entries'[i] = entries[i]
        BY <2>4, <3>3, Appended DEF AccessInv
      <4>2. QED BY <2>2, <3>3, <4>1
    <3>4. CASE i = Len(entries) + 1
      <4>1. entries'[i] = EntryOf(t)
        BY <2>4, <3>4, Appended DEF AccessInv
      <4>2. QED BY <3>1, <3>2, <4>1 DEF EntryOf
    <3>5. QED BY <2>4, <3>3, <3>4, Appended DEF AccessInv
  <2>5. QED BY <1>1, <2>3, <2>4, EntrySteps
<1>3. QED BY <1>1, <1>2, TablesKept

LEMMA NamesAreInvariant == Spec => []NamesInv
<1>1. Init => NamesInv
  BY FirstSlot DEF Init, NamesInv, IndicesResolve, SourcesResolve, SlotsArePacked,
     DuplicatesAreTruncations, HasIndex, EmptyTable
<1>2. AccessInv /\ NamesInv /\ [Next]_vars => NamesInv'
  BY NextIndicesResolve, NextSourcesResolve, NextSlotsArePacked, NextDuplicates DEF NamesInv
<1>3. QED BY <1>1, <1>2, AccessIsInvariant, PTL DEF Spec

(* Every name that was passed with a record can be found under the index   *)
(* stored with its entry, for good (vxlpriv.c:125-231, vxlwrite.c:173-222).*)
THEOREM EntriesResolve == Spec => []SourcesResolve
BY NamesAreInvariant, PTL DEF NamesInv

(* The scans of vxlpriv.c:137-156 and its two copies, which stop at the    *)
(* first unused slot, have seen all the names.                             *)
THEOREM ScansAreComplete == Spec => []SlotsArePacked
BY NamesAreInvariant, PTL DEF NamesInv

(* Only the name that StringCchCopy truncated before the call failed       *)
(* (vxlpriv.c:144-151) takes up more than one slot.                        *)
THEOREM OnlyTruncatedNamesTwice == Spec => []DuplicatesAreTruncations
BY NamesAreInvariant, PTL DEF NamesInv

(* Entries that were written stay as they are, until somebody who has the  *)
(* file for himself empties it (vxlwrite.c:211-222, vxlopcl.c:135-146).    *)
THEOREM EntriesStay == Spec => AppendOnly
<1>1. AccessInv /\ [Next]_vars =>
        [ \/ /\ Len(entries) <= Len(entries')
             /\ \A i \in DOMAIN entries : entries'[i] = entries[i]
          \/ holder = None /\ NoReader ]_entries
  <2> SUFFICES ASSUME AccessInv, [Next]_vars
               PROVE  \/ UNCHANGED entries
                      \/ /\ Len(entries) <= Len(entries')
                         /\ \A i \in DOMAIN entries : entries'[i] = entries[i]
                      \/ holder = None /\ NoReader
    OBVIOUS
  <2>1. ASSUME NEW t \in Threads, WriteEntry(t)
        PROVE  /\ Len(entries) <= Len(entries')
               /\ \A i \in DOMAIN entries : entries'[i] = entries[i]
    BY <2>1, Appended DEF AccessInv
  <2>2. QED BY <2>1, EntrySteps DEF ClearsTables
<1>2. QED BY <1>1, AccessIsInvariant, PTL DEF Spec, AppendOnly

(* A slot in use keeps its name until somebody who has the file for himself*)
(* empties it (vxlpriv.c:125-231).                                         *)
THEOREM SlotsStay == Spec => SlotsAreStable
<1>1. AccessInv /\ NamesInv /\ [Next]_vars =>
        [ \/ \A k \in Tables : \A i \in Slots :
               table[k][i] # Empty => table'[k][i] = table[k][i]
          \/ holder = None /\ NoReader ]_table
  BY TablesKept DEF NamesInv, KeepsNames, ClearsTables
<1>2. QED BY <1>1, AccessIsInvariant, NamesAreInvariant, PTL DEF Spec, SlotsAreStable

(* The tables of the header (vxlpriv.c:125-231) are a sound dictionary of  *)
(* all the entries that any session wrote.                                 *)
THEOREM DictionaryIsSound == Spec => []SourceTables
BY EntriesResolve, ScansAreComplete, OnlyTruncatedNamesTwice, PTL DEF SourceTables

(* What a reader has mapped stays as it is (vxlread.c:24-133), since only  *)
(* one who has the file for himself empties it.                            *)
THEOREM FileGrows == Spec => FileOnlyGrows
BY EntriesStay, SlotsStay DEF FileOnlyGrows

-----------------------------------------------------------------------------
(* The counts.                                                             *)

(* Any two threads that are at work on the file are the same thread.       *)
LEMMA OneAtWork ==
  ASSUME AccessInv, NEW t \in Threads, NEW u \in Threads,
         pc[t] \in {"count", "append"}, pc[u] \in {"count", "append"}
  PROVE  t = u
<1>1. handle[ProcOf[t]] = "open" /\ handle[ProcOf[u]] = "open"
  BY DEF AccessInv, OpenInv
<1>2. ProcOf[t] = ProcOf[u]
  BY <1>1, FirstSlot DEF AccessInv, HolderInv
<1>3. QED BY <1>2 DEF AccessInv, LockInv

LEMMA CountedIs ==
  ASSUME AccessInv, NEW t \in Threads, pc[t] = "append", NEW s \in Severities
  PROVE  Counted(s) = IF req[t].sev = s THEN {t} ELSE {}
BY OneAtWork DEF Counted

LEMMA NumberCounted ==
  ASSUME AccessInv, NEW s \in Severities
  PROVE  Cardinality(Counted(s)) \in Nat
<1>1. \A t, u \in Counted(s) : t = u
  BY OneAtWork DEF Counted
<1>2. QED BY <1>1, AtMostOne

LEMMA NumberLogged ==
  ASSUME TypeOK, NEW s \in Severities
  PROVE  IsFiniteSet(Logged(s)) /\ Cardinality(Logged(s)) \in Nat
<1>1. Len(entries) \in Nat /\ DOMAIN entries = 1..Len(entries)
  BY DEF TypeOK
<1>2. IsFiniteSet(1..Len(entries))
  BY <1>1, FS_Interval
<1>3. Logged(s) \subseteq 1..Len(entries)
  BY <1>1 DEF Logged
<1>4. QED BY <1>2, <1>3, FS_Subset, FS_CardinalityType

LEMMA Card01 == Cardinality({}) = 0 /\ \A x : Cardinality({x}) = 1
BY FS_EmptySet, FS_Singleton

(* A step that moves no thread into or out of the write of its entry.      *)
LEMMA CountsUntouched ==
  ASSUME CountsAccount, UNCHANGED <<count, entries, lost>>,
         \A t \in Threads : pc'[t] = "append" <=> pc[t] = "append",
         \A t \in Threads : pc[t] = "append" => req'[t] = req[t]
  PROVE  CountsAccount'
<1>1. \A s \in Severities : Counted(s)' = Counted(s) /\ Logged(s)' = Logged(s)
  BY DEF Counted, Logged
<1>2. QED BY <1>1 DEF CountsAccount

LEMMA NextCountsAccount ==
  ASSUME AccessInv, CountsAccount, [Next]_vars
  PROVE  CountsAccount'
<1> USE Card01 DEF AccessInv, fileVars, threadVars, readerVars
<1>1. ASSUME NEW p \in Processes, NEW d \in Dispositions, CreateLogFile(p, d)
      PROVE  CountsAccount'
  <2> SUFFICES ASSUME NEW s \in Severities
               PROVE  (count[s] = Cardinality(Logged(s)) + Cardinality(Counted(s)) + lost[s])'
    BY DEF CountsAccount
  <2>1. \A t \in Threads : pc[t] # "append"
    BY <1>1, FirstSlot DEF CreateLogFile, HolderInv, OpenInv
  <2>2. Counted(s)' = {}
    BY <1>1, <2>1 DEF CreateLogFile, Counted
  <2>3. Logged(s)' = {}
    BY <1>1 DEF CreateLogFile, Logged
  <2>4. count'[s] = 0 /\ lost'[s] = 0
    BY <1>1 DEF CreateLogFile, NoCounts
  <2>5. QED BY <2>2, <2>3, <2>4
<1>2. ASSUME NEW p \in Processes, OpenSteps(p),
             \A d \in Dispositions : ~CreateLogFile(p, d)
      PROVE  CountsAccount'
  <2>1. UNCHANGED <<count, entries, lost, pc, req>>
    BY <1>2 DEF OpenSteps, OpenExistingLogFile, OpenFails, MapFails, PopulateHeader,
                ValidateHeader, RejectHeader
  <2>2. QED BY <2>1, CountsUntouched
<1>3. ASSUME NEW p \in Processes, EndProcess(p) PROVE CountsAccount'
  <2> SUFFICES ASSUME NEW s \in Severities
               PROVE  (count[s] = Cardinality(Logged(s)) + Cardinality(Counted(s)) + lost[s])'
    BY DEF CountsAccount
  <2>1. count'[s] = count[s] /\ Logged(s)' = Logged(s)
    BY <1>3 DEF EndProcess, Logged
  <2>2. lost'[s] = lost[s] + Cardinality(AbandonedOf(p, s))
    BY <1>3 DEF EndProcess, Abandon, AbandonedOf
  <2>3. Counted(s)' = Counted(s) \ AbandonedOf(p, s)
    BY <1>3, EndFrame DEF Counted, AbandonedOf, ThreadsOf
  <2>4. AbandonedOf(p, s) \subseteq Counted(s)
    BY DEF AbandonedOf, Counted, ThreadsOf
  <2>5. \A t, u \in Counted(s) : t = u
    BY OneAtWork DEF Counted
  <2>6. Cardinality(Counted(s)) = Cardinality(Counted(s)') + Cardinality(AbandonedOf(p, s))
    <3>1. CASE AbandonedOf(p, s) = {}
      <4>1. Counted(s)' = Counted(s)
        BY <2>3, <3>1
      <4>2. QED BY <3>1, <4>1, NumberCounted
    <3>2. CASE AbandonedOf(p, s) # {}
      <4>1. Counted(s) = AbandonedOf(p, s) /\ Counted(s)' = {}
        BY <2>3, <2>4, <2>5, <3>2
      <4>2. Cardinality(Counted(s)) \in Nat
        BY NumberCounted
      <4>3. QED BY <4>1, <4>2
    <3>3. QED BY <3>1, <3>2
  <2>7. /\ count[s] = Cardinality(Logged(s)) + Cardinality(Counted(s)) + lost[s]
        /\ lost[s] \in Nat
    BY DEF CountsAccount, TypeOK
  <2>8. Cardinality(Counted(s)') \in Nat /\ Cardinality(AbandonedOf(p, s)) \in Nat
    BY <2>3, <2>4, <2>5, AtMostOne
  <2>9. Cardinality(Logged(s)) \in Nat
    BY NumberLogged
  <2>10. QED BY <2>1, <2>2, <2>6, <2>7, <2>8, <2>9
<1>4. ASSUME NEW t \in Threads, CountEvent(t) PROVE CountsAccount'
  <2> SUFFICES ASSUME NEW s \in Severities
               PROVE  (count[s] = Cardinality(Logged(s)) + Cardinality(Counted(s)) + lost[s])'
    BY DEF CountsAccount
  <2>1. Logged(s)' = Logged(s) /\ lost'[s] = lost[s] /\ req' = req
    BY <1>4 DEF CountEvent, Logged
  <2>2. \A u \in Threads : pc[u] # "append"
    BY <1>4, OneAtWork DEF CountEvent
  <2>3. Counted(s) = {}
    BY <2>2 DEF Counted
  <2>4. \A u \in Threads : pc'[u] = "append" <=> u = t
    BY <1>4, <2>2 DEF CountEvent, TypeOK
  <2>5. Counted(s)' = IF req[t].sev = s THEN {t} ELSE {}
    BY <2>1, <2>4 DEF Counted
  <2>6. count'[s] = IF req[t].sev = s THEN count[s] + 1 ELSE count[s]
    BY <1>4 DEF CountEvent, TypeOK
  <2>7. /\ count[s] = Cardinality(Logged(s)) + Cardinality(Counted(s)) + lost[s]
        /\ lost[s] \in Nat /\ Cardinality(Logged(s)) \in Nat
    BY NumberLogged DEF CountsAccount, TypeOK
  <2>8. CASE req[t].sev = s
    <3>1. Cardinality(Counted(s)') = 1 /\ Cardinality(Counted(s)) = 0
      BY <2>3, <2>5, <2>8
    <3>2. QED BY <2>1, <2>6, <2>7, <2>8, <3>1
  <2>9. CASE req[t].sev # s
    BY <2>9, <2>1, <2>3, <2>5, <2>6, <2>7
  <2>10. QED BY <2>8, <2>9
<1>5. ASSUME NEW t \in Threads, WriteEntry(t) PROVE CountsAccount'
  <2> SUFFICES ASSUME NEW s \in Severities
               PROVE  (count[s] = Cardinality(Logged(s)) + Cardinality(Counted(s)) + lost[s])'
    BY DEF CountsAccount
  <2>1. count' = count /\ lost' = lost /\ req' = req /\ pc[t] = "append"
    BY <1>5 DEF WriteEntry
  <2>2. Counted(s) = IF req[t].sev = s THEN {t} ELSE {}
    BY <2>1, CountedIs
  <2>3. \A u \in Threads : pc'[u] # "append"
    BY <1>5, OneAtWork DEF WriteEntry, TypeOK
  <2>4. Counted(s)' = {}
    BY <2>3 DEF Counted
  <2>5. Logged(s)' = IF req[t].sev = s THEN Logged(s) \cup {Len(entries) + 1} ELSE Logged(s)
    <3>1. DOMAIN entries' = DOMAIN entries \cup {Len(entries) + 1}
      BY <1>5, Appended
    <3>2. \A i \in DOMAIN entries : entries'[i] = entries[i]
      BY <1>5, Appended
    <3>3. entries'[Len(entries) + 1] = EntryOf(t)
      BY <1>5, Appended
    <3>4. entries'[Len(entries) + 1].sev = req[t].sev
      BY <3>3 DEF EntryOf
    <3>5. QED BY <3>1, <3>2, <3>4 DEF Logged
  <2>6. Len(entries) + 1 \notin Logged(s)
    BY <1>5, Appended DEF Logged
  <2>7. Cardinality(Logged(s) \cup {Len(entries) + 1}) = Cardinality(Logged(s)) + 1
    BY <2>6, NumberLogged, FS_AddElement
  <2>8. /\ count[s] = Cardinality(Logged(s)) + Cardinality(Counted(s)) + lost[s]
        /\ lost[s] \in Nat /\ Cardinality(Logged(s)) \in Nat
    BY NumberLogged DEF CountsAccount, TypeOK
  <2>9. CASE req[t].sev = s
    <3>1. Cardinality(Counted(s)') = 0 /\ Cardinality(Counted(s)) = 1
      BY <2>2, <2>4, <2>9
    <3>2. QED BY <2>1, <2>5, <2>7, <2>8, <2>9, <3>1
  <2>10. CASE req[t].sev # s
    BY <2>10, <2>1, <2>2, <2>4, <2>5, <2>7, <2>8
  <2>11. QED BY <2>9, <2>10
<1>6. ASSUME NEW t \in Threads, WriteFails(t) PROVE CountsAccount'
  <2> SUFFICES ASSUME NEW s \in Severities
               PROVE  (count[s] = Cardinality(Logged(s)) + Cardinality(Counted(s)) + lost[s])'
    BY DEF CountsAccount
  <2>1. count' = count /\ Logged(s)' = Logged(s) /\ req' = req /\ pc[t] = "append"
    BY <1>6 DEF WriteFails, Logged
  <2>2. Counted(s) = IF req[t].sev = s THEN {t} ELSE {}
    BY <2>1, CountedIs
  <2>3. \A u \in Threads : pc'[u] # "append"
    BY <1>6, OneAtWork DEF WriteFails, TypeOK
  <2>4. Counted(s)' = {}
    BY <2>3 DEF Counted
  <2>5. lost'[s] = IF req[t].sev = s THEN lost[s] + 1 ELSE lost[s]
    BY <1>6 DEF WriteFails, TypeOK
  <2>6. /\ count[s] = Cardinality(Logged(s)) + Cardinality(Counted(s)) + lost[s]
        /\ lost[s] \in Nat /\ Cardinality(Logged(s)) \in Nat
    BY NumberLogged DEF CountsAccount, TypeOK
  <2>7. CASE req[t].sev = s
    <3>1. Cardinality(Counted(s)') = 0 /\ Cardinality(Counted(s)) = 1
      BY <2>2, <2>4, <2>7
    <3>2. QED BY <2>1, <2>5, <2>6, <2>7, <3>1
  <2>8. CASE req[t].sev # s
    BY <2>8, <2>1, <2>2, <2>4, <2>5, <2>6
  <2>9. QED BY <2>7, <2>8
<1>7. ASSUME NEW t \in Threads, CallSteps(t), ~CountEvent(t), ~WriteEntry(t), ~WriteFails(t)
      PROVE  CountsAccount'
  <2>1. UNCHANGED <<count, entries, lost>>
    BY <1>7 DEF CallSteps, LockedSteps, BeginWrite, AcquireLock, FindIndex, CreateIndex, GotIndex,
                NameTooLong, TableFull, HeaderFault, CountFaults, ReleaseLock
  <2>2. /\ pc[t] # "append" /\ pc'[t] # "append"
        /\ \A u \in Threads : u # t => pc'[u] = pc[u] /\ req'[u] = req[u]
    <3>1. CASE (\E r \in Requests : BeginWrite(t, r)) \/ AcquireLock(t)
      BY <3>1 DEF TypeOK, BeginWrite, AcquireLock
    <3>2. CASE FindIndex(t) \/ CreateIndex(t)
      BY <3>2 DEF TypeOK, FindIndex, CreateIndex, GotIndex, Looking
    <3>3. CASE NameTooLong(t) \/ TableFull(t) \/ HeaderFault(t)
      BY <3>3 DEF TypeOK, NameTooLong, TableFull, HeaderFault, Looking
    <3>4. CASE CountFaults(t) \/ ReleaseLock(t)
      BY <3>4 DEF TypeOK, CountFaults, ReleaseLock, Return
    <3>5. QED BY <1>7, <3>1, <3>2, <3>3, <3>4 DEF CallSteps, LockedSteps
  <2>3. QED BY <2>1, <2>2, CountsUntouched
<1>8. ASSUME NEW r \in Readers, ReaderSteps(r) PROVE CountsAccount'
  BY <1>8, ReaderFrame, CountsUntouched DEF writerVars
<1>9. CASE UNCHANGED vars
  BY <1>9, CountsUntouched DEF vars
<1>10. QED BY <1>1, <1>2, <1>3, <1>4, <1>5, <1>6, <1>7, <1>8, <1>9
       DEF Next, CallSteps, ExitProcess, TerminateProcess

(* The counts of the header are the number of entries, except for the event*)
(* that is just being written and for those whose entry could not be       *)
(* written or whose writer died before it was (vxlwrite.c:204-213).        *)
THEOREM CountsAreAccountedFor == Spec => []CountsAccount
<1>1. Init => CountsAccount
  <2> SUFFICES ASSUME Init, NEW s \in Severities
               PROVE  count[s] = Cardinality(Logged(s)) + Cardinality(Counted(s)) + lost[s]
    BY DEF CountsAccount
  <2>1. Logged(s) = {} /\ Counted(s) = {}
    BY DEF Init, Logged, Counted
  <2>2. QED BY <2>1, Card01 DEF Init, NoCounts
<1>2. AccessInv /\ CountsAccount /\ [Next]_vars => CountsAccount'
  BY NextCountsAccount
<1>3. QED BY <1>1, <1>2, AccessIsInvariant, PTL DEF Spec

-----------------------------------------------------------------------------
(* The total of the counts, a sum over the severities in any order, is at  *)
(* least the number of entries.  Sums and what is shown of them go from    *)
(* smaller sets to larger ones, by the least number of a set.              *)

LEMMA LeastNumber ==
  ASSUME NEW T, T \subseteq Nat, T # {}
  PROVE  \E x \in T : \A y \in T : x <= y
<1> DEFINE R == OpToRel(<, Nat)
<1>1. R = {ss \in Nat \X Nat : ss[1] < ss[2]}
  BY DEF OpToRel
<1>2. IsWellFoundedOn(R, Nat)
  BY NatLessThanWellFounded, Zenon
<1>3. PICK x \in T : \A y \in T : ~(<<y, x>> \in R)
  BY <1>2, WFMin
<1>4. \A y \in T : <<y, x>> \in Nat \X Nat
  OBVIOUS
<1>5. \A y \in T : ~(y < x)
  BY <1>1, <1>3, <1>4
<1>6. QED BY <1>5

(* One step of the sum of f over s, when g has the sums of smaller sets.   *)
Any(s) == CHOOSE x \in s : TRUE
SumStep(f, g, s) == IF s = {} THEN 0 ELSE f[Any(s)] + g[s \ {Any(s)}]

LEMMA SumExists ==
  ASSUME NEW S, IsFiniteSet(S), NEW f
  PROVE  \E g : g = [s \in SUBSET S |-> SumStep(f, g, s)]
<1> DEFINE Small(n) == {s \in SUBSET S : Cardinality(s) <= n}
           Agrees(g, n) == g = [s \in Small(n) |-> SumStep(f, g, s)]
           Missing == {n \in Nat : ~ \E g : Agrees(g, n)}
<1>1. \A s \in SUBSET S : IsFiniteSet(s) /\ Cardinality(s) \in Nat /\ Cardinality(s) <= Cardinality(S)
  BY FS_Subset, FS_CardinalityType
<1>2. ASSUME NEW s \in SUBSET S, s # {}
      PROVE  /\ Any(s) \in s /\ s \ {Any(s)} \in SUBSET S
             /\ Cardinality(s \ {Any(s)}) = Cardinality(s) - 1
  <2>1. Any(s) \in s
    BY <1>2 DEF Any
  <2>2. QED BY <1>1, <2>1, FS_RemoveElement
<1>3. Missing = {}
  <2> SUFFICES ASSUME Missing # {} PROVE FALSE
    OBVIOUS
  <2>1. PICK n \in Missing : \A k \in Missing : n <= k
    BY LeastNumber
  <2>2. CASE n = 0
    <3> DEFINE g == [s \in Small(0) |-> 0]
    <3>1. \A s \in Small(0) : s = {}
      BY <1>1, FS_EmptySet
    <3>2. Agrees(g, 0)
      BY <3>1 DEF SumStep
    <3>3. QED BY <2>1, <2>2, <3>2
  <2>3. CASE n # 0
    <3>1. n \in Nat /\ n - 1 \in Nat /\ n - 1 \notin Missing
      <4> HIDE DEF Missing
      <4>1. n \in Nat
        BY <2>1 DEF Missing
      <4>2. QED BY <2>1, <2>3, <4>1
    <3>2. PICK g : Agrees(g, n - 1)
      BY <3>1
    <3> DEFINE h == [s \in Small(n) |-> SumStep(f, g, s)]
    <3>3. ASSUME NEW s \in Small(n) PROVE h[s] = SumStep(f, h, s)
      <4>1. CASE s = {}
        BY <4>1 DEF SumStep
      <4>2. CASE s # {}
        <5> DEFINE r == s \ {Any(s)}
        <5>1. r \in Small(n - 1) /\ r \in Small(n)
          BY <1>1, <1>2, <3>1, <4>2
        <5>2. g[r] = SumStep(f, g, r) /\ h[r] = SumStep(f, g, r)
          BY <3>2, <5>1
        <5>3. QED BY <5>2 DEF SumStep
      <4>3. QED BY <4>1, <4>2
    <3>4. Agrees(h, n)
      BY <3>3
    <3>5. QED BY <2>1, <3>4
  <2>4. QED BY <2>2, <2>3
<1>4. Cardinality(S) \in Nat /\ Small(Cardinality(S)) = SUBSET S
  BY <1>1, FS_CardinalityType
<1>5. PICK g : Agrees(g, Cardinality(S))
  BY <1>3, <1>4
<1>6. QED BY <1>4, <1>5

(* TotalCount is the last of the sums over the sets of severities.         *)
LEMMA TotalCountIsSum ==
  ASSUME count \in [Severities -> Nat]
  PROVE  \E g : /\ g = [s \in SUBSET Severities |-> SumStep(count, g, s)]
                /\ TotalCount = g[Severities]
<1> DEFINE g == CHOOSE g : g = [s \in SUBSET Severities |-> SumStep(count, g, s)]
<1>1. IsFiniteSet(Severities)
  BY ConstantsAssumption
<1>2. g = [s \in SUBSET Severities |-> SumStep(count, g, s)]
  BY <1>1, SumExists
<1>3. TotalCount = g[Severities]
  BY DEF TotalCount, FoldFunction, FoldFunctionOnSet, MapThenFoldSet, SumStep, Any
<1>4. QED BY <1>2, <1>3

(* Every entry was counted, so that the counts are at least as many.       *)
EntriesOf(T) == {i \in DOMAIN entries : entries[i].sev \in T}

LEMMA EntriesAreCounted ==
  ASSUME AccessInv, CountsAccount
  PROVE  TotalCount \in Nat /\ Len(entries) <= TotalCount
<1>1. /\ count \in [Severities -> Nat] /\ lost \in [Severities -> Nat]
      /\ entries \in Seq(Entry) /\ IsFiniteSet(Severities)
  BY ConstantsAssumption DEF AccessInv, TypeOK
<1>2. PICK g : /\ g = [s \in SUBSET Severities |-> SumStep(count, g, s)]
               /\ TotalCount = g[Severities]
  BY <1>1, TotalCountIsSum
<1>3. \A T : IsFiniteSet(EntriesOf(T)) /\ Cardinality(EntriesOf(T)) \in Nat
  <2>1. IsFiniteSet(1 .. Len(entries)) /\ DOMAIN entries = 1 .. Len(entries)
    BY <1>1, FS_Interval
  <2>2. QED BY <2>1, FS_Subset, FS_CardinalityType DEF EntriesOf
<1>4. \A T \in SUBSET Severities : IsFiniteSet(T) /\ Cardinality(T) \in Nat
  BY <1>1, FS_Subset, FS_CardinalityType
<1> DEFINE Good(T) == g[T] \in Nat /\ Cardinality(EntriesOf(T)) <= g[T]
           Bad == {T \in SUBSET Severities : ~Good(T)}
           Sizes == {Cardinality(T) : T \in Bad}
<1>5. Bad = {}
  <2> SUFFICES ASSUME Bad # {} PROVE FALSE
    OBVIOUS
  <2>1. Sizes \subseteq Nat /\ Sizes # {}
    BY <1>4
  <2>2. PICK n \in Sizes : \A k \in Sizes : n <= k
    BY <2>1, LeastNumber
  <2>3. PICK T \in Bad : Cardinality(T) = n
    BY <2>2
  <2>4. CASE T = {}
    <3>1. EntriesOf(T) = {} /\ g[T] = 0
      BY <1>2, <2>4 DEF EntriesOf, SumStep
    <3>2. QED BY <2>3, <3>1, Card01
  <2>5. CASE T # {}
    <3> DEFINE x == Any(T)
               R == T \ {x}
    <3>1. x \in T /\ x \in Severities /\ R \in SUBSET Severities /\ T \in SUBSET Severities
      BY <2>5 DEF Any
    <3>2. Cardinality(R) = Cardinality(T) - 1 /\ Cardinality(T) \in Nat
      BY <1>4, <3>1, FS_RemoveElement
    <3>3. R \notin Bad
      <4>1. R \in Bad => Cardinality(R) \in Sizes
        OBVIOUS
      <4> HIDE DEF Bad, Sizes, R
      <4>2. QED BY <2>2, <2>3, <3>2, <4>1
    <3>4. Good(R)
      BY <3>1, <3>3
    <3>5. g[T] = count[x] + g[R]
      BY <1>2, <2>5, <3>1 DEF SumStep
    <3>6. EntriesOf(T) = EntriesOf(R) \cup Logged(x)
      BY <3>1 DEF EntriesOf, Logged
    <3>7. /\ IsFiniteSet(Logged(x)) /\ Cardinality(Logged(x)) \in Nat
          /\ Cardinality(Counted(x)) \in Nat
      BY <3>1, NumberLogged, NumberCounted DEF AccessInv
    <3>8. count[x] \in Nat /\ Cardinality(Logged(x)) <= count[x]
      BY <1>1, <3>1, <3>7 DEF CountsAccount
    <3>9. Cardinality(EntriesOf(T)) <= Cardinality(EntriesOf(R)) + Cardinality(Logged(x))
      <4> DEFINE both == EntriesOf(R) \cap Logged(x)
      <4>1. Cardinality(both) \in Nat
        BY <3>7, FS_Subset, FS_CardinalityType
      <4>2. Cardinality(EntriesOf(T))
              = Cardinality(EntriesOf(R)) + Cardinality(Logged(x)) - Cardinality(both)
        BY <1>3, <3>6, <3>7, FS_Union
      <4> HIDE DEF both, R
      <4>3. QED BY <1>3, <3>7, <4>1, <4>2
    <3> HIDE DEF x, R
    <3>10. Good(T)
      BY <1>3, <3>4, <3>5, <3>7, <3>8, <3>9
    <3>11. QED BY <2>3, <3>10
  <2>6. QED BY <2>4, <2>5
<1>6. Good(Severities)
  BY <1>5
<1>7. EntriesOf(Severities) = 1 .. Len(entries) /\ Len(entries) \in Nat
  <2>1. DOMAIN entries = 1 .. Len(entries) /\ Len(entries) \in Nat
    BY <1>1
  <2>2. \A i \in DOMAIN entries : entries[i] \in Entry
    BY <1>1
  <2>3. \A i \in DOMAIN entries : entries[i].sev \in Severities
    BY <2>2 DEF Entry
  <2>4. QED BY <2>1, <2>3 DEF EntriesOf
<1>8. Cardinality(EntriesOf(Severities)) = Len(entries)
  BY <1>7, FS_Interval
<1>9. QED BY <1>2, <1>6, <1>8

(* The entries stay as long as somebody has the file mapped.               *)
LEMMA EntriesOnlyGrow ==
  ASSUME AccessInv, [Next]_vars
  PROVE  Len(entries) <= Len(entries') \/ NoReader
<1>1. ASSUME NEW t \in Threads, WriteEntry(t) PROVE Len(entries) <= Len(entries')
  BY <1>1, Appended DEF AccessInv
<1>2. Len(entries) \in Nat
  BY DEF AccessInv, TypeOK
<1>3. QED BY <1>1, <1>2, EntrySteps DEF ClearsTables

MappedInv == \A r \in Readers : rstate[r] # "closed" => rlen[r] <= Len(entries)

LEMMA NextMapped ==
  ASSUME AccessInv, CountsAccount, MappedInv, ReaderMissesNothing, [Next]_vars
  PROVE  MappedInv' /\ ReaderMissesNothing'
<1>0. Len(entries) \in Nat /\ Len(entries') \in Nat /\ rlen \in [Readers -> Nat]
  BY NextTypeOK DEF AccessInv, TypeOK
<1>1. ASSUME NEW r \in Readers, ReaderSteps(r) PROVE MappedInv' /\ ReaderMissesNothing'
  <2> SUFFICES ASSUME NEW q \in Readers
               PROVE  /\ rstate'[q] # "closed" => rlen'[q] <= Len(entries')
                      /\ rstate'[q] = "open" => rlen'[q] <= rindex'[q]
    BY DEF MappedInv, ReaderMissesNothing
  <2>1. entries' = entries /\ TotalCount \in Nat /\ Len(entries) <= TotalCount
    BY <1>1, ReaderFrame, EntriesAreCounted DEF writerVars, fileVars
  <2>2. /\ rstate \in [Readers -> {"closed", "mapped", "open"}]
        /\ rlen \in [Readers -> Nat] /\ rindex \in [Readers -> Nat]
    BY DEF AccessInv, TypeOK
  <2>3. CASE MapForReading(r)
    BY <1>0, <2>1, <2>2, <2>3 DEF MapForReading, MappedInv, ReaderMissesNothing
  <2>4. CASE BuildIndex(r)
    <3>1. /\ rstate[r] = "mapped" /\ rlen' = rlen /\ rlen[r] <= Len(entries)
          /\ rindex' = [rindex EXCEPT ![r] = TotalCount]
          /\ rstate' = [rstate EXCEPT ![r] = "open"]
      BY <2>4 DEF BuildIndex, MappedInv
    <3> HIDE DEF TotalCount
    <3>2. rlen[r] <= TotalCount
      BY <1>0, <2>1, <2>2, <3>1
    <3>3. QED BY <2>1, <2>2, <3>1, <3>2 DEF MappedInv, ReaderMissesNothing
  <2>5. CASE BuildIndexFails(r) \/ CloseReader(r)
    BY <2>1, <2>2, <2>5 DEF BuildIndexFails, CloseReader, Unmap, MappedInv, ReaderMissesNothing
  <2>6. CASE \E i \in 0 .. MaxRecords : ReadLog(r, i)
    BY <2>1, <2>2, <2>6 DEF ReadLog, MappedInv, ReaderMissesNothing
  <2>7. QED BY <1>1, <2>3, <2>4, <2>5, <2>6 DEF ReaderSteps
<1>2. CASE UNCHANGED readerVars
  <2>1. Len(entries) <= Len(entries') \/ NoReader
    BY EntriesOnlyGrow
  <2>2. QED BY <1>0, <1>2, <2>1 DEF readerVars, MappedInv, ReaderMissesNothing, NoReader
<1>3. ASSUME NEW p \in Processes, OpenSteps(p) PROVE UNCHANGED readerVars
  BY <1>3, OpenFrame
<1>4. ASSUME NEW p \in Processes, EndProcess(p) PROVE UNCHANGED readerVars
  BY <1>4 DEF EndProcess
<1>5. ASSUME NEW t \in Threads, CallSteps(t) PROVE UNCHANGED readerVars
  BY <1>5, ThreadFrame
<1>6. CASE UNCHANGED vars
  BY <1>6, <1>2 DEF vars
<1>7. QED BY <1>1, <1>2, <1>3, <1>4, <1>5, <1>6
      DEF Next, CallSteps, ExitProcess, TerminateProcess

(* The index of a reader has every entry that the file had when it was     *)
(* mapped: an event is counted before its entry is written, and no entry   *)
(* goes while the file is mapped (vxlwrite.c:204, vxlpriv.c:92-120).       *)
THEOREM ReadersMissNothing == Spec => []ReaderMissesNothing
<1>1. Init => MappedInv /\ ReaderMissesNothing
  BY DEF Init, MappedInv, ReaderMissesNothing
<1>2. AccessInv /\ CountsAccount /\ MappedInv /\ ReaderMissesNothing /\ [Next]_vars
        => MappedInv' /\ ReaderMissesNothing'
  BY NextMapped
<1>3. QED BY <1>1, <1>2, AccessIsInvariant, CountsAreAccountedFor, PTL DEF Spec
----------------------------------------------------------------

-----------------------------------------------------------------------------
(* The file implements the log of VxlLogSpec.                              *)

Pending(t) == IF pc[t] \in {"wait", "find", "count", "append"} THEN req[t] ELSE None

(* The records of the log correspond to the entries of the file.           *)
LogMatchesFile ==
  /\ InLog \in Seq(Request)
  /\ Len(InLog) = Len(entries)
  /\ \A i \in 1..Len(entries) : InLog[i] = RecordOf(entries[i])

LEMMA InLogIsLog == TypeOK => LogMatchesFile
<1> SUFFICES ASSUME TypeOK PROVE LogMatchesFile
  OBVIOUS
<1>1. DOMAIN entries = 1..Len(entries) /\ Len(entries) \in Nat
  BY DEF TypeOK
<1>2. ASSUME NEW i \in DOMAIN entries PROVE RecordOf(entries[i]) \in Request
  <2>1. entries[i] \in Entry
    BY <1>2 DEF TypeOK
  <2>2. SourceOf(entries[i]) \in [Tables -> Names]
    BY <2>1, NamesAssumption DEF TypeOK, Entry, SourceOf
  <2>3. QED BY <2>1, <2>2 DEF Entry, Request, RecordOf
<1>3. QED BY <1>1, <1>2 DEF InLog, LogMatchesFile

(* What an entry says does not change.                                     *)
LEMMA RecordsStay ==
  ASSUME TypeOK, SourcesResolve, KeepsNames, NEW i \in DOMAIN entries, NEW k \in Tables,
         entries[i].src[k] # Empty
  PROVE  table'[k][entries[i].idx[k]] = table[k][entries[i].idx[k]]
<1>1. entries[i] \in Entry
  BY DEF TypeOK
<1>2. entries[i].idx[k] \in Slots
  BY <1>1 DEF Entry
<1>3. QED BY <1>2 DEF SourcesResolve, KeepsNames

LEMMA SameLog ==
  ASSUME TypeOK, SourcesResolve, KeepsNames, UNCHANGED entries
  PROVE  UNCHANGED InLog
BY RecordsStay DEF InLog, RecordOf, SourceOf

LEMMA SamePending ==
  ASSUME \A t \in Threads : Pending(t)' = Pending(t)
  PROVE  UNCHANGED InFlight
BY DEF Pending, InFlight

LEMMA RefineWrite ==
  ASSUME AccessInv, TypeOK', IndicesResolve, SourcesResolve, NEW t \in Threads, WriteEntry(t)
  PROVE  Abstract!Commit(t)
<1> USE DEF AccessInv
<1>1. UNCHANGED table /\ pc[t] = "append" /\ UNCHANGED req
  BY DEF WriteEntry
<1>2. KeepsNames
  BY <1>1 DEF KeepsNames
<1>3. req[t] \in Request /\ req[t] # None
  BY FirstSlot DEF TypeOK
<1>4. InFlight[t] = req[t]
  BY <1>1 DEF InFlight
<1>5. InFlight' = [InFlight EXCEPT ![t] = None]
  BY DEF InFlight, WriteEntry, TypeOK
<1>6. InLog' = Append(InLog, req[t])
  <2>1. /\ InLog \in Seq(Request) /\ Len(InLog) = Len(entries)
        /\ \A i \in 1..Len(entries) : InLog[i] = RecordOf(entries[i])
    BY InLogIsLog DEF LogMatchesFile
  <2>2. /\ InLog' \in Seq(Request) /\ Len(InLog') = Len(entries')
        /\ \A i \in 1..Len(entries') : InLog'[i] = RecordOf(entries[i])'
    <3>1. LogMatchesFile'
      BY InLogIsLog, PTL
    <3>2. QED BY <3>1 DEF LogMatchesFile
  <2>3. Len(entries') = Len(entries) + 1 /\ Len(entries) \in Nat
    BY Appended
  <2>4. ASSUME NEW i \in 1..Len(entries) PROVE InLog'[i] = InLog[i]
    <3>1. i \in DOMAIN entries /\ entries'[i] = entries[i]
      BY <2>4, Appended
    <3>2. RecordOf(entries[i])' = RecordOf(entries[i])
      BY <1>1, <3>1 DEF RecordOf, SourceOf
    <3>3. QED BY <2>1, <2>2, <2>3, <2>4, <3>2
  <2>5. InLog'[Len(entries) + 1] = req[t]
    <3>1. entries'[Len(entries) + 1] = EntryOf(t)
      BY Appended
    <3>2. \A k \in Tables : req[t].src[k] # Empty => table[k][idx[t][k]] = req[t].src[k]
      BY <1>1 DEF IndicesResolve, HasIndex
    <3>3. [k \in Tables |-> IF req[t].src[k] = Empty THEN Empty ELSE table[k][idx[t][k]]]
             = req[t].src
      BY <1>3, <3>2 DEF Request
    <3>4. RecordOf(EntryOf(t)) = [sev |-> req[t].sev, src |-> req[t].src]
      BY <3>3 DEF RecordOf, SourceOf, EntryOf
    <3>5. RecordOf(EntryOf(t)) = req[t]
      BY <1>3, <3>4 DEF Request
    <3>6. InLog'[Len(entries) + 1] = [sev |-> (EntryOf(t)).sev,
                                      src |-> [k \in Tables |->
                                                 IF (EntryOf(t)).src[k] = Empty THEN Empty
                                                 ELSE table[k][(EntryOf(t)).idx[k]]]]
      BY <1>1, <2>2, <2>3, <3>1 DEF RecordOf, SourceOf
    <3>7. QED BY <3>5, <3>6 DEF RecordOf, SourceOf
  <2>6. QED BY <1>3, <2>1, <2>2, <2>3, <2>4, <2>5
<1>7. QED BY <1>3, <1>4, <1>5, <1>6 DEF Abstract!Commit

(* A thread of T has lost its record, the others are where they were.      *)
LEMMA RefineDrop ==
  ASSUME NEW T \in SUBSET Threads, UNCHANGED InLog,
         \A t \in T : Pending(t)' = None,
         \A t \in Threads \ T : Pending(t)' = Pending(t)
  PROVE  Abstract!Next
<1>1. InFlight' = [t \in Threads |-> IF t \in T THEN None ELSE InFlight[t]]
  BY DEF InFlight, Pending
<1>2. Abstract!Drop(T)
  BY <1>1 DEF Abstract!Drop
<1>3. QED BY <1>2 DEF Abstract!Next

LEMMA RefineSubmit ==
  ASSUME NEW t \in Threads, NEW r \in Request, UNCHANGED InLog, Pending(t)' = r,
         \A u \in Threads \ {t} : Pending(u)' = Pending(u)
  PROVE  Abstract!Next
<1>1. InFlight' = [InFlight EXCEPT ![t] = r]
  BY DEF InFlight, Pending
<1>2. Abstract!Submit(t, r)
  BY <1>1 DEF Abstract!Submit
<1>3. QED BY <1>2 DEF Abstract!Next

LEMMA RefineNext ==
  ASSUME AccessInv, TypeOK', NamesInv, [Next]_vars
  PROVE  [Abstract!Next]_(Abstract!vars)
<1> USE DEF AccessInv, NamesInv, fileVars, threadVars, readerVars
<1>1. CASE ClearsTables
  <2>1. InLog' = <<>>
    BY <1>1 DEF ClearsTables, InLog
  <2>2. UNCHANGED InFlight
    BY <1>1 DEF ClearsTables, InFlight
  <2>3. Abstract!Erase
    BY <2>1, <2>2 DEF Abstract!Erase
  <2>4. QED BY <2>3 DEF Abstract!Next
<1>2. ASSUME NEW t \in Threads, WriteEntry(t) PROVE Abstract!Next
  BY <1>2, RefineWrite DEF Abstract!Next
<1>3. CASE KeepsNames /\ UNCHANGED entries
  <2>1. UNCHANGED InLog
    BY <1>3, SameLog
  <2>2. ASSUME UNCHANGED <<pc, req>> PROVE UNCHANGED Abstract!vars
    BY <2>1, <2>2, SamePending DEF Pending, Abstract!vars
  <2>3. ASSUME NEW p \in Processes, OpenSteps(p) PROVE UNCHANGED Abstract!vars
    BY <2>2, <2>3, OpenFrame
  <2>4. ASSUME NEW p \in Processes, EndProcess(p) PROVE Abstract!Next
    <3>1. \A t \in ThreadsOf(p) : Pending(t)' = None
      BY <2>4, EndFrame DEF ThreadsOf, Pending
    <3>2. \A t \in Threads \ ThreadsOf(p) : Pending(t)' = Pending(t)
      BY <2>4, EndFrame DEF ThreadsOf, Pending
    <3>3. QED BY <2>1, <3>1, <3>2, RefineDrop DEF ThreadsOf
  <2>5. ASSUME NEW t \in Threads, CallSteps(t), ~WriteEntry(t)
        PROVE  Abstract!Next \/ UNCHANGED Abstract!vars
    <3>1. ASSUME NEW r \in Requests, BeginWrite(t, r) PROVE Abstract!Next
      <4>1. Pending(t)' = r /\ \A u \in Threads \ {t} : Pending(u)' = Pending(u)
        BY <3>1 DEF BeginWrite, Pending, TypeOK
      <4>2. r \in Request
        BY ConstantsAssumption
      <4>3. QED BY <2>1, <4>1, <4>2, RefineSubmit
    <3>2. CASE HeaderFault(t)
      <4>1. Pending(t)' = FaultReport /\ \A u \in Threads \ {t} : Pending(u)' = Pending(u)
        BY <3>2 DEF HeaderFault, Pending, TypeOK
      <4>2. QED BY <2>1, <4>1, FirstSlot, RefineSubmit
    <3>3. CASE NameTooLong(t) \/ TableFull(t) \/ CountFaults(t) \/ WriteFails(t)
      <4>1. Pending(t)' = None /\ \A u \in Threads \ {t} : Pending(u)' = Pending(u)
        BY <3>3 DEF NameTooLong, TableFull, CountFaults, WriteFails, Pending, TypeOK
      <4>2. {t} \in SUBSET Threads /\ \A u \in {t} : Pending(u)' = None
        BY <4>1
      <4>3. QED BY <2>1, <4>1, <4>2, RefineDrop
    <3>4. CASE ReleaseLock(t)
      <4>1. \A u \in Threads : Pending(u)' = Pending(u)
        BY <3>4 DEF ReleaseLock, Return, Pending, TypeOK
      <4>2. QED BY <2>1, <4>1, SamePending DEF Abstract!vars
    <3>5. CASE AcquireLock(t) \/ CountEvent(t)
      <4>1. \A u \in Threads : Pending(u)' = Pending(u)
        BY <3>5 DEF AcquireLock, CountEvent, Pending, TypeOK
      <4>2. QED BY <2>1, <4>1, SamePending DEF Abstract!vars
    <3>6. CASE FindIndex(t) \/ CreateIndex(t)
      <4>1. \A u \in Threads : Pending(u)' = Pending(u)
        BY <3>6 DEF FindIndex, CreateIndex, GotIndex, Looking, Pending, TypeOK
      <4>2. QED BY <2>1, <4>1, SamePending DEF Abstract!vars
    <3>7. QED BY <2>5, <3>1, <3>2, <3>3, <3>4, <3>5, <3>6 DEF CallSteps, LockedSteps
  <2>6. ASSUME NEW r \in Readers, ReaderSteps(r) PROVE UNCHANGED Abstract!vars
    BY <2>2, <2>6, ReaderFrame DEF writerVars
  <2>7. CASE UNCHANGED vars
    BY <2>2, <2>7 DEF vars
  <2>8. QED BY <1>2, <2>3, <2>4, <2>5, <2>6, <2>7
        DEF Next, CallSteps, ExitProcess, TerminateProcess
<1>4. QED BY <1>1, <1>2, <1>3, TablesKept, EntrySteps

(* The log file implements VxlLogSpec: whatever goes wrong, a record is    *)
(* appended to the log once and as it was passed, or it is dropped, and    *)
(* what the log says afterwards never changes (vxlwrite.c:22-229,          *)
(* vxlpriv.c:125-231).                                                     *)
THEOREM Refinement == Spec => ImplementsLog
<1>1. Init => Abstract!Init
  <2> SUFFICES ASSUME Init PROVE Abstract!Init
    OBVIOUS
  <2>1. InLog = <<>>
    BY DEF Init, InLog
  <2>2. InFlight = [t \in Threads |-> None]
    BY DEF Init, InFlight
  <2>3. QED BY <2>1, <2>2 DEF Abstract!Init
<1>2. AccessInv /\ TypeOK' /\ NamesInv /\ [Next]_vars => [Abstract!Next]_(Abstract!vars)
  BY RefineNext
<1>3. QED
  BY <1>1, <1>2, AccessIsInvariant, NamesAreInvariant, TypeCorrect, PTL
  DEF Spec, ImplementsLog, Abstract!Spec
=============================================================================
