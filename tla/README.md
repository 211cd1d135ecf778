# VxKex in TLA+

VxKex lets programs for newer versions of Windows run on Windows 7. KexDll is
loaded into each enabled program by the loader (as an application verifier
provider), rewrites its DLL imports, puts its own directory on the DLL search
path, tells the program another version of Windows, spreads to the processes
that the program creates, and logs what it does to a *VXL* log file. KexSrv is a
server process that those programs announce themselves to, and send their hard errors to,
over a named pipe.
VxlView shows log files. VXLL is the log library from before KexDll had its own.

This directory holds TLA+ models of the parts of VxKex that have state,
interleavings or intricate algorithms, the TLC configurations that check them,
and proofs (TLAPS) of the main theorems. Each definition carries the name of the
function it models where there is one; `PROJECT.json` maps every definition to
its source lines. Line numbers below are those of the sources.

1. [Files](#files)
2. [Inventory](#inventory)
3. [VxlLog](#vxllog), [KexSrv](#kexsrv), [Propagation](#propagation),
   [Rewriting](#rewriting-strmap-and-kexldr), [DllPath](#dllpath-and-kexrtl),
   [KexDll](#kexdll-advlog-and-kexdata), [VxlView](#vxlview), [VxlLegacy](#vxllegacy)
4. [Fairness](#fairness), [Proofs](#proofs)
5. [Divergences](#divergences-met-while-modelling), [Not modelled](#not-modelled),
   [What is left](#what-is-left)

## Files

| file | contents |
| --- | --- |
| `VxlLogSpec` | what a log promises: records are appended once, unaltered |
| `VxlLog`, `MCVxlLog` | one log file, its writer processes and threads, its readers |
| `KexSrv`, `MCKexSrv` | the server, its pipe, and the channel in the clients |
| `Propagation`, `MCPropagation` | the hooks by which VxKex gets into child processes |
| `StrMap` | the string mapper, as functions |
| `KexLdr` | lookups in loaded images, as functions |
| `Rewriting`, `MCRewriting` | reading the DllRewrite key, rewriting the imports of images (uses `StrMap`) |
| `KexRtl` | string routines, as functions on a memory |
| `DllPath`, `MCDllPath` | the search path and the cutting of duplicates (uses `KexRtl`) |
| `KexData` | configuration, names and directories of logs, as functions (uses `KexRtl`) |
| `AdvLog` | the hook on the debug print function (uses `StrMap`) |
| `KexDll`, `MCKexDll` | DllMain from its first call to the last, with `AdvLog`; its MC module also checks `KexData` |
| `VxlView`, `MCVxlView` | the back end of the viewer: open log, filter, rows, export |
| `VxlLegacy`, `MCVxlLegacy` | the log library VXLL: writer, crash, reader |
| `VxlLogProofs`, `KexSrvProofs`, `PropagationProofs`, `RewritingProofs`, `DllPathProofs`, `KexDllProofs`, `VxlViewProofs`, `VxlLegacyProofs` | theorems and their proofs |
| `*.cfg` | one for each run |

From this directory, `tlc -config KexSrv.cfg MCKexSrv.tla` model-checks a
configuration, `tlapm KexSrvProofs.tla` checks the proofs of a module. In modules
of code, operators named `Mutant...` are wrong versions of a definition that
`PROJECT.json` lists with the property that notices them; no action uses them.

## Inventory

| component | state | operations | hard behaviour | what makes it correct |
| --- | --- | --- | --- | --- |
| VXL log (`KexDll/vxl*.c`) | mapped header (counts, source tables, dirty flag), entries, SRW lock of a handle, index of a reader | VxlOpenLog, VxlWriteLogEx, VxlReadLog, VxlCloseLog | threads and processes on one file, exceptions in the mapped header, full disk, death of a process between any two steps, reader of a growing file | header and entries agree, indices resolve, entries stay, the lock is returned |
| KexSrv (`KexSrv/`) | connect event, current pipe instance, table of clients | loop of EntryPoint, AcceptConnectProcess, CompletedWriteApc, DisconnectProcess | connections between two calls of the loop, second server, clients that vanish, process ids that come back, pipe quota | no lost wakeup, handles owned, messages in order, every client registered |
| KexSrv client (`KexDll/kexsrv.c`, `kexhe.c`) | SrvChannel, the NtRaiseHardError hook | open, notify, send | the server ends while the channel is open or never reads, full pipe | messages in order; a hard error that is not queued is raised, or lost with its server |
| propagation (`propagte.c`), hooks (`kexhk.c`) | stubs of NtOpenKey and NtOpenKeyEx in the child, temporary view of KexDll, magic number and flag of the Peb, virtual IFEO key | NtCreateUserProcess hook, hooks of the two stubs, clean-up by the child | nine steps in a suspended child may each fail; code is unmapped that hooks jump into; a child that is hooked by a parent and configured by a key of its own | no dangling hook, clean afterwards, spreads as told, the child is resumed |
| string mapper (`strmap.c`) | hash table of string pairs | create, insert, batch insert, look up, apply, remove | duplicate keys, collisions, case folding | it is a map |
| DLL rewriting (`dllrewrt.c`, `dllnotif.c`), loader lookups (`kexldr.c`) | mapper, import directories of images | initialise, rewrite imports, loader notification, lookups | key that changes while it is read by index, failure half-way through an image, names overwritten in place | mapper = registry, imports = mapper, never longer |
| DLL path (`dllpath.c`), strings (`kexrtl.c`, `KexStrSafe.h`) | the path in its buffer | cut duplicates, prepend, pad; search, compare | 16-bit lengths, partial matches, old characters behind the end | same directories in the same order, same length |
| KexDll start-up (`dllmain.c`, `avrf.c`, `verspoof.c`, `logging.c`) | version in Peb and SharedUserData, hooks, log handle | DllMain | steps that fail and are not looked at | version told consistently; log where it belongs, names that sort |
| advanced logging (`advlog.c`) | a mapper made on first use, hook | parse and log a message of the loader | several threads make and fill the mapper without a lock | the right source file, no error lost |
| process data (`kexdata.c`) | KexData | read configuration | values that are missing, too long, of another type, without NUL, that fault | user before machine before default |
| VxlView back end (`VxlView/backend*.c`) | open log, filter, lookup table, estimate, export threads | OpenLogFile, SetBackendFilters, GetLogEntry, ExportLog | window thread and export threads share state; the log grows meanwhile | rows and exports are what the filter and the log say |
| legacy VXLL (`VXLL/`) | as VXL, format 2, with a lock in the file | open, write with rollback, index, read, export | look-up outside of the lock, rollback without a position, crash before the header is written | the file is what was written |
| the rest | windows, dialogs, wrappers, tables of names, utilities | | none across calls | |

KexDll and KexSrv call the log; KexDll sends to KexSrv over the pipe; VxlView
reads the files that KexDll writes, possibly at the same time. The exception
filter of KexDll calls the log from inside the log. DllMain calls the
initialisers of rewriting, propagation, advanced logging and the channel in a
fixed order; the loader calls back on every DLL that is loaded, under its lock.
A child meets what its parent's propagation did to it in its own start-up.

## VxlLog

**State.** `fileApp`, `count`, `table`, `dirty` are the fields of
VXLLOGFILEHEADER the code reads back (a file whose header is not valid is
`Foreign`); `entries` are the entries after it, each with the indices the file
stores and, as history, the names that were passed; `lost` is a history of
events counted without an entry. `holder` is the process the share mode lets
write; `handle[p]` is how far VxlOpenLog got (`broken`: it failed, and handed out
its context all the same); `lock[p]` is the SRW lock of the handle; `pc`, `req`,
`idx`, `step` belong to one call of VxlWriteLogEx. `rstate`, `rlen`, `rindex`,
`rread` belong to a reader.

**Actions.** VxlOpenLog for writing takes two steps, opening (`CreateLogFile`,
`OpenExistingLogFile`, `OpenFails`) and the header (`PopulateHeader`,
`ValidateHeader`, `RejectHeader`, `MapFails`), so that a process can die in
between. VxlWriteLogEx: `BeginWrite`, `AcquireLock`, one of `FindIndex`,
`CreateIndex`, `NameTooLong`, `TableFull`, `HeaderFault` for each of the tables
of names, `CountEvent` or `CountFaults`, `WriteEntry` or `WriteFails`,
`ReleaseLock`. `ExitProcess` is DLL_PROCESS_DETACH after ExitProcess has stopped
the other threads; `TerminateProcess` closes nothing. Readers: `MapForReading`,
`BuildIndex`, `BuildIndexFails`, `ReadLog`, `CloseReader`.

**Left out.** The text of entries, time stamps, file offsets (an entry is a
unit; extending the file by NtSetInformationFile and filling it are one write),
the queries, VxlReadMultipleEntriesLog (no caller), a reader that creates a file
(no caller asks for it), allocation failures before the lock is taken.
An event that a process counted in the moment it dies is `lost`.

**Runs.** `vxllog`: two processes, three threads, one reader, two tables with two
slots, four names of which one does not fit, two dispositions, all failures, two
counted events per file. Two slots are enough for a full table, for a truncated
duplicate and for two names in one table; two events are enough for a reader that
sees one of two and for two threads at the end of the file. Calls that fail do
not use up an event, so their number is not bounded. The run ends in states where
nobody can call any more (all events used up), hence CHECK_DEADLOCK FALSE.
`vxllog_self_deadlock` and `vxllog_off_by_one` show two disagreements of the code
with its own comments and assertions (`findings` in PROJECT.json).

| property | says |
| --- | --- |
| `TypeOK` | the types, which are not inductive alone |
| `OneChanger` | one thread of the whole system works on the file |
| `CountsAccount` | counts = entries + event in flight + lost events |
| `SourceTables` | the index of an entry leads to the name that was passed; used slots come first; only truncated names stand in two slots |
| `DirtyWhileOpen` | a log in use is marked dirty, whoever else tries to open it |
| `ReaderMissesNothing` | the index of a reader has all entries it could map |
| `FileOnlyGrows` | entries and used slots stay as they are, unless the file is emptied by someone who has it for himself |
| `LockIsReleased` | the lock comes back on every path but an exception |
| `ImplementsLog` | refinement of `VxlLogSpec` |

## KexSrv

**State.** `srv[s]` is where EntryPoint is; `cur[s]` its PipeHandle; `event[s]`
ConnectEventHandle. An instance of the pipe has the processes at its two ends,
the ClientProcessId, whether a listen or a read is pending, the messages nobody
has read, and whether the client is in ProcessThreadTable. `chan[c]` is
SrvChannel of a client, `outcome[c]` what became of its last hard error: `queued`, handed
to the pipe with success, which is not to say that anybody reads it; `raised` with the
original API; `lost`, the status of a failed write.

**Actions.** One per step of EntryPoint that another process can get in
between: the probe (which, when it succeeds, *is* a client of the other server),
the log, creation of an instance, FSCTL_PIPE_LISTEN, the wait with
AcceptConnectProcess, the first read, DisconnectProcess. A client opens the
channel, announces itself, and raises hard errors. KillServer and ExitClient
happen at any time. Process ids are used again.

**The pipe** is not part of the repository. Assumed of it: an instance can be
opened as soon as it exists; FSCTL_PIPE_LISTEN resets the event, then waits,
or says STATUS_PIPE_CONNECTED or STATUS_PIPE_CLOSING; an instance is gone when
both ends are closed; unread messages survive their sender; a write waits while
the unread messages exceed the quota, unless a read takes it; a handle is closed
when its process ends.

**Left out.** Message contents (the kind is enough), the messages of the log
other than the first one, KexIpcLogEvent (no sender), RegisterThread,
UnregisterThread and KexSrvSendReceiveMessage (no caller). A client sends one
message at a time: its handle is synchronous.

**Runs.** `kexsrv`: two servers, two clients, three instances (one in use by each
client and one that listens, or all used up), symmetric in processes.
`kexsrv_liveness`: two servers, one client, two instances, without symmetry. An
announcement has size 1, an error size 2, the quota is 2, so that a client can
block. Faults: `dir` (no log directory), `log` (the log cannot be opened; liveness
run only, it adds nothing but servers that hang), `alloc` (no memory in
AcceptConnectProcess), `garbage` (the status CompletedWriteApc looks at first is
not initialised). All processes may stop for good: CHECK_DEADLOCK FALSE.

| property | says |
| --- | --- |
| `EventTellsOfClients` | a server that waits is woken by a client and by nothing else |
| `HandlesAreOwned` | no handle of the pipe is leaked or outlives its entry |
| `MessagesKeepTheirOrder` | the announcement is the first message, and only that; it is all a server reads: a hard error that was sent with success lies in the pipe of a server that runs; one whose write fails is lost with the server |
| `ConnectionsAreAccepted` | a client that stays connected is registered |
| `FirstMessageArrives` | and its first message is read |

## Propagation

**State.** `proc[p]` is a process: how far it has started, the first bytes of its
two native stubs, whether the temporary KexDll is mapped, the flag
RTL_USER_PROCESS_PARAMETERS_IMAGE_KEY_MISSING, the magic number in its Peb,
KEXDATA_FLAG_PROPAGATED, DisableForChild, whether NtCreateUserProcess is hooked,
its creator, and as history which of its steps failed. `call[p][t]` is where thread
t of p is in its hook of NtCreateUserProcess. `virtual` is the content of the
virtual IFEO key.

**Actions.** `CreateUserProcess` is the call with the initial thread suspended, or
the original for a process without the hook; when it fails, `CreateAsAsked` repeats it
with the parameters of the caller, for a child that VxKex leaves alone. Then
`OpenKexDll`, `MapRemote`, `FindHooks`, `WriteNtOpenKey`, `WriteNtOpenKeyEx`,
each with its failure, `BailOut` and `ResumeChild`. In the child `Start(p)`: the
loader opens the IFEO key and the key of the image through the stubs,
KexDataInitialize, the search for the native stubs, the clean-up in its three
parts (each of which may fail; the code looks only at the unmapping, and a copy onto a stub
whose page was not made writable faults and is swallowed: `RestoreFails`), and the hook
of the next generation. A process of another bitness than the system's has two steps more
that may fail: finding the hooks, and finding its native stubs. `ProgramResumes` is the caller who wanted a suspended thread; `End` ends a
process at any moment.

**Left out.** Addresses and machine code (a stub holds the system call or one of
the two templates), the names of keys, Wow64 besides its bitness.

**Run.** `propagation`: three generations of 64, 32 and 64 bits; their own keys
spread, do not exist, and stay (KEX_DisableForChild); the virtual key has each of its three contents;
one failed step in each process, which is enough for every path to the bail-out and for
every clean-up that goes wrong, and one process that ends. Two failures of one process (one
by its creator and one in its own clean-up, for instance) are left to the proofs, as is more
than one thread in each process: a call works on one child. Processes end or wait:
CHECK_DEADLOCK FALSE.

| property | says |
| --- | --- |
| `NoDanglingHook` | a hooked stub leads into mapped code, except inside the clean-up and after one that could not make the stubs writable; NtOpenKeyEx is not hooked alone |
| `CleanWhenEnabled` | nothing of what the parent did is left when VxKex runs, unless a step failed on which that depends (among them the ignored protection) |
| `PropagatesAsTold` | children of a process run with VxKex exactly as far as its keys say |
| `StartsAsAsked` | a child is suspended while the hook works on it, and afterwards only if asked |
| `ResumedInTheEnd` | and it does run then |

## Rewriting, StrMap and KexLdr

**State.** `registry` is the DllRewrite key as a sequence, since it is enumerated
by index; `mapper` the string mapper; `pc` and `index` where DllMain is; `image[i]`
the import names of an image, whether its bound imports are there, and whether a
protection change failed. `seen`, `changes`, `failures` are history.

**Actions.** The loop over the key, one value at a time, by the way it ends
(`InsertValue`, `WrongType`, `InsertFails`, `OutOfMemory`, `EnumerationFails`,
`NoMoreEntries`), in debug and release builds, which differ in whether they go
on; then the search path, the registration of the notification, the rewriting of
the program, and `LoadDll` and `UnloadDll` for ever. An installer changes the key
while it is read (`SetValue`, `DeleteValue`, `DeleteKey`). The rewriting of one image
is one step: the loader lock is held. `StrMap` has every operation of strmap.c on a
sequence of entries, of which those with the same signature form a chain; `KexLdr`
the lookups in the list of modules, in an export directory and in the address
space.

**Left out.** Characters of names (a stem with its length, with or without
`.dll`), the layout of import directories.

**Run.** `rewriting`: five names, of which two differ in case and four collide, five
values, up to three of them in the key in every order, one change and one failed
step; five images in three places. One change is enough to shift the indices.
The mapper is checked on all sequences of three insertions, the lookups on all
address spaces of four allocation units. The initial thread ends with an error
box or the program running: CHECK_DEADLOCK FALSE.

| property | says |
| --- | --- |
| `MapperHoldsRegistry` | the mapper holds strings of the key only, and each once when nothing interfered |
| `ImportsAreMapped` | imports are what the registry says, no longer than before, only where they may be rewritten, and bound imports are gone |
| `InitializationEnds` | the program starts or the user is told, unless the key is deleted meanwhile |
| `MapperIsAMap`, `LookupsAreRight` | the functions agree with reference definitions |

## DllPath and KexRtl

**State.** `buf` the characters of the buffer, `len` the length of the path, `after`
and `cur` the two strings of KexpShrinkDllPathLength as position and length in
`buf`, `target`, `pc`. `path0` is the path before.

**Actions.** One for each pass of the two loops by the way it ends, with
`CutDuplicate` moving the characters in place as RtlMoveMemory does, so that what is
behind the end of the path stays in the buffer; `CutBehindTheEnd` is the pass that
reads such characters; `Build` prepends, cuts off and pads. `KexRtl` has the string
routines as functions on a memory, since they read beyond their strings.

**The order of the search** is a set of pairs of directories (`SearchOrder`): those of
which the first has an entry in front of all entries of the second. It has each
directory paired with itself, so that it says which there are as well. Case and empty
entries do not count.

**Runs.** `dllpath`: all paths of up to five entries out of five: two that differ in
case, one that is the beginning of another, an empty one, one that is long enough to make
room. Letters are two in two cases. `dllpath_entries` shows the disagreement with
the comment at dllpath.c:25-26, for which four entries are enough. A call returns:
CHECK_DEADLOCK FALSE.

| property | says |
| --- | --- |
| `SearchOrderIsKept` | the directories and their order are those of before; after success, those of the string prepended to the old path |
| `LengthIsMaintained` | on success the length is the old one; before, the path only gets shorter, with a NUL at its end unless cutting faulted; only a path shorter than what is prepended ends one character behind (the whole buffer, no NUL, `internal error`) |
| `FoundIsThere` | the string searches report nothing that is not there, whatever they read beyond |
| `Terminates` | the search for duplicates ends |

## KexDll, AdvLog and KexData

**State.** `pc` is where DllMain is; `peb`, `shared`, `versionHook`, `timeHook` what the
program is told of the version; `globalFlag` of the Peb; `log` the log handle.
Advanced logging: `stringMapper` the variable StringMapper, `mappers` all that
were created, `thread[t]` a thread in the hook; `history`, `failed`, `lost` are
history.

**Actions.** Each step of DllMain in its order with its failure; the initialisers
that have a module of their own are steps that succeed or fail. A thread in the hook
of the debug print function takes a step for each access to the mapper: looking at
StringMapper, creating, storing, allocating, inserting, looking up. Inserting into the
same mapper from two threads at once damages its list (`lost`). `KexData` is
functions from what is in the registry and in the file system to the process data,
the name of the log and the directories that exist.

**Left out.** Formatting of messages, what the initialisers do inside (see their
modules), messages of components other than the loader beyond the fact that they
are logged, prefixes of more than 25 characters, a value of the registry that fills its buffer
and has no NUL (the code reads on behind the buffer).

**Run.** `kexdll`: two threads (enough for two mappers), two mappers, one message for
each run, one failed step; versions none, 8.1 and one that is not in the table; the call of the
internal function at the first place, before it and behind the last. The functions are
checked once, on all combinations of values that are missing, right, too long, of
another type, without a NUL at the end. Prefixes of messages have 25 characters in front of
the function, which is what the code skips, or 23, which is what its comment documents. Base
names have up to 105 characters, the most that leave room for 20 figures and `.vxl` in the half
of the buffer that is used; of longer ones, of the build number that RtlGetNtVersionNumbers
tells, and of what follows a string without NUL nothing is claimed, since the code does
not do there what its comments say (see [Divergences](#divergences-met-while-modelling)).
The process ends: CHECK_DEADLOCK FALSE.

| property | says |
| --- | --- |
| `SourceFileIsRight` | a logged message names its file or none; later ones find every function |
| `ErrorsAreLogged` | errors of the loader are logged and nothing else of it is; the name of the function lacks as many of its first characters as the prefix has less than 25 |
| `VersionsAgree` | all sources tell the program the same major and minor version, Windows the real one; from Windows 10 on the Peb and SharedUserData have the same build |
| `ConfigurationHasPrecedence` | user, else machine, else default; in full if the value ends with NUL, at the beginning if not |
| `LogsHaveTheirPlace` | names of logs are legal and, up to 105 characters of base name, sort by time; directories are made with all above them or fail |

## VxlView

**State.** `file`, `filter` and `lookup` are those of BACKENDSTATE, the size of
`lookup` is the estimate. `view` is what GetLogEntryRaw returns for each raw
index: entries never change, so the cache of raw entries is modelled by its
contents. `items` is the number of rows of the list view, `ui` and `enabled` are
the window thread and the input of its window, `exp[e]` an export thread: where
it is, its EntryIndex and MaxEntryIndex, the entry it holds, and as history what
it has written (`out`) and whether the log has stayed the same (`same`).

**Actions.** The window thread opens a log in two steps (`VxlOpenLog` builds the
index, `OpenLogFile` asks for the number of entries and replaces the state),
sets a filter (`UpdateFilters`), draws a row (`ShowRow`, with the whole loop of
GetLogEntryRawIndex), shows its modal dialogs and closes. An export thread
disables the window, asks for the number of entries and creates its file, fetches
and writes each entry, enables the window: other threads come in between. The model is of
a release build, where ASSERT checks nothing: an entry whose conversion or write fails
leaves `Lost` in `out` for what the text file has of it, and the loop goes on. `Write`
is a writer of the log. Undefined behaviour has the outcomes the build can
produce: a read past the end of an array gives junk, NULL or the end of the
process; a use of a freed entry gives its old text or the end of the process.
`ended` says how the process has ended.

**Left out.** Allocation failures, the text that conversion makes and the percentage,
the message that an export ends with, what the process does after a junk entry was stored
past the end of the cache, detached message boxes at the end of an export. An entry is counted and written
at once; the two steps are in `VxlLog`. Two windows on a file are two processes
and do not meet.

**Run.** `vxlview`: two files, one with two entries that may grow to three, one
with three; the threshold is 3, so the first is counted exactly and the second
(as a log of two million entries) by severity; three filters, chosen so that the
selected entries come first, come in the middle, or do not exist; what is read past
the index is an entry that two of them select, or unreadable; an export may lose
one entry; two export
threads, which is how a window enabled by one gets in the way of the other.
The process ends: CHECK_DEADLOCK FALSE.

| property | says |
| --- | --- |
| `RowsAreSelected` | a row shows a selected entry; below the threshold the d-th row the d-th one |
| `EveryEntryHasARow` | the list is long enough for all selected entries of the log, the table for the list; both are exact below the threshold |
| `ExportIsComplete` | an export whose log stays goes through all of it, once and in order, and lacks only entries whose own conversion or write failed |
| `WindowComesBack` | a disabled window is enabled again |

## VxlLegacy

**State.** `file` is the header and the body, in which a cell is the fixed part of
an entry or a character; `writer` the context of the writing process with its
header in memory, its position and its lock; `thread[t]` a call of VxlLogEx;
`reader` the context of a reading process. `written`, `orphans` and `damage` are
history: what was written, how many entries no header counts, and what happened that
spoils the file, by its cause: `race` (two threads in one slot), `cut` (a rollback
to an offset never set), `torn` (part of an entry stays), `begun` (the header of a log
with entries is begun anew), `mixed` (something else than a log was taken for one).

**Actions.** Opening by disposition (`CreateLogFile`), `WriteFirstHeader`,
`ReadLogFileHeader`, `CloseLogFile`, `Crash`. VxlLogEx takes a step each for the look-up
of the component and the addition of one (both outside of the lock), the lock,
finding the end, the write, the rollback, the release with its header. What the code
does not look at may fail as well: GetFileSizeEx, after which any file is
begun anew (vxlp.c:441), and both calls of the rollback (writelog.c:250-251).
VxlQueryLogInformation takes the lock as well. A reader reads the header, then maps the
file and builds its index, then exports: `entries` are the entries as VxlReadLogEntry
returns them, `lines` what VxlConvertLogEntryToText makes of each; one that cannot be
read, converted or written is left out and the export goes on.

**Left out.** Contents of texts besides what splits them, names of severities,
texts of errors, the layout of an exported line.

**Run.** `vxll`: two threads, two slots, five requests (texts without a newline, with one at
the end, with one at the beginning, with two in a row, and a component that does not fit), two
calls, three opened handles, two crashes, two failures, symmetric in threads. Two calls are
enough for a race and for an entry behind another; two failures for a write and its
rollback, or a header and the size of the file; three handles and two crashes for a session
that goes on behind an entry no header counts, and for one that begins the header of such a
file anew. Calls are used up: CHECK_DEADLOCK FALSE.

| property | says |
| --- | --- |
| `FileIsWhatWasWritten` | the body, unless `cut`, `torn` or `mixed`, is what was written in order; the header counts it up to one entry for each crash or failure, unless it was `begun` anew |
| `ReaderTellsWhatWasWritten` | an entry that is read has the severity, text and component of its call, the text whole or split at its first newline with two characters before it and one behind; an exported line has only what is behind the first line |
| `OpensAsAsked` | the flags are accepted and translated as their combination says |

## Fairness

Nobody is obliged to use the system: fairness is only assumed of a thread in the
middle of something, because Windows schedules every thread that can run.

- `VxlLog`: a thread that holds the lock (`LockedSteps`). An SRW lock gives no order
  among waiting threads, so nothing is claimed for those.
- `KexSrv`: the thread of a running server. Clients may send, wait or end as they like;
  the two properties are about clients that stay.
- `Propagation`: the initial thread of a child (`Start`) and a thread in the hook
  (`Continue`). Nobody has to create, resume or end a process.
- `Rewriting`: the initial thread. The key need not ever stop changing, but its changes
  are bounded.
- `DllPath`: the one thread in the call.
- `VxlView`: the window thread inside OpenLogFile and the export threads. A window that
  shows a dialog waits for the user, so `WindowComesBack` claims nothing until then.
- `KexDll`, `VxlLegacy`: none, only safety is claimed.

All are weak. A failure may happen at every step that has one, bounded by a count; no
property needs it to happen or to stop.

## Proofs

Proofs hold for every value of the constants, under the assumptions named in the modules;
TLC evaluates those on every run. None limits the number of processes, threads, entries
or failures. Each theorem about a specification rests on an inductive invariant, since
what is to be shown never says enough about the states in between.

Loops of the code are recursive functions or folds. Where a proof needs an induction over
one, it takes the least number for which something is the case (`LeastNumber`, from the
library's theorem that the order of numbers is well-founded) and shows what that means
for the step before.

**`VxlLogProofs`**. The invariant is `AccessInv /\ NamesInv`.
`AccessInv` has the types (`TypeOK`) and who may do what: a process that is
creating, checking or using the file is the one that holds it (`HolderInv`); a
thread past the lock is the one the lock names (`LockInv`); a thread that has
come to the header works with an open handle, and one that does nothing has its
step reset (`OpenInv`); a reader that mapped the file keeps it from being removed
(`ReaderInv`). Types alone are not inductive: `lost` grows by the number of
counted events, so what a thread may have counted has to be known. From it follow
`TypeCorrect`, `MutualExclusion`, `OpenLogsAreDirty` and that entries and used slots stay
(`EntriesStay`, `SlotsStay`, together `FileGrows`). `NamesInv` adds that the indices
found so far and those of entries resolve (`IndicesResolve`, `SourcesResolve`), that
used slots come first (`SlotsArePacked`), and that duplicates are truncations
(`DuplicatesAreTruncations`); from it `DictionaryIsSound`. `CountsAreAccountedFor` uses
the library's theorems on cardinalities, one lemma for a thread that changes its
step and one for a process that ends. `ReadersMissNothing`: a reader sizes its index by
the sum of the counts, a fold over the severities, and maps no more than the entries
that were there (`MappedInv`); by `CountsAreAccountedFor` the sum is no less.
`Refinement` maps `entries` through the tables
of the header to the log of `VxlLogSpec`: a look-up step keeps the image because used
slots are stable, WriteEntry is its append because the indices resolve.
Assumptions: `ConstantsAssumption` (among them that there are finitely many severities)
and `NamesAssumption` (what StringCchCopy does to names).

**`KexSrvProofs`**. `IInv` adds to the two properties of the server that the instance
a server is busy with is its own (`CurrentIsOwn`), that a pending listen belongs to a
server that waits for it (`ListenIsAwaited`), and that whoever opened an instance has
left its id (`PeerIsKnown`). The event is shared by all instances of a server, so that it
tells of clients needs the knowledge of which one listens: `NoClientIsMissed`,
`NoHandleLeaks`. For the order of messages `MInv` adds what each end knows: an instance
holds an announcement only as first message and only if none was read (`InOrder`), a
server has read nothing yet from the instance it is busy with (`CurrentIsUnread`), and a
client has announced itself exactly if its instance says so or lost its server, and what it
was told is sent is still there (`ClientInv`): `OrderIsKept`, which also says that no hard
error is ever read. Assumptions: `ConstantsAssumption`, and `StartFits`: an
announcement, which holds the name of a file, fits into the quota of the pipe (pipe.c:60).

**`PropagationProofs`**. `Inv` says for each process that hooks lead somewhere
(`HooksLead`), how far its start has come and what is left at that point (`Progress`),
what it was told of its children (`Obedient`), and what a child that was left to itself
looks like (`Family`); for each call how much of the child is patched at which step
(`CallInv`), and that no two calls work on one child (`OneCreator`). This last is what
makes steps of other threads harmless. `HooksNeverDangle`, `NothingRemains`,
`SpreadsAsTold`, `ChildrenStartAsAsked`, for any number of generations, threads and
failures, that of restoring a stub among them (`"restore"`), after which the view is gone
and hooks may be left. Assumption: `PropagationAssumption` (a process has at most the bits of the
system; the first process has a key).

**`RewritingProofs`**. `LookupFindsKey`: following the chain of a signature, a recursive
function, ends at the newest entry with the key, and at none if there is none, for every
hash function and every length of the mapper. With the other theorems about strmap.c the
mapper is a map, whatever collides in it: what was inserted last for a key is found and
nothing else changes (`InsertedKeyIsFound`); a removal takes one entry and leaves what other
keys have (`RemovalKeepsOthers`, from the two sides of the gap it closes); and a batch, which
goes through its pairs backwards and leaves out those without memory, makes the first of
them that remain for a key the one that is found (`InsertedPairsAreFound`; the fold over
the pairs is again treated by the least counterexample). The lookups of kexldr.c:
`NativeIsAlwaysFound`, for every address space in which each mapping fills its units from a
base on, since then the unit below a base is the next to look at; `ProcedureIsAlwaysFound`,
for names without NUL, which is where the comparison of strings ends.
`MapperAlwaysHoldsRegistry`: as long as nobody changed the key
and nothing failed, the mapper has the strings among the first `index` values and one
entry for each (`MapperInv`), because the key has every name once (`RegistryInv`).
Otherwise the mapper has nothing that was never in the key. `ImportsAreAlwaysMapped`:
`ImagesInv` says it of the images that are loaded. By `LookupFindsKey` a name that is
replaced becomes what the registry says of it (`NewNameIsResult`); with a complete mapper
every name is replaced that has a value, since only one value fits it (`EveryRuleIsUsed`).
Assumptions: `RewritingAssumption`, `StrMapAssumption` (folding the case of a key twice is
folding it once).

**`DllPathProofs`**. `LengthIsKept`: the length only falls before the new path is built,
the NUL behind the old end is never moved over, because characters move from behind the
cut towards the front (`BufferInv`, `LenInv`, `EntryInv`), a cut moves a NUL to the new end,
and the loop is left with a path that leaves room for what is prepended, if the old one
had it (`EndInv`). `OrderIsKept` does need the searches.
`FindUnicodeSubstringFinds` shows that what KexRtlFindUnicodeSubstring reports, a recursive
function that may miss matches, is in the haystack and equal to the needle but for case. The
entry looked for is one of the path, and what is searched begins behind it
(`PlaceInv`); hence a whole entry that was found is another entry of the same directory,
behind the first, and to cut that keeps the order (`CutKeepsOrder`). `OrderInv` says this
of the path and of the path behind the string to prepend, since cutting one may
matter to the other; a cut at the end of the path and the padding with
semicolons keep it as well (`CutDoes`, `PadKeepsOrder`). The semicolon has a name in the
model because the provers do not take one in a string. Assumption: `DllPathAssumption`.

**`KexDllProofs`**. `VersionsAlwaysAgree`: `VersionInv` has what of the version was
changed at each step of DllMain, and that a hook which is missing is one that failed.
`SourceFileIsAlwaysRight`: what a thread is about to write is right for its message
(`FileInv`); that later messages find every function needs that the mapper stored last is full
or has a thread filling it (`FillInv`), unless an insertion was lost or failed.
`ErrorsAreAlwaysLogged`: nothing is in the hook before it is set (`NotYet`), and which
step a thread is at says what its message is (`MessagesInv`); what is left behind the skipped
characters is computed for every prefix that is not longer than they are. The steps of DllMain and
those in the hook leave each other's variables alone, but for the log, its hook and the
number of failures. What a look-up finds has a shorter proof here than in
`RewritingProofs`, since this mapper tells case apart. `ConfigurationAlwaysHasPrecedence`
follows the process data through the parameters of the image, the machine's key and
the user's: a read either leaves a buffer or writes a string with its NUL over the
beginning, and then what is behind the NUL is not seen (`TextOfRead`); a string without
NUL is only the beginning of what is seen. `DirectoryIsAlwaysMade`: the recursion of
KexRtlCreateDirectoryRecursive has a closed form (`MadeSteps`) for every path in a file system in which
the directory above one that exists exists. Assumptions: `KexDllAssumption`, `AdvLogAssumption` (the table
of functions has none twice with different files), `StrMapAssumption`.

**`VxlViewProofs`**. `ExportsAreComplete`: the log that is open has at most as many
entries as the live header counts (`LogInv`, from `WindowInv` for a log that is being
opened), and an export has dealt with as many entries as its index says, each as it is in
the log or lost, as long as the log was not replaced (`ExportInv`). `RowsAreAlwaysSelected`: row d, once
looked up, has a selected entry with at most d selected ones in front of it, and with
exactly d as long as there are more than d (`Placed`); the loop of GetLogEntryRawIndex, which
starts at the last row known, keeps that (`TableInv`). `EntriesAlwaysHaveARow`: the
estimate counts a severity at least as often as the log has it, and the list is cut only
behind the last selected entry (`CountInv`). Assumption: `ConstantsAssumption`.

**`VxlLegacyProofs`**. `FileIsAlwaysWhatWasWritten`, `ReaderAlwaysTellsWhatWasWritten` and
`FlagsAreAlwaysObeyed`, for any number of threads, slots, severities, sessions, crashes
and failures. `IInv` has, besides the types and what a phase of the handle allows:
`LockInv`, a thread past the lock is the one the lock names; `BodyInv`, the body
begins with what was written, what is behind that was left by a thread that has yet to roll
it back, and this thread knows where it begins; `CountInv`, the header in the file counts
no more than the one in memory and that no more than was written, and what
is missing are orphans and the entry being released, of which there are no more than
crashes and failures; `SlotsInv`, the slots of counted entries name their
components; `ReaderInv`, the index of a reader has the beginnings of the
entries its header counts. Each is needed for the next: to append where the body ends takes the
lock, to count correctly takes the body, and a reader that counts more entries
than there are would follow garbage. What a race damages is left out of what each part
says from then on: a look-up outside of the lock spoils names only (`race`), a rollback
without a position cuts the file (`cut`), a crash before the rollback, a rollback that
fails, or one while a reader has the file mapped, leaves part of an entry (`torn`), a file
whose size is not found out gets a new header (`begun`, `mixed`). Where a text is split
is proved against the characters of the text, not the bounds of the loop that looks
for it (`SplitThere`). The total of a header is a sum over a set in any order, the place
of an entry a concatenation of all before it, the index a recursion that reads lengths from
the body: for each, a lemma says what one more severity or entry adds, and the least
counterexample does the rest. Assumption: `VxlLegacyAssumption`.

**Only model-checked.** Liveness, which the prover does not reach, nor ENABLED:
`LockIsReleased`, `ConnectionsAreAccepted`, `FirstMessageArrives`, `ResumedInTheEnd`,
`InitializationEnds`, `Terminates`, `WindowComesBack`. The comparisons of functions with
reference definitions are invariants that look at examples; most of what they say is proved for all
arguments: of `FoundIsThere` the substring search (`FindUnicodeSubstringFinds`); of
`MapperIsAMap` look-up, insertion, removal and batches (not the application to a list of
names); of `LookupsAreRight` the search for ntdll.dll and for a procedure (not the names of
DLLs); `ConfigurationHasPrecedence` as a whole, `HasPrecedence` being the predicate of
both; of `LogsHaveTheirPlace` the directories (not the names, whose figures are a recursion over a number).

## Divergences met while modelling

These are shown by a run of their own, since a comment or an assertion says otherwise:

- `vxllog_self_deadlock` (vxlopcl.c:343): when VxlOpenLog fails, its clean-up faults on a
  header that is not mapped, and the unusable context is handed out; the next write
  faults under the lock, and the exception filter logs that through the same handle.
  kexsrv.c:77-78 calls such a failure non-critical.
- `vxllog_off_by_one` (vxlread.c:128): an entry index that passes the check of
  VxlReadLog may be one behind the index.
- `dllpath_entries` (dllpath.c:231): cutting compares with old characters behind the
  end of the path and can remove an entry that is nowhere else.

Where the models reach the following, they do as the code does; no property says
otherwise, and the comments of the properties say what they leave out because of it.

- KexSrv: clients that left stay in the table, because CompletedReadApc does nothing
  when a read ends (apc.c:25-30); their process ids come back, so the assertion in
  procthrd.c:74 does not hold of such a server. All 256 instances are used up in the end,
  and then the server ends itself, as it does when a client leaves between the
  creation of an instance and FSCTL_PIPE_LISTEN (kexsrv.c:169). Because of apc.c:25, too,
  a server reads only one message of a client: the hard errors that kexhe.c:35 speaks of stay in the pipe,
  although the hook returns success. The hook tests SrvChannel (kexhe.c:56) and returns the
  status of sending (kexhe.c:131): with a server that has gone the error reaches nobody, though
  kexhe.c:36 promises the original function when not connected. The second message of a
  client that exceeds the quota blocks it. Two servers may run (kexsrv.c:39-47,
  pipe.c:54). The log message at kexsrv.c:149 reads data that may have been freed.
- Propagation: the clean-up unmaps the view first and ignores whether the stubs become
  writable afterwards (propagte.c:129-174). If not, the copy faults, the fault is swallowed
  and the process goes on with stubs that lead nowhere: the next key that it opens ends it.
- VxlWriteLogEx: an omitted name is looked up as the empty string and gets the index of
  the first unused slot (vxlwrite.c:41); the bound of the severity is one too high
  (vxlwrite.c:33).
- DLL path: a call that does not find enough duplicates fails and leaves the path as short
  as the cutting has made it (dllpath.c:177), and one for a path that is shorter than what
  is prepended leaves it a character longer (dllpath.c:107), though dllpath.c:21-23 says
  that the length cannot change. The substring searches may miss a match, since they go on
  behind the character that differs (kexrtl.c:467, KexStrSafe.h).
- Advanced logging: 25 characters of the prefix of a loader message are skipped
  (advlog.c:279), where the format documented at advlog.c:265-268 has 23, so that the name
  of the function lacks its first two; process ids and times may be longer, too.
- Version: the build number that RtlGetNtVersionNumbers tells a program is the number of the
  service pack (verspoof.c:52), which verspoof.c:111 makes 0.
- Process data: a string of the registry without NUL is followed by what the buffer held
  (kexrtl.c:299), so that a local value overrides the global one (kexdata.c:134) in part.
- Names of logs: the size of their buffer is given in characters where bytes are meant
  (logging.c:57); a base name of more than 105 characters leaves no room for all of the 20
  figures of logging.c:62 and the extension.
- VxlView: a row behind one that has no entry is searched from the start of the log
  (backend.c:397); the estimate may be less than what matches if entries are read past the
  end of the index (against the comment at backendp.c:344), but not of the log's own
  entries; a text that is absent is searched all the same (backendp.c:325, against
  the assertion in KexStrSafe.h:474); in a search over header and text only the
  second result of a search with wildcards counts; an export says "Export complete." when
  its last write was accepted, whatever became of the other entries (backendp.c:96-149),
  and the conversions and writes that it asserts to succeed may fail; the percentage of a short export exceeds 100
  (backendp.c:126).
- VXLL: a newline at the end of a text splits it (writelog.c:158), though writelog.c:153-154
  says that it is ignored. Of a text, the part in front of the first newline is not exported
  (export.c:259), which is all of a text of one line; export.c:26 promises the entire log.
  When the component of a call cannot be added, the rollback cuts the file at an offset that
  was never set (writelog.c:250), and takes entries with it that were written before; and a
  rollback that fails leaves the part of an entry that writelog.c:247-248 wants gone. A
  failed GetFileSizeEx makes the header of an existing log begin anew (vxlp.c:441). The
  query for component names never increments its index and does not end (query.c:142-155);
  the maximum index of an empty log is -1 (readlog.c:85).

## Not modelled

- Windows and dialogs (KexGui, VxlView except what it asks of its back end), KexW32ML,
  kernel33, the utilities: no state across calls beyond that of a window.
- Tables: status.c, severity.c and error.c of VXLL, vxlsever.c; declarations of Windows
  in NtDll.h and KexDll.h, which are most of the lines of the headers.
- Machine code: the stubs of the system calls and the assembly of the hooks; ntthread.c, a
  wrapper of thread creation.
- No caller: KexHkRemoveBasicHook, RegisterThread and UnregisterThread (procthrd.c:174
  tests the old pointer), KexSrvSendReceiveMessage, VxlReadMultipleEntriesLog.
- Not compiled: client.c, dispatch.c and harderr.c of KexSrv.
- loggingtest, which writes a log in a loop; the module `VxlLog` has its calls.
- Windows itself, beyond what the sections above assume of it: the pipe, the loader, the
  share mode of files, SRW locks, the registry.

## What is left

- Proofs: the names of logs in `KexData`, the names of DLLs in `KexLdr`.
- Allocation failures in VxlView.
- One composition of DllMain with the log and the server; here they meet only through
  what each assumes of the other: an initialiser succeeds or fails.
- A larger `kexsrv` with three clients; its proofs hold for any number.

