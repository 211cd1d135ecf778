----------------------------- MODULE VxlLegacy -----------------------------
(***************************************************************************)
(* The log library before KexDll had its own (src/VXLL), format 2: one     *)
(* process with a handle that its threads share writes a log file, another *)
(* one reads it.                                                           *)
(*                                                                         *)
(* The file is a header and a body.  A cell of the body is the fixed part  *)
(* of an entry or one of the characters behind it; offsets count cells.    *)
(***************************************************************************)
EXTENDS Integers, Sequences, FiniteSets, Functions, SequencesExt

CONSTANTS
    Threads,        \* the threads of the writing process
    Severities,     \* the severities of events
    Requests,       \* calls of VxlLogEx: component, severity, text
    LongNames,      \* components that do not fit into a slot
    SlotCount,      \* how many slots the table of components has
    NoName,         \* the empty string, in a slot that is not used
    Flags,          \* sets of flags a program opens the file with
    Foreign,        \* what else than a log there may be at first
    Garbage,        \* values of an OldEndOfFile that was never set
    MaxWritten,     \* bound: calls of VxlLogEx
    MaxOpened,      \* bound: handles that are opened for writing
    MaxCrashes,     \* bound: crashes of the writing process
    MaxFailed       \* bound: steps in which operations on a file fail

(* The text of an event is a string of C.                                  *)
ASSUME VxlLegacyAssumption ==
    /\ SlotCount \in Nat \ {0}
    /\ IsFiniteSet(Severities)
    /\ \A r \in Requests :
         /\ r = [component |-> r.component, severity |-> r.severity, text |-> r.text]
         /\ r.severity \in Severities /\ r.component # NoName
         /\ r.text \in Seq(STRING) /\ \A i \in DOMAIN r.text : r.text[i] # "NUL"
    /\ \A f \in Flags : f \subseteq {"write", "read", "create", "append", "overwrite", "ignore"}
    /\ Threads \cap {"free", "broken"} = {}
    /\ Garbage \subseteq Nat
    /\ {MaxWritten, MaxOpened, MaxCrashes, MaxFailed} \subseteq Nat

VARIABLES
    file,           \* the file: exists, kind of header, header, body
    writer,         \* the VXLCONTEXT of the writing process, or NoWriter
    thread,         \* thread[t]: where thread t is in VxlLogEx
    reader,         \* the VXLCONTEXT of the reading process, or NoReader
    written,        \* the requests and slots of what was written (history)
    orphans,        \* how many of them no header counts (history)
    damage,         \* what happened that spoils the file (history)
    bounds          \* calls, opened handles, crashes and failures so far

vars == <<file, writer, thread, reader, written, orphans, damage, bounds>>

Slots == 0 .. (SlotCount - 1)
NoWriter == [pc |-> "none"]
NoReader == [pc |-> "none"]
Idle == [pc |-> "idle"]
At(t, pc) == thread[t].pc = pc
EmptyHeader == [count |-> [s \in Severities |-> 0], components |-> [i \in Slots |-> NoName]]
Total(header) == FoldFunction(LAMBDA c, n : c + n, 0, header.count)

File(exists, kind) == [exists |-> exists, kind |-> kind, header |-> EmptyHeader, body |-> <<>>]

Init ==
    /\ file \in {File(FALSE, "empty")} \cup {File(TRUE, kind) : kind \in Foreign}
    /\ writer = NoWriter
    /\ thread = [t \in Threads |-> Idle]
    /\ reader = NoReader
    /\ written = <<>>
    /\ orphans = 0
    /\ damage = {}
    /\ bounds = [calls |-> 0, opened |-> 0, crashes |-> 0, failed |-> 0]

Spend(what, max) == bounds[what] < max /\ bounds' = [bounds EXCEPT ![what] = @ + 1]
Fails == Spend("failed", MaxFailed)

-----------------------------------------------------------------------------
(* The flags of VxlOpenLogFileEx                                           *)

(* VxlpValidateFileOpenFlags                                               *)
ValidateFileOpenFlags(flags) ==
    CASE {"read", "write"} \subseteq flags -> FALSE
      [] "read" \in flags /\ "write" \notin flags ->
           flags \cap {"create", "append", "overwrite"} = {}
      [] "write" \in flags /\ "read" \notin flags ->
           /\ ~({"append", "overwrite"} \subseteq flags)
           /\ flags \cap {"create", "append", "overwrite"} # {}
      [] OTHER -> FALSE

(* Mutant: a file is never begun anew.                                     *)
MutantKeeps(flags) == IF "create" \in flags THEN "OPEN_ALWAYS" ELSE "OPEN_EXISTING"

(* VxlpTranslateFileOpenFlags                                              *)
TranslateFileOpenFlags(flags) ==
    CASE "read" \in flags -> "OPEN_EXISTING"
      [] "read" \notin flags /\ {"create", "append"} \subseteq flags -> "OPEN_ALWAYS"
      [] "read" \notin flags /\ "append" \notin flags /\ {"create", "overwrite"} \subseteq flags ->
           "CREATE_ALWAYS"
      [] "read" \notin flags /\ flags \cap {"create", "append", "overwrite"} = {"create"} ->
           "CREATE_NEW"
      [] "read" \notin flags /\ "create" \notin flags /\ "append" \in flags -> "OPEN_EXISTING"
      [] OTHER -> "TRUNCATE_EXISTING"

(* CreateFile: what becomes of the file.  It is not truncated while it is  *)
(* mapped.                                                                 *)
Refuses(disposition, exists, mapped) ==
    \/ exists /\ disposition = "CREATE_NEW"
    \/ ~exists /\ disposition \in {"OPEN_EXISTING", "TRUNCATE_EXISTING"}
    \/ exists /\ mapped /\ disposition \in {"CREATE_ALWAYS", "TRUNCATE_EXISTING"}

CreateFile(f, disposition) ==
    IF f.exists /\ disposition \in {"OPEN_EXISTING", "OPEN_ALWAYS"} THEN f ELSE File(TRUE, "empty")

-----------------------------------------------------------------------------
(* The layout of an entry                                                  *)

Char(c) == [char |-> c]
NUL == Char("NUL")

(* The first newline splits a text, if there are two characters before it; *)
(* both of its characters become NUL.  Lengths count a NUL.                *)
Newlines(text) ==
    {i \in 2 .. (Len(text) - 2) : text[i + 1] = "\r" /\ text[i + 2] = "\n" /\ Len(text) > 4}

Split(text) ==
    LET i == CHOOSE n \in Newlines(text) : \A m \in Newlines(text) : n <= m
    IN IF Newlines(text) = {} THEN [header |-> Len(text) + 1, text |-> 0]
       ELSE [header |-> i + 1, text |-> Len(text) + 1 - i - 2]

EntryCells(request, slot) ==
    LET lengths == Split(request.text)
    IN <<[severity |-> request.severity, component |-> slot,
          headerLength |-> lengths.header, textLength |-> lengths.text]>>
       \o [i \in DOMAIN request.text |->
             IF lengths.text > 0 /\ i \in {lengths.header, lengths.header + 1}
             THEN NUL ELSE Char(request.text[i])]
       \o <<NUL>>

(* Mutant: the second NUL between the two parts of a text is forgotten.    *)
MutantNoExtra(entry) == 1 + entry.headerLength + entry.textLength

(* VxlpBuildIndex adds up the lengths of an entry.                         *)
EntrySize(entry) ==
    1 + entry.headerLength + entry.textLength + (IF entry.textLength > 0 THEN 1 ELSE 0)

IsEntry(body, n) == n \in DOMAIN body /\ "severity" \in DOMAIN body[n]

(* VxlpBuildIndex: the offsets of as many entries as the header counts; 0  *)
(* where there is no entry to go on from.                                  *)
BuildIndex(body, number) ==
    LET offset[k \in 1 .. number] ==
          IF k = 1 THEN 1
          ELSE IF IsEntry(body, offset[k - 1])
               THEN offset[k - 1] + EntrySize(body[offset[k - 1]]) ELSE 0
    IN [k \in 1 .. number |-> offset[k]]

(* Where an entry is, and its strings end where its lengths say.           *)
IsReadable(body, n) ==
    /\ IsEntry(body, n)
    /\ n + EntrySize(body[n]) - 1 \in DOMAIN body
    /\ \A i \in 1 .. (EntrySize(body[n]) - 1) : "char" \in DOMAIN body[n + i]
    /\ {body[n + EntrySize(body[n]) - 1], body[n + body[n].headerLength]} = {NUL}

StringAt(body, n) ==
    LET end == CHOOSE e \in n .. Len(body) : body[e] = NUL /\ \A i \in n .. (e - 1) : body[i] # NUL
    IN [i \in 1 .. (end - n) |-> body[n + i - 1].char]

(* VxlpLogFileEntryToLogEntry                                              *)
LogEntry(body, header, n) ==
    LET entry == body[n]
    IN [severity |-> entry.severity,
        component |-> header.components[entry.component],
        textHeader |-> StringAt(body, n + 1),
        text |-> IF entry.textLength > 0
                 THEN StringAt(body, n + 1 + entry.headerLength + 1) ELSE <<>>]

(* VxlConvertLogEntryToText: the formats have a place for the text, and    *)
(* none for its header.                                                    *)
ConvertLogEntryToText(entry) ==
    [severity |-> entry.severity, component |-> entry.component, text |-> entry.text]

-----------------------------------------------------------------------------
(* VxlOpenLogFileEx and VxlCloseLogFile of the writing process             *)

Mapped == reader.pc \in {"open", "exported", "fault"}

(* What was written before the file was begun anew is forgotten.           *)
CreateLogFile ==
    /\ writer = NoWriter
    /\ Spend("opened", MaxOpened)
    /\ \E flags \in Flags :
         /\ ValidateFileOpenFlags(flags) /\ "write" \in flags
         /\ ~Refuses(TranslateFileOpenFlags(flags), file.exists, Mapped)
         /\ \E f \in {CreateFile(file, TranslateFileOpenFlags(flags))} :
              /\ file' = f
              /\ IF f = file THEN UNCHANGED <<written, orphans, damage, reader>>
                 ELSE /\ written' = <<>> /\ orphans' = 0 /\ damage' = {}
                      /\ reader' = IF reader = NoReader THEN reader
                                   ELSE [reader EXCEPT !.disturbed = TRUE]
    /\ writer' = [pc |-> "opening", header |-> EmptyHeader, position |-> 0, lock |-> "free"]
    /\ UNCHANGED thread

(* An empty file gets a header; VxlpInitializeLogFileHeader sets the dirty *)
(* mark in it that nobody clears.  So does a file whose size cannot be     *)
(* found out, for VxlpFileIsEmpty takes it for an empty one: the header of *)
(* a log that is in use is begun anew, and what lies behind the header in  *)
(* another file becomes the body.                                          *)
WriteFirstHeader ==
    /\ writer.pc = "opening"
    /\ IF file.kind = "empty" THEN UNCHANGED bounds ELSE Fails
    /\ \E body \in IF file.kind \in {"empty", "log"} THEN {file.body} ELSE {<<>>, <<NUL>>} :
         file' = [file EXCEPT !.kind = "log", !.header = EmptyHeader, !.body = body]
    /\ writer' = [writer EXCEPT !.pc = "open"]
    /\ orphans' = Len(written)
    /\ damage' = damage \cup (IF file'.body = file.body THEN {} ELSE {"mixed"})
                         \cup (IF written = <<>> THEN {} ELSE {"begun"})
    /\ UNCHANGED <<thread, reader, written>>

ReadLogFileHeader ==
    /\ writer.pc = "opening" /\ file.kind = "log"
    /\ writer' = [writer EXCEPT !.pc = "open", !.header = file.header]
    /\ UNCHANGED <<file, thread, reader, written, orphans, damage, bounds>>

(* The name of the application is too long, a file operation fails, or the *)
(* file is not a log of this version.                                      *)
OpenFails ==
    /\ writer.pc = "opening"
    /\ IF file.kind \in {"empty", "log"} THEN Fails ELSE UNCHANGED bounds
    /\ writer' = NoWriter
    /\ UNCHANGED <<file, thread, reader, written, orphans, damage>>

(* The writing process is gone; entries behind the last header, and what a *)
(* failed write left, stay.                                                *)
Leave ==
    /\ writer' = NoWriter
    /\ thread' = [t \in Threads |-> Idle]
    /\ orphans' = Len(written) - Total(file.header)
    /\ damage' = IF \E t \in Threads : At(t, "failed") /\ thread[t].end \notin {-1, Len(file.body)}
                 THEN damage \cup {"torn"} ELSE damage
    /\ UNCHANGED <<file, reader, written>>

CloseLogFile ==
    /\ writer.pc = "open" /\ \A t \in Threads : thread[t] = Idle
    /\ Leave
    /\ UNCHANGED bounds

Crash ==
    /\ writer # NoWriter
    /\ Spend("crashes", MaxCrashes)
    /\ Leave

-----------------------------------------------------------------------------
(* VxlLogEx                                                                *)

Goto(t, pc) == thread' = [thread EXCEPT ![t].pc = pc]
Request(t) == thread[t].request
Header == writer.header

LogEx(t) ==
    /\ writer.pc = "open" /\ At(t, "idle")
    /\ Spend("calls", MaxWritten)
    /\ \E r \in Requests :
         thread' = [thread EXCEPT ![t] = [pc |-> "find", request |-> r, slot |-> 0, end |-> -1]]
    /\ UNCHANGED <<file, writer, reader, written, orphans, damage>>

(* VxlpFindOrCreateSourceComponentIndex, for which no lock is taken.       *)
FindSourceComponentIndex(t) ==
    /\ At(t, "find")
    /\ LET equal == {i \in Slots : Header.components[i] = Request(t).component}
       IN IF equal = {} THEN Goto(t, "pick")
          ELSE thread' = [thread EXCEPT ![t].slot = CHOOSE i \in equal : \A j \in equal : i <= j,
                                        ![t].pc = "lock"]
    /\ UNCHANGED <<file, writer, reader, written, orphans, damage, bounds>>

PickSlot(t) ==
    /\ At(t, "pick")
    /\ LET unused == {i \in Slots : Header.components[i] = NoName}
       IN IF unused = {} THEN Goto(t, "failed")
          ELSE thread' = [thread EXCEPT ![t].slot = CHOOSE i \in unused : \A j \in unused : i <= j,
                                        ![t].pc = "copy"]
    /\ UNCHANGED <<file, writer, reader, written, orphans, damage, bounds>>

(* Of a name that is too long, what fits stays in the slot.  Two threads   *)
(* may have picked the same slot.                                          *)
CopyName(t) ==
    /\ At(t, "copy")
    /\ LET name == Request(t).component
           long == name \in LongNames
       IN /\ writer' = [writer EXCEPT !.header.components[thread[t].slot] =
                          IF long THEN [cut |-> name] ELSE name]
          /\ Goto(t, IF long THEN "failed" ELSE "lock")
    /\ damage' = IF Header.components[thread[t].slot] = NoName THEN damage ELSE damage \cup {"race"}
    /\ UNCHANGED <<file, reader, written, orphans, bounds>>

AcquireFileLock(t) ==
    /\ At(t, "lock") /\ writer.lock = "free"
    /\ writer' = [writer EXCEPT !.lock = t]
    /\ Goto(t, "seek")
    /\ UNCHANGED <<file, reader, written, orphans, damage, bounds>>

(* SetFilePointerEx also returns where the end is.                         *)
SeekEnd(t) ==
    /\ At(t, "seek")
    /\ \/ /\ writer' = [writer EXCEPT !.position = Len(file.body)]
          /\ thread' = [thread EXCEPT ![t].end = Len(file.body), ![t].pc = "write"]
          /\ UNCHANGED bounds
       \/ Fails /\ Goto(t, "failed") /\ UNCHANGED writer
    /\ UNCHANGED <<file, reader, written, orphans, damage>>

(* A gap between the end of the file and what is written is zeros.         *)
Overwritten(body, position, cells) ==
    LET end == position + Len(cells)
    IN [i \in 1 .. (IF end > Len(body) THEN end ELSE Len(body)) |->
          CASE i \in (position + 1) .. end -> cells[i - position]
            [] i \notin (position + 1) .. end /\ i <= Len(body) -> body[i]
            [] OTHER -> NUL]

Counted(header, severity) == [header EXCEPT !.count[severity] = @ + 1]

WriteEntry(t) ==
    /\ At(t, "write")
    /\ LET cells == EntryCells(Request(t), thread[t].slot)
       IN \/ /\ file' = [file EXCEPT !.body = Overwritten(@, writer.position, cells)]
             /\ writer' = [writer EXCEPT !.position = @ + Len(cells),
                                         !.header = Counted(@, Request(t).severity)]
             /\ written' = Append(written, [request |-> Request(t), slot |-> thread[t].slot])
             /\ Goto(t, "release")
             /\ UNCHANGED bounds
          \/ /\ Fails
             /\ \E n \in {0, 1} :
                  /\ file' = [file EXCEPT !.body =
                                 Overwritten(@, writer.position, SubSeq(cells, 1, n))]
                  /\ \E moved \in {0, n} : writer' = [writer EXCEPT !.position = @ + moved]
             /\ Goto(t, "failed")
             /\ UNCHANGED written
    /\ UNCHANGED <<reader, orphans, damage>>

(* Mutant: the file keeps its length.                                      *)
MutantKept(body, end) == body

(* SetEndOfFile; what is added are zeros.                                  *)
CutAt(body, end) == [i \in 1 .. end |-> IF i \in DOMAIN body THEN body[i] ELSE NUL]

(* The label Error: the file ends again where it ended before, if that was *)
(* found out; else OldEndOfFile is not initialised and the file is cut     *)
(* anywhere.  A file that a reader has mapped cannot be cut, and either    *)
(* call may fail: nobody looks.                                            *)
RollBack(t) ==
    /\ At(t, "failed")
    /\ \E end \in IF thread[t].end = -1 THEN Garbage ELSE {thread[t].end},
          failures \in SUBSET {"SetFilePointerEx", "SetEndOfFile"} :
         LET position == IF "SetFilePointerEx" \in failures THEN writer.position ELSE end
             keeps == "SetEndOfFile" \in failures \/ (Mapped /\ position <= Len(file.body))
             ended == IF keeps THEN Len(file.body) ELSE position
         IN /\ IF failures = {} THEN UNCHANGED bounds ELSE Fails
            /\ writer' = [writer EXCEPT !.position = position]
            /\ file' = IF keeps THEN file ELSE [file EXCEPT !.body = CutAt(@, position)]
            /\ damage' = CASE thread[t].end = -1 -> damage \cup {"cut"}
                           [] thread[t].end # -1 /\ ended # thread[t].end -> damage \cup {"torn"}
                           [] OTHER -> damage
    /\ Goto(t, "release")
    /\ UNCHANGED <<reader, written, orphans>>

(* VxlpReleaseFileLock writes the header and gives the lock back.  A       *)
(* thread that never had it may set it free for others, or for nobody.     *)
ReleaseFileLock(t) ==
    /\ At(t, "release")
    /\ \/ file' = [file EXCEPT !.header = Header] /\ UNCHANGED bounds
       \/ UNCHANGED file /\ Fails
    /\ \E lock \in IF writer.lock = t THEN {"free"} ELSE {writer.lock, "free", "broken"} :
         writer' = [writer EXCEPT !.position = 0, !.lock = lock]
    /\ thread' = [thread EXCEPT ![t] = Idle]
    /\ UNCHANGED <<reader, written, orphans, damage>>

(* VxlQueryLogInformation of a writing handle takes the lock and writes    *)
(* the header as well.  The list of components never ends if there is one. *)
QueryLogInformation(t) ==
    /\ writer.pc = "open" /\ At(t, "idle") /\ writer.lock = "free"
    /\ Spend("calls", MaxWritten)
    /\ writer' = [writer EXCEPT !.lock = t]
    /\ \/ thread' = [thread EXCEPT ![t] = [pc |-> "release"]]
       \/ Header.components[0] # NoName /\ thread' = [thread EXCEPT ![t] = [pc |-> "loops"]]
    /\ UNCHANGED <<file, reader, written, orphans, damage>>

-----------------------------------------------------------------------------
(* The reading process                                                     *)

(* A file that is empty or another one than a log is refused.              *)
OpenLogFileReadOnly ==
    /\ reader = NoReader /\ file.exists /\ file.kind = "log"
    /\ reader' = [pc |-> "header", header |-> file.header, disturbed |-> FALSE,
                  index |-> <<>>, entries |-> <<>>, lines |-> <<>>]
    /\ UNCHANGED <<file, writer, thread, written, orphans, damage, bounds>>

(* The header was read before; the file is mapped as it is now.            *)
MapAndIndex ==
    /\ reader.pc = "header"
    /\ reader' = [reader EXCEPT !.pc = "open", !.index = BuildIndex(file.body, Total(reader.header))]
    /\ UNCHANGED <<file, writer, thread, written, orphans, damage, bounds>>

MapFails ==
    /\ reader.pc = "header" /\ Fails
    /\ reader' = NoReader
    /\ UNCHANGED <<file, writer, thread, written, orphans, damage>>

(* VxlReadLogEntry for one index after the other until it is out of range. *)
(* Without any entry the last index is that of -1, so the first entry is   *)
(* looked up in an index that was never allocated.  An entry that is not   *)
(* read, converted or written is left out, and the next one is tried.      *)
ExportLogToText ==
    /\ reader.pc = "open"
    /\ IF \/ Total(reader.header) = 0
          \/ \E k \in DOMAIN reader.index : ~IsReadable(file.body, reader.index[k])
       THEN reader' = [reader EXCEPT !.pc = "fault"] /\ UNCHANGED bounds
       ELSE \E lost \in SUBSET DOMAIN reader.index :
              LET entries == [k \in DOMAIN reader.index \ lost |->
                                LogEntry(file.body, reader.header, reader.index[k])]
              IN /\ IF lost = {} THEN UNCHANGED bounds ELSE Fails
                 /\ reader' = [reader EXCEPT !.pc = "exported", !.entries = entries,
                       !.lines = [k \in DOMAIN entries |-> ConvertLogEntryToText(entries[k])]]
    /\ UNCHANGED <<file, writer, thread, written, orphans, damage>>

CloseReader ==
    /\ Mapped
    /\ reader' = NoReader
    /\ UNCHANGED <<file, writer, thread, written, orphans, damage, bounds>>

-----------------------------------------------------------------------------
Thread(t) ==
    \/ LogEx(t) \/ FindSourceComponentIndex(t) \/ PickSlot(t) \/ CopyName(t)
    \/ AcquireFileLock(t) \/ SeekEnd(t) \/ WriteEntry(t) \/ RollBack(t)
    \/ ReleaseFileLock(t) \/ QueryLogInformation(t)

Next ==
    \/ CreateLogFile \/ WriteFirstHeader \/ ReadLogFileHeader \/ OpenFails
    \/ CloseLogFile \/ Crash
    \/ \E t \in Threads : Thread(t)
    \/ OpenLogFileReadOnly \/ MapAndIndex \/ MapFails \/ ExportLogToText \/ CloseReader

Spec == Init /\ [][Next]_vars

-----------------------------------------------------------------------------
(* Properties                                                              *)

(* The entries that were written, one behind the other, and how many of    *)
(* them have severity s.                                                   *)
Flat(entries) ==
    FlattenSeq([k \in DOMAIN entries |-> EntryCells(entries[k].request, entries[k].slot)])
Number(s) == Cardinality({k \in DOMAIN written : written[k].request.severity = s})

(* However the threads, crashes and failed writes come, the body of the    *)
(* file is what was written, in this order and without gaps; excepted is a *)
(* file that was cut without need ("cut"), that was not cut where it ended *)
(* before because a reader had mapped it or a call failed ("torn", against *)
(* the comment at writelog.c 247-248), or that was something else before   *)
(* its size could not be found out ("mixed").  With the header in memory every entry is accounted for, by  *)
(* its severity, but for those of the processes that ended before they     *)
(* wrote the header: at most one for each crash or failure, unless the     *)
(* header of a log was begun anew ("begun"), when all the entries before   *)
(* are lost to it; and the header in the file is the one in memory when no *)
(* thread has the lock and nothing failed (writelog.c 193-254).            *)
FileIsWhatWasWritten ==
    /\ /\ damage \cap {"cut", "torn", "mixed"} = {}
       /\ \A t \in Threads : thread[t].pc # "failed"
       => file.body = Flat(written)
    /\ writer.pc = "open" /\ writer.lock = "free" /\ "cut" \notin damage =>
         /\ Total(Header) + orphans = Len(written)
         /\ "begun" \notin damage => orphans <= bounds.crashes + bounds.failed
         /\ orphans = 0 => \A s \in Severities : Header.count[s] = Number(s)
         /\ bounds.failed = 0 => file.header.count = Header.count

(* A text is kept as it is or split at a newline, and at its first newline *)
(* if there are two characters before it and one behind it.  A newline at  *)
(* the very end may split it too, and does (writelog.c 158), although the  *)
(* comment at writelog.c 153-154 says that it is ignored.                  *)
NewlineAt(text, i) == text[i + 1] = "\r" /\ text[i + 2] = "\n"
IsSplit(text, first, rest) ==
    /\ (first = text /\ rest = <<>>) \/ text = first \o <<"\r", "\n">> \o rest
    /\ \A i \in 2 .. (Len(text) - 3) :
         NewlineAt(text, i) /\ (\A j \in 0 .. (i - 1) : ~NewlineAt(text, j)) => Len(first) = i

(* A log that is read and exported while another process writes it has the *)
(* first entries as they were given, with the first line of a text apart   *)
(* from the rest, and no read goes astray, unless the file was begun anew  *)
(* between the reading of the header and the mapping; the components are   *)
(* right too if no two threads added one at once and no process ended      *)
(* before it wrote the header.  Of the text an exported line has what is   *)
(* behind the first line only (export.c 259-327): an event of one line is  *)
(* exported without its text, although export.c 26 speaks of the entire    *)
(* log; and an entry is left out when a step of its export fails (index.c, *)
(* readlog.c, vxlp.c 25-82, export.c 107-171).                             *)
ReaderTellsWhatWasWritten ==
    Mapped /\ ~reader.disturbed /\ damage \cap {"cut", "torn", "mixed"} = {} =>
      /\ reader.pc = "fault" => Total(reader.header) = 0
      /\ Len(reader.index) <= Len(written)
      /\ DOMAIN reader.lines = DOMAIN reader.entries
      /\ \A k \in DOMAIN reader.entries :
           LET entry == reader.entries[k]
               line == reader.lines[k]
               r == written[k].request
           IN /\ {entry.severity, line.severity} = {r.severity}
              /\ IsSplit(r.text, entry.textHeader, entry.text)
              /\ IsSplit(r.text, entry.textHeader, line.text)
              /\ orphans = 0 /\ "race" \notin damage =>
                   {entry.component, line.component} = {r.component}

AllFlags == SUBSET {"write", "read", "create", "append", "overwrite", "ignore"}

(* Flags are accepted if they say for what a file is opened and, without   *)
(* contradiction, what is done with one that exists; then the call opens   *)
(* what it is asked to, keeps what is in a file unless it is told to       *)
(* overwrite it, and fails otherwise (vxlp.c 348-427).                     *)
OpensAsAsked ==
    bounds.opened = 0 /\ writer = NoWriter /\ reader = NoReader /\ bounds.failed = 0 =>
      \A flags \in AllFlags :
        /\ ValidateFileOpenFlags(flags) <=>
             IF "write" \in flags
             THEN "read" \notin flags /\ \E what \in {{"create"}, {"append"}, {"overwrite"},
                    {"create", "append"}, {"create", "overwrite"}} : flags \ {"write", "ignore"} = what
             ELSE flags \ {"ignore"} = {"read"}
        /\ ValidateFileOpenFlags(flags) => \A exists, mapped \in BOOLEAN :
             LET how == TranslateFileOpenFlags(flags)
                 old == [File(exists, "log") EXCEPT !.body = IF exists THEN <<NUL>> ELSE <<>>]
             IN /\ Refuses(how, exists, mapped) <=>
                     IF exists THEN /\ flags \cap {"read", "append"} = {}
                                    /\ "overwrite" \in flags => mapped
                     ELSE "create" \notin flags
                /\ ~Refuses(how, exists, mapped) =>
                     (CreateFile(old, how) = old <=> exists /\ "overwrite" \notin flags)
=============================================================================
