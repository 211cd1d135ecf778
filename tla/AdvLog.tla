------------------------------- MODULE AdvLog -------------------------------
(***************************************************************************)
(* Advanced logging (src/KexDll/advlog.c): the hook on the debug print     *)
(* function of ntdll.dll, which writes what the loader prints to the log.  *)
(*                                                                         *)
(* The source file of a message is looked up in a string mapper that the   *)
(* first thread to need it creates and fills, without any lock.  Every     *)
(* action is a part of the hook between two accesses to that mapper.       *)
(***************************************************************************)
EXTENDS StrMap

CONSTANTS
    Threads,        \* the threads of the process
    Table,          \* StringMapperEntries: functions and their files
    Unknown,        \* "(unknown)"
    Messages,       \* what ntdll.dll may print
    NoMapper,       \* NULL
    MaxMappers,     \* bound: mappers that are created
    MaxMessages,    \* bound: messages that are complete
    MaxFailed       \* bound: steps that fail

Blank == " "
Dash == <<Blank, "-", Blank>>

(* The beginnings of ERROR, WARNING, INFO, ENTER and RETURN.               *)
ErrorSeverity == <<"E", "R">>
Severities == {ErrorSeverity, <<"W", "A">>, <<"I", "N">>, <<"E", "N">>, <<"R", "E">>}

(* Functions that are in the table more than once have the same file.  A   *)
(* message: its component, the number of characters that ntdll.dll puts    *)
(* before the name of the function, that name, the severity, and whether   *)
(* its text fits into 1024 characters.                                     *)
ASSUME AdvLogAssumption ==
    /\ Table \in Seq([key : DOMAIN UpCase, value : {Table[i].value : i \in DOMAIN Table}])
    /\ Table # <<>>
    /\ \A i, j \in DOMAIN Table : Table[i].key = Table[j].key => Table[i].value = Table[j].value
    /\ NoMapper \notin Nat
    /\ \A m \in Messages :
         /\ m.lead \in Nat /\ m.lead >= 3
         /\ m.function \in Seq(STRING) /\ m.severity \in Severities
         /\ \A i \in DOMAIN m.function : m.function[i] # Blank
    /\ MaxMappers \in Nat /\ MaxMessages \in Nat /\ MaxFailed \in Nat

VARIABLES
    stringMapper,   \* StringMapper: the number of a mapper, or NoMapper
    mappers,        \* the mappers in the order of their creation
    thread,         \* thread[t]: what thread t does in the hook
    log,            \* KexData->LogHandle: "none", "open" or "closed"
    hooked,         \* vDbgPrintExWithPrefixInternal leads to the hook
    history,        \* history[t]: messages and what was logged of them (history)
    failed,         \* how many steps failed (history)
    lost            \* two threads changed a mapper at once (history)

advVars == <<stringMapper, mappers, thread, log, hooked, history, failed, lost>>

NoLine == [kind |-> "none"]
Idle == [pc |-> "idle"]

AdvInit ==
    /\ stringMapper = NoMapper
    /\ mappers = <<>>
    /\ thread = [t \in Threads |-> Idle]
    /\ log = "none"
    /\ hooked = FALSE
    /\ history = [t \in Threads |-> <<>>]
    /\ failed = 0
    /\ lost = FALSE

-----------------------------------------------------------------------------
(* FindAddressOfDbgPrintInternal looks at up to 64 places behind the first *)
(* byte of the exported function for the call of the internal one; place   *)
(* is where that call is.                                                  *)
Found(place) == place \in 1 .. 64

(* KexAdvlParseAndDispatchMessage takes 25 characters for the fixed part   *)
(* of a prefix of a loader message; the name of the function ends at a     *)
(* blank, and three characters lie between it and the severity.            *)
SkipCch == 25
Prefix(m) ==
    [i \in 1 .. (m.lead - 3) |-> "0"] \o Dash \o m.function \o Dash
      \o m.severity \o <<":", Blank>>

Behind(m) == SubSeq(Prefix(m), SkipCch + 1, Len(Prefix(m)))
Parsed(m) ==
    LET blanks == {i \in DOMAIN Behind(m) : Behind(m)[i] = Blank}
        end == (CHOOSE i \in blanks : \A j \in blanks : i <= j) - 1
    IN [function |-> SubSeq(Behind(m), 1, end),
        letter |-> Behind(m)[end + 3 + 2]]

(* Mutant: the first letter is looked at.                                  *)
MutantFirstLetter(m) == Behind(m)[Len(Parsed(m).function) + 3 + 1] = "R"

(* Of the messages of the loader, only errors are logged by a release      *)
(* build: their severity has R for its second letter.                      *)
IsError(m) == Parsed(m).letter = "R"

-----------------------------------------------------------------------------
(* KexpvDbgPrintExWithPrefixInternalHook                                   *)

At(t, pc) == thread[t].pc = pc
Goto(t, pc) == thread' = [thread EXCEPT ![t].pc = pc]
WithFile(t, file) == thread' = [thread EXCEPT ![t] = [pc |-> "write", m |-> @.m, file |-> file]]
MayFail == failed < MaxFailed /\ failed' = failed + 1

Return(t, m, line) ==
    /\ thread' = [thread EXCEPT ![t] = Idle]
    /\ history' = [history EXCEPT ![t] = Append(@, [message |-> m, line |-> line])]

Step(t, pc) == At(t, pc) /\ UNCHANGED <<log, hooked>>
Rest == UNCHANGED <<stringMapper, mappers, failed, lost, history>>

Printed == FoldFunction(LAMBDA h, n : Len(h) + n, 0, history)

(* Everything up to the first access to the mapper: a text that is too     *)
(* long is given up, a message of another component is logged as it is,    *)
(* and what is not an error is not logged at all.                          *)
DbgPrint(t) ==
    /\ Step(t, "idle") /\ hooked /\ Printed < MaxMessages
    /\ UNCHANGED <<stringMapper, mappers, failed, lost>>
    /\ \E m \in Messages :
         \/ /\ ~m.fits \/ (m.component = "Loader" /\ ~IsError(m))
            /\ Return(t, m, NoLine)
         \/ /\ m.fits /\ (m.component = "Loader" => IsError(m))
            /\ thread' = [thread EXCEPT ![t] =
                 [pc |-> IF m.component = "Loader" THEN "check" ELSE "generic", m |-> m]]
            /\ UNCHANGED history

(* KexAdvlMapLdrFunctionToSourceFile                                       *)
Check(t) ==
    /\ Step(t, "check") /\ Rest
    /\ Goto(t, IF stringMapper = NoMapper THEN "create" ELSE "lookup")

(* KexRtlCreateStringMapper stores NULL before it allocates, and the       *)
(* mapper when it is ready.                                                *)
Reset(t) ==
    /\ Step(t, "create")
    /\ stringMapper' = NoMapper
    /\ Goto(t, "allocate")
    /\ UNCHANGED <<mappers, failed, lost, history>>

Publish(t) ==
    /\ Step(t, "allocate") /\ Len(mappers) < MaxMappers
    /\ mappers' = Append(mappers, CreateStringMapper(FALSE))
    /\ stringMapper' = Len(mappers) + 1
    /\ Goto(t, "fill")
    /\ UNCHANGED <<failed, lost, history>>

AllocateFails(t) ==
    /\ Step(t, "allocate") /\ MayFail
    /\ WithFile(t, Unknown)
    /\ UNCHANGED <<stringMapper, mappers, lost, history>>

(* KexRtlInsertMultipleEntriesStringMapper gets the mapper that is there   *)
(* by now, which another thread may have replaced, and is refused if there *)
(* is none.  It starts with the last entry.                                *)
Fill(t) ==
    /\ Step(t, "fill") /\ Rest
    /\ IF stringMapper = NoMapper THEN Goto(t, "lookup")
       ELSE thread' = [thread EXCEPT ![t] =
              [pc |-> "insert", m |-> @.m,
               filling |-> [mapper |-> stringMapper, left |-> Len(Table)]]]

LastEntry(f) == f.left = 1

Filling(t) == thread[t].filling
Inserted(t) ==
    thread' = [thread EXCEPT ![t] =
        [pc |-> IF LastEntry(Filling(t)) THEN "lookup" ELSE "insert", m |-> @.m,
         filling |-> [mapper |-> Filling(t).mapper, left |-> Filling(t).left - 1]]]

Insert(t) ==
    /\ Step(t, "insert")
    /\ LET pair == Table[Filling(t).left]
       IN mappers' = [mappers EXCEPT ![Filling(t).mapper] = InsertEntry(@, pair.key, pair.value)]
    /\ Inserted(t)
    /\ UNCHANGED <<stringMapper, failed, lost, history>>

(* An entry is not in the table: there was no memory for it, or another    *)
(* thread wrote the same list (a data race).                               *)
InsertIsLost(t) ==
    /\ Step(t, "insert")
    /\ \/ MayFail /\ UNCHANGED lost
       \/ /\ \E u \in Threads \ {t} : At(u, "insert") /\ Filling(u).mapper = Filling(t).mapper
          /\ lost' = TRUE /\ UNCHANGED failed
    /\ Inserted(t)
    /\ UNCHANGED <<stringMapper, mappers, history>>

(* The mapper is read once more, by whoever comes first and whatever is in *)
(* it.                                                                     *)
Lookup(t) ==
    /\ Step(t, "lookup") /\ Rest
    /\ \E file \in {IF stringMapper = NoMapper THEN NotFound
                    ELSE LookupEntry(mappers[stringMapper], Parsed(thread[t].m).function)} :
         WithFile(t, IF file = NotFound THEN Unknown ELSE file)

(* VxlWriteLogEx; when it fails the message is logged as it is.            *)
Write(t) ==
    /\ Step(t, "write")
    /\ UNCHANGED <<stringMapper, mappers, lost>>
    /\ \/ /\ log = "open" /\ UNCHANGED failed
          /\ Return(t, thread[t].m, [kind |-> "loader", file |-> thread[t].file,
                                     function |-> Parsed(thread[t].m).function])
       \/ /\ log # "open" /\ UNCHANGED <<failed, history>> /\ Goto(t, "generic")
       \/ /\ log = "open" /\ MayFail /\ UNCHANGED history /\ Goto(t, "generic")

Generic(t) ==
    /\ Step(t, "generic")
    /\ UNCHANGED <<stringMapper, mappers, lost>>
    /\ \/ /\ log = "open" /\ UNCHANGED failed
          /\ Return(t, thread[t].m, [kind |-> "generic"])
       \/ /\ IF log = "open" THEN MayFail ELSE UNCHANGED failed
          /\ Return(t, thread[t].m, NoLine)

InHook(t) ==
    \/ DbgPrint(t) \/ Check(t) \/ Reset(t) \/ Publish(t) \/ AllocateFails(t)
    \/ Fill(t) \/ Insert(t) \/ InsertIsLost(t) \/ Lookup(t) \/ Write(t) \/ Generic(t)
=============================================================================
