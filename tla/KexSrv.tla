------------------------------- MODULE KexSrv -------------------------------
(***************************************************************************)
(* The KexSrv server process and the channel between it and KexDll in the  *)
(* client processes.                                                       *)
(*                                                                         *)
(* The server is one thread: it creates an instance of a named pipe,       *)
(* listens on it, waits for an event that says a client has connected,     *)
(* registers the client, issues a read of its first message, and goes on   *)
(* with the next instance.  A client opens the channel when it starts,     *)
(* announces itself, and sends its hard errors there.  The completion of a *)
(* read does nothing, so that no second message of a client is ever read.  *)
(*                                                                         *)
(* Server and client processes may be killed between any two steps.  The   *)
(* members of Servers and Clients stand for process ids: a process that    *)
(* starts after another one ended may have its id.  The named pipe file    *)
(* system is not part of the repository; instances are modelled from how   *)
(* the code uses them.                                                     *)
(***************************************************************************)
EXTENDS Naturals, Sequences, FiniteSets, SequencesExt

CONSTANTS
  Servers,       \* ids of server processes
  Clients,       \* ids of client processes
  MaxInstances,  \* MaximumInstances of the pipe
  Quota,         \* InboundQuota of an instance
  Size,          \* Size[m]: size of a message of kind m
  Faults,        \* "dir", "log", "alloc", "garbage": what may go wrong
  None           \* no process

Kinds == {"start", "error"}
Instances == 1..MaxInstances
Processes == Servers \cup Clients

ASSUME ConstantsAssumption ==
  /\ Servers \cap Clients = {}
  /\ None \notin Processes
  /\ MaxInstances \in Nat \ {0}
  /\ Quota \in Nat
  /\ Size \in [Kinds -> Nat \ {0}]

VARIABLES
  srv,       \* srv[s]: where the thread of server s is in EntryPoint
  cur,       \* cur[s]: PipeHandle of EntryPoint, 0 before the first one
  event,     \* event[s]: state of ConnectEventHandle
  logOwner,  \* the server that has KexSrv.vxl open for writing
  pipe,      \* the instances of the pipe
  cl,        \* cl[c]: where client c is
  chan,      \* chan[c]: KexData->SrvChannel of c, 0 when it is NULL
  outcome    \* outcome[c]: what became of the last hard error of c

vars == <<srv, cur, event, logOwner, pipe, cl, chan, outcome>>
clientVars == <<cl, chan, outcome>>

(* An instance of the pipe, and the data of the client process the server  *)
(* registered for it.                                                      *)
Instance ==
  [owner   : Servers \cup {None},      \* who has the server end open
   peer    : Processes \cup {None},    \* who has the client end open
   pid     : Processes \cup {None},    \* ClientProcessId, also of the dead
   armed   : BOOLEAN,                  \* FSCTL_PIPE_LISTEN is pending
   inbox   : Seq(Kinds),               \* messages nobody has read
   entry   : BOOLEAN,                  \* the client is in ProcessThreadTable
   reading : BOOLEAN,                  \* NtReadFile is pending
   got     : Kinds \cup {"none"}]      \* the message it read

FreeInstance ==
  [owner |-> None, peer |-> None, pid |-> None, armed |-> FALSE, inbox |-> <<>>,
   entry |-> FALSE, reading |-> FALSE, got |-> "none"]

Free(i) == pipe[i] = FreeInstance
Listening(i) == pipe[i].owner # None /\ pipe[i].pid = None
Connected(i) == pipe[i].owner # None /\ pipe[i].peer # None
Abandoned(i) == pipe[i].owner # None /\ pipe[i].pid # None /\ pipe[i].peer = None

(* An instance goes away when both of its ends are closed.                 *)
CloseServerEnd(r) ==
  IF r.peer = None THEN FreeInstance
  ELSE [FreeInstance EXCEPT !.peer = r.peer, !.pid = r.pid]

(* The messages that are in the pipe stay there.                           *)
CloseClientEnd(r) ==
  IF r.owner = None THEN FreeInstance
  ELSE [r EXCEPT !.peer = None, !.reading = FALSE]

Load(q) == FoldSeq(LAMBDA m, n : Size[m] + n, 0, q)

(* The name of an application is the name of a file, so that the message   *)
(* that announces it fits into an empty pipe.                              *)
ASSUME StartFits == \A q \in {<<>>, <<"start">>} : ~(Load(q) > Quota)

ServerStates ==
  {"off", "probe", "quit", "log", "hung", "create", "listen", "wait", "read"}
ClientStates == {"none", "open", "notify", "run", "blocked"}

Init ==
  /\ srv = [s \in Servers |-> "off"]
  /\ cur = [s \in Servers |-> 0]
  /\ event = [s \in Servers |-> FALSE]
  /\ logOwner = None
  /\ pipe = [i \in Instances |-> FreeInstance]
  /\ cl = [c \in Clients |-> "none"]
  /\ chan = [c \in Clients |-> 0]
  /\ outcome = [c \in Clients |-> "none"]

-----------------------------------------------------------------------------
(* Opening the client end of an instance that listens.  If the server is   *)
(* already waiting for it, its event is set.                               *)
Connect(p, i) ==
  /\ Listening(i)
  /\ pipe' = [pipe EXCEPT ![i].peer = p, ![i].pid = p, ![i].armed = FALSE]
  /\ event' = IF pipe[i].armed THEN [event EXCEPT ![pipe[i].owner] = TRUE] ELSE event

(* Everything a process has open is closed when it ends.                   *)
EndServer(s) ==
  /\ srv' = [srv EXCEPT ![s] = "off"]
  /\ cur' = [cur EXCEPT ![s] = 0]
  /\ event' = [event EXCEPT ![s] = FALSE]
  /\ logOwner' = IF logOwner = s THEN None ELSE logOwner
  /\ pipe' = [i \in Instances |->
                IF pipe[i].owner = s THEN CloseServerEnd(pipe[i])
                ELSE IF pipe[i].peer = s THEN CloseClientEnd(pipe[i])
                ELSE pipe[i]]
  /\ UNCHANGED clientVars

-----------------------------------------------------------------------------
(* EntryPoint of KexSrv.                                                   *)

StartServer(s) ==
  /\ srv[s] = "off"
  /\ srv' = [srv EXCEPT ![s] = "probe"]
  /\ UNCHANGED <<cur, event, logOwner, pipe, clientVars>>

(* The attempt to open the pipe succeeds, so that another server gets this *)
(* process for a client.                                                   *)
FindServer(s) ==
  /\ srv[s] = "probe"
  /\ \E i \in Instances : Connect(s, i)
  /\ srv' = [srv EXCEPT ![s] = "quit"]
  /\ UNCHANGED <<cur, logOwner, clientVars>>

Quit(s) == srv[s] = "quit" /\ EndServer(s)

(* There is no pipe, or none of its instances listens at the moment.       *)
FindNoServer(s) ==
  /\ srv[s] = "probe"
  /\ \A i \in Instances : ~Listening(i)
  /\ srv' = [srv EXCEPT ![s] = "log"]
  /\ UNCHANGED <<cur, event, logOwner, pipe, clientVars>>

(* OpenServerLogFile, the first message of the log, and NtCreateEvent with *)
(* the event set.  Without the directory there is no log handle and        *)
(* nothing is logged.                                                      *)
OpenLog(s) ==
  /\ srv[s] = "log"
  /\ \/ logOwner = None /\ logOwner' = s
     \/ "dir" \in Faults /\ UNCHANGED logOwner
  /\ event' = [event EXCEPT ![s] = TRUE]
  /\ srv' = [srv EXCEPT ![s] = "create"]
  /\ UNCHANGED <<cur, pipe, clientVars>>

(* The log cannot be opened: the server logs to the unusable handle it got *)
(* and waits for its own lock (NoSelfDeadlock of module VxlLog).           *)
HangOnLog(s) ==
  /\ srv[s] = "log"
  /\ logOwner # None \/ "log" \in Faults
  /\ srv' = [srv EXCEPT ![s] = "hung"]
  /\ UNCHANGED <<cur, event, logOwner, pipe, clientVars>>

(* NtCreateNamedPipeFile.  Instances are all alike: the model takes the    *)
(* first one that is free.                                                 *)
CreateInstance(s) ==
  /\ srv[s] = "create"
  /\ \E i \in Instances :
       /\ Free(i) /\ \A j \in 1..(i-1) : ~Free(j)
       /\ pipe' = [pipe EXCEPT ![i].owner = s]
       /\ cur' = [cur EXCEPT ![s] = i]
  /\ srv' = [srv EXCEPT ![s] = "listen"]
  /\ UNCHANGED <<event, logOwner, clientVars>>

(* FSCTL_PIPE_LISTEN resets the event and waits for a client.              *)
Listen(s) ==
  /\ srv[s] = "listen"
  /\ Listening(cur[s])
  /\ pipe' = [pipe EXCEPT ![cur[s]].armed = TRUE]
  /\ event' = [event EXCEPT ![s] = FALSE]
  /\ srv' = [srv EXCEPT ![s] = "wait"]
  /\ UNCHANGED <<cur, logOwner, clientVars>>

(* Mutant: STATUS_PIPE_CONNECTED is not dealt with.                        *)
MutantNoSetEvent(s) ==
  /\ srv[s] = "listen"
  /\ Connected(cur[s])
  /\ event' = [event EXCEPT ![s] = FALSE]
  /\ srv' = [srv EXCEPT ![s] = "wait"]
  /\ UNCHANGED <<cur, logOwner, pipe, clientVars>>

(* STATUS_PIPE_CONNECTED: a client was faster, and NtSetEvent sets the     *)
(* event that the call has reset.                                          *)
ListenTooLate(s) ==
  /\ srv[s] = "listen"
  /\ Connected(cur[s])
  /\ event' = [event EXCEPT ![s] = TRUE]
  /\ srv' = [srv EXCEPT ![s] = "wait"]
  /\ UNCHANGED <<cur, logOwner, pipe, clientVars>>

(* There are as many instances as there may be, or the client that was     *)
(* faster has gone again (STATUS_PIPE_CLOSING): the server ends itself.    *)
GiveUp(s) ==
  /\ \/ srv[s] = "create" /\ \A i \in Instances : ~Free(i)
     \/ srv[s] = "listen" /\ Abandoned(cur[s])
  /\ EndServer(s)

(* AcceptConnectProcess.                                                   *)
Accept(s) ==
  /\ srv[s] = "wait" /\ event[s]
  /\ pipe[cur[s]].pid # None
  /\ pipe' = [pipe EXCEPT ![cur[s]].entry = TRUE]
  /\ srv' = [srv EXCEPT ![s] = "read"]
  /\ UNCHANGED <<cur, event, logOwner, clientVars>>

(* Mutant: the handle of the pipe is not closed.                           *)
MutantNoClose(s) ==
  /\ srv[s] = "wait" /\ event[s]
  /\ "alloc" \in Faults \/ ~Connected(cur[s])
  /\ srv' = [srv EXCEPT ![s] = "create"]
  /\ UNCHANGED <<cur, event, logOwner, pipe, clientVars>>

(* No memory, or no ClientProcessId because the client has gone.           *)
AcceptFails(s) ==
  /\ srv[s] = "wait" /\ event[s]
  /\ "alloc" \in Faults \/ ~Connected(cur[s])
  /\ pipe' = [pipe EXCEPT ![cur[s]] = CloseServerEnd(@)]
  /\ srv' = [srv EXCEPT ![s] = "create"]
  /\ UNCHANGED <<cur, event, logOwner, clientVars>>

(* Mutant: the read is left to the completion of a write that never comes. *)
MutantNoRead(s) ==
  /\ srv[s] = "read"
  /\ pipe[cur[s]].inbox = <<>> /\ Connected(cur[s])
  /\ srv' = [srv EXCEPT ![s] = "create"]
  /\ UNCHANGED <<cur, event, logOwner, pipe, clientVars>>

(* CompletedWriteApc called by EntryPoint: NtReadFile has to wait ...      *)
ReadPends(s) ==
  /\ srv[s] = "read"
  /\ pipe[cur[s]].inbox = <<>> /\ Connected(cur[s])
  /\ pipe' = [pipe EXCEPT ![cur[s]].reading = TRUE]
  /\ srv' = [srv EXCEPT ![s] = "create"]
  /\ UNCHANGED <<cur, event, logOwner, clientVars>>

(* ... or gets a message that is there, also from a client that has gone.  *)
ReadNow(s) ==
  /\ srv[s] = "read"
  /\ pipe[cur[s]].inbox # <<>>
  /\ pipe' = [pipe EXCEPT ![cur[s]].got = Head(pipe[cur[s]].inbox),
                          ![cur[s]].inbox = Tail(@)]
  /\ srv' = [srv EXCEPT ![s] = "create"]
  /\ UNCHANGED <<cur, event, logOwner, clientVars>>

(* DisconnectProcess: the read fails because the client has gone, or the   *)
(* status it looks at first, which is memory SafeAlloc does not            *)
(* initialise, happens to be an error.                                     *)
Disconnect(s) ==
  /\ srv[s] = "read"
  /\ \/ pipe[cur[s]].inbox = <<>> /\ ~Connected(cur[s])
     \/ "garbage" \in Faults
  /\ pipe' = [pipe EXCEPT ![cur[s]] = CloseServerEnd(@)]
  /\ srv' = [srv EXCEPT ![s] = "create"]
  /\ UNCHANGED <<cur, event, logOwner, clientVars>>

KillServer(s) == srv[s] # "off" /\ EndServer(s)

-----------------------------------------------------------------------------
(* KexDll in a client process.                                             *)

StartClient(c) ==
  /\ cl[c] = "none"
  /\ cl' = [cl EXCEPT ![c] = "open"]
  /\ UNCHANGED <<srv, cur, event, logOwner, pipe, chan, outcome>>

(* Mutant: the hard error handler is installed before the client has       *)
(* announced itself.                                                       *)
MutantHookFirst(c) ==
  /\ cl[c] = "open"
  /\ \E i \in Instances : Connect(c, i) /\ chan' = [chan EXCEPT ![c] = i]
  /\ cl' = [cl EXCEPT ![c] = "run"]
  /\ UNCHANGED <<srv, cur, logOwner, outcome>>

(* KexSrvOpenChannel.                                                      *)
OpenChannel(c) ==
  /\ cl[c] = "open"
  /\ \E i \in Instances : Connect(c, i) /\ chan' = [chan EXCEPT ![c] = i]
  /\ cl' = [cl EXCEPT ![c] = "notify"]
  /\ UNCHANGED <<srv, cur, logOwner, outcome>>

(* No channel: nothing is announced and no hook is installed.              *)
OpenChannelFails(c) ==
  /\ cl[c] = "open"
  /\ \A i \in Instances : ~Listening(i)
  /\ cl' = [cl EXCEPT ![c] = "run"]
  /\ UNCHANGED <<srv, cur, event, logOwner, pipe, chan, outcome>>

Broken(c) == pipe[chan[c]].owner = None

(* NtWriteFile on the channel.  A pending read takes the message; else it  *)
(* is queued.                                                              *)
Deliver(r, m) ==
  IF r.reading THEN [r EXCEPT !.reading = FALSE, !.got = m]
               ELSE [r EXCEPT !.inbox = Append(@, m)]

(* KexSrvSendMessage.  The write waits until what is in the pipe fits into *)
(* its quota.                                                              *)
SendMessage(c, m) ==
  /\ chan[c] # 0 /\ ~Broken(c)
  /\ pipe' = [pipe EXCEPT ![chan[c]] = Deliver(@, m)]
  /\ cl' = [cl EXCEPT ![c] = IF Load(pipe'[chan[c]].inbox) > Quota THEN "blocked" ELSE "run"]

(* KexSrvNotifyProcessStart, whose result nobody looks at, and             *)
(* KexHeInstallHandler.                                                    *)
NotifyProcessStart(c) ==
  /\ cl[c] = "notify"
  /\ \/ SendMessage(c, "start")
     \/ Broken(c) /\ cl' = [cl EXCEPT ![c] = "run"] /\ UNCHANGED pipe
  /\ UNCHANGED <<srv, cur, event, logOwner, chan, outcome>>

(* KexpNtRaiseHardErrorHook when there is a channel: the error is handed   *)
(* to the pipe, which is all the hook waits for.                           *)
SendHardError(c) ==
  /\ cl[c] = "run"
  /\ SendMessage(c, "error")
  /\ outcome' = [outcome EXCEPT ![c] = IF cl'[c] = "blocked" THEN "none" ELSE "queued"]
  /\ UNCHANGED <<srv, cur, event, logOwner, chan>>

(* The server has gone: the status of the write is the result of the hook. *)
LoseHardError(c) ==
  /\ cl[c] = "run"
  /\ chan[c] # 0 /\ Broken(c)
  /\ outcome' = [outcome EXCEPT ![c] = "lost"]
  /\ UNCHANGED <<srv, cur, event, logOwner, pipe, cl, chan>>

(* There is no channel, or the parameters look strange: the original API   *)
(* raises the error.                                                       *)
RaiseOriginalHardError(c) ==
  /\ cl[c] = "run"
  /\ outcome' = [outcome EXCEPT ![c] = "raised"]
  /\ UNCHANGED <<srv, cur, event, logOwner, pipe, cl, chan>>

(* A write that was waiting is completed by a read or by the end of the    *)
(* server.                                                                 *)
WriteReturns(c) ==
  /\ cl[c] = "blocked"
  /\ Broken(c) \/ Load(pipe[chan[c]].inbox) <= Quota
  /\ outcome' = [outcome EXCEPT ![c] = IF Broken(c) THEN "lost" ELSE "queued"]
  /\ cl' = [cl EXCEPT ![c] = "run"]
  /\ UNCHANGED <<srv, cur, event, logOwner, pipe, chan>>

(* The process ends, by itself or not; a write that was waiting is taken   *)
(* back.                                                                   *)
ExitClient(c) ==
  /\ cl[c] # "none"
  /\ LET i == chan[c]
         waiting == cl[c] = "blocked" /\ ~Broken(c) /\ Load(pipe[i].inbox) > Quota
         kept(r) == IF waiting THEN [r EXCEPT !.inbox = Front(@)] ELSE r
     IN  pipe' = IF i = 0 THEN pipe ELSE [pipe EXCEPT ![i] = CloseClientEnd(kept(@))]
  /\ cl' = [cl EXCEPT ![c] = "none"]
  /\ chan' = [chan EXCEPT ![c] = 0]
  /\ outcome' = [outcome EXCEPT ![c] = "none"]
  /\ UNCHANGED <<srv, cur, event, logOwner>>

-----------------------------------------------------------------------------
(* The steps of a running server.                                          *)
ServerSteps(s) ==
  \/ FindServer(s) \/ FindNoServer(s) \/ Quit(s)
  \/ OpenLog(s) \/ HangOnLog(s)
  \/ CreateInstance(s)
  \/ Listen(s) \/ ListenTooLate(s)
  \/ GiveUp(s)
  \/ Accept(s) \/ AcceptFails(s)
  \/ ReadPends(s) \/ ReadNow(s) \/ Disconnect(s)

ClientSteps(c) ==
  \/ StartClient(c)
  \/ OpenChannel(c) \/ OpenChannelFails(c)
  \/ NotifyProcessStart(c)
  \/ SendHardError(c) \/ LoseHardError(c) \/ RaiseOriginalHardError(c)
  \/ WriteReturns(c)
  \/ ExitClient(c)

Next ==
  \/ \E s \in Servers : StartServer(s) \/ ServerSteps(s) \/ KillServer(s)
  \/ \E c \in Clients : ClientSteps(c)

Spec == Init /\ [][Next]_vars

(* The thread of a server is scheduled.  Nobody has to start or to kill a  *)
(* server, and nothing is assumed of clients.                              *)
FairSpec == Spec /\ \A s \in Servers : WF_vars(ServerSteps(s))

-----------------------------------------------------------------------------
(* Correctness.                                                            *)

(* The types of the variables.                                             *)
TypeOK ==
  /\ srv \in [Servers -> ServerStates]
  /\ cur \in [Servers -> Instances \cup {0}]
  /\ event \in [Servers -> BOOLEAN]
  /\ logOwner \in Servers \cup {None}
  /\ pipe \in [Instances -> Instance]
  /\ cl \in [Clients -> ClientStates]
  /\ chan \in [Clients -> Instances \cup {0}]
  /\ outcome \in [Clients -> {"none", "queued", "raised", "lost"}]

(* The event of a server that waits says whether a client has opened its   *)
(* instance, and if none has, the arrival of one will set it: the reset by *)
(* FSCTL_PIPE_LISTEN never wipes out a client that came before it          *)
(* (pipe.c:72-91, kexsrv.c:127).                                           *)
EventTellsOfClients ==
  \A s \in Servers : srv[s] = "wait" =>
    IF event[s] THEN pipe[cur[s]].pid # None ELSE pipe[cur[s]].armed /\ Listening(cur[s])

(* No handle is leaked or used after it was closed: an instance that a     *)
(* server has open is the one it is about to serve or belongs to a         *)
(* registered client, and a registered client has one (kexsrv.c:156,       *)
(* procthrd.c:271-281).                                                    *)
HandlesAreOwned ==
  \A i \in Instances :
    /\ pipe[i].owner # None =>
         \/ pipe[i].entry
         \/ cur[pipe[i].owner] = i /\ srv[pipe[i].owner] \in {"listen", "wait"}
    /\ pipe[i].entry => pipe[i].owner # None

(* A hard error is in the pipe.                                            *)
Unread(r) == \E k \in DOMAIN r.inbox : r.inbox[k] = "error"

Received(i) == (IF pipe[i].got = "none" THEN <<>> ELSE <<pipe[i].got>>) \o pipe[i].inbox

(* A client announces itself before it sends anything else, and only once, *)
(* whether a message is queued or handed to a read that is waiting.  The   *)
(* announcement is all a server ever reads: as long as the server is there,*)
(* a hard error lies in the pipe unread, although the hook has returned    *)
(* with success; it is not even handed over only if the server has gone,   *)
(* and then it is lost.  The original API, promised by the comment at      *)
(* kexhe.c:36, takes neither (dllmain.c:106-115, apc.c:25-30, apc.c:54-63, *)
(* kexhe.c:56-131).                                                        *)
MessagesKeepTheirOrder ==
  /\ \A i \in Instances : \A k \in DOMAIN Received(i) : Received(i)[k] = "start" <=> k = 1
  /\ \A c \in Clients :
       /\ outcome[c] = "lost" => chan[c] # 0 /\ Broken(c)
       /\ outcome[c] = "queued" => chan[c] # 0 /\ (Broken(c) \/ Unread(pipe[chan[c]]))

(* A client that has connected is registered by the server, or one of the  *)
(* two gives the connection up: no client waits for a server that does not *)
(* know of it (kexsrv.c:126-186).                                          *)
ConnectionsAreAccepted ==
  \A i \in Instances :
    Connected(i) /\ ~pipe[i].entry ~> pipe[i].entry \/ ~Connected(i)

(* The server gets the announcement of a client that stays connected.      *)
FirstMessageArrives ==
  \A i \in Instances :
    Connected(i) /\ pipe[i].inbox # <<>> /\ pipe[i].got = "none"
      ~> pipe[i].got # "none" \/ ~Connected(i)

=============================================================================
