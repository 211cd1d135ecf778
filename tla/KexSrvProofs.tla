---------------------------- MODULE KexSrvProofs ----------------------------
(***************************************************************************)
(* Proofs about KexSrv, for every number of servers, clients and instances *)
(* of the pipe, whatever fails and whoever is killed.                      *)
(***************************************************************************)
EXTENDS KexSrv, TLAPS

LEMMA Names ==
  /\ None \notin Servers /\ None \notin Clients
  /\ \A s \in Servers : s \notin Clients
  /\ 0 \notin Instances
BY ConstantsAssumption DEF Processes, Instances

LEMMA FreeInstanceType == FreeInstance \in Instance
BY DEF FreeInstance, Instance, Kinds

LEMMA FieldTypes ==
  ASSUME NEW r \in Instance
  PROVE  /\ \A s \in Servers : [r EXCEPT !.owner = s] \in Instance
         /\ \A b \in BOOLEAN :
              /\ [r EXCEPT !.armed = b] \in Instance
              /\ [r EXCEPT !.entry = b] \in Instance
              /\ [r EXCEPT !.reading = b] \in Instance
BY DEF Instance

LEMMA Taken ==
  ASSUME NEW r \in Instance, NEW m \in Kinds, NEW q \in Seq(Kinds)
  PROVE  [r EXCEPT !.got = m, !.inbox = q] \in Instance
BY DEF Instance

LEMMA ClosedEnds ==
  ASSUME NEW r \in Instance
  PROVE  CloseServerEnd(r) \in Instance /\ CloseClientEnd(r) \in Instance
BY FreeInstanceType DEF CloseServerEnd, CloseClientEnd, FreeInstance, Instance

LEMMA Delivered ==
  ASSUME NEW r \in Instance, NEW m \in Kinds
  PROVE  Deliver(r, m) \in Instance
<1>1. Append(r.inbox, m) \in Seq(Kinds)
  BY DEF Instance
<1>2. QED BY <1>1 DEF Deliver, Instance

-----------------------------------------------------------------------------
(* Types                                                                   *)

LEMMA ConnectType ==
  ASSUME TypeOK, NEW p \in Processes, NEW i \in Instances, Connect(p, i)
  PROVE  pipe' \in [Instances -> Instance] /\ event' \in [Servers -> BOOLEAN]
<1>1. [pipe[i] EXCEPT !.peer = p, !.pid = p, !.armed = FALSE] \in Instance
  BY ZenonT(40) DEF TypeOK, Instance
<1>2. pipe' = [pipe EXCEPT ![i] = [pipe[i] EXCEPT !.peer = p, !.pid = p, !.armed = FALSE]]
  BY DEF TypeOK, Connect, Instance
<1>3. QED BY <1>1, <1>2 DEF TypeOK, Connect

LEMMA EndServerType ==
  ASSUME TypeOK, NEW s \in Servers, EndServer(s)
  PROVE  TypeOK'
<1>1. pipe' \in [Instances -> Instance]
  BY ClosedEnds DEF TypeOK, EndServer
<1>2. QED BY <1>1 DEF TypeOK, EndServer, ServerStates, clientVars

LEMMA ServerStepsType ==
  ASSUME TypeOK, NEW s \in Servers, StartServer(s) \/ ServerSteps(s) \/ KillServer(s)
  PROVE  TypeOK'
<1> USE DEF clientVars, ServerStates
<1>1. CASE StartServer(s) \/ FindNoServer(s) \/ OpenLog(s) \/ HangOnLog(s)
  BY <1>1 DEF TypeOK, StartServer, FindNoServer, OpenLog, HangOnLog
<1>2. CASE FindServer(s)
  <2>1. PICK i \in Instances : Connect(s, i)
    BY <1>2 DEF FindServer
  <2>2. QED BY <1>2, <2>1, ConnectType DEF TypeOK, FindServer, Processes
<1>3. CASE Quit(s) \/ GiveUp(s) \/ KillServer(s)
  BY <1>3, EndServerType DEF Quit, GiveUp, KillServer
<1>4. CASE CreateInstance(s)
  <2>1. PICK i \in Instances : /\ pipe' = [pipe EXCEPT ![i].owner = s]
                               /\ cur' = [cur EXCEPT ![s] = i]
    BY <1>4 DEF CreateInstance
  <2>2. [pipe[i] EXCEPT !.owner = s] \in Instance
    BY DEF TypeOK, Instance
  <2>3. QED BY <1>4, <2>1, <2>2 DEF TypeOK, CreateInstance
<1>5. CASE Listen(s)
  <2>1. cur[s] \in Instances => [pipe[cur[s]] EXCEPT !.armed = TRUE] \in Instance
    BY FieldTypes DEF TypeOK
  <2>2. pipe' \in [Instances -> Instance]
    BY <1>5, <2>1 DEF TypeOK, Listen
  <2>3. QED BY <1>5, <2>2 DEF TypeOK, Listen
<1>6. CASE ListenTooLate(s)
  BY <1>6 DEF TypeOK, ListenTooLate
<1>7. CASE Accept(s)
  <2>1. cur[s] \in Instances => [pipe[cur[s]] EXCEPT !.entry = TRUE] \in Instance
    BY FieldTypes DEF TypeOK
  <2>2. pipe' \in [Instances -> Instance]
    BY <1>7, <2>1 DEF TypeOK, Accept
  <2>3. QED BY <1>7, <2>2 DEF TypeOK, Accept
<1>8. CASE AcceptFails(s) \/ Disconnect(s)
  <2>1. pipe' = [pipe EXCEPT ![cur[s]] = CloseServerEnd(@)]
    BY <1>8 DEF AcceptFails, Disconnect
  <2>2. pipe' \in [Instances -> Instance]
    BY <2>1, ClosedEnds DEF TypeOK
  <2>3. QED BY <1>8, <2>2 DEF TypeOK, AcceptFails, Disconnect
<1>9. CASE ReadPends(s)
  <2>1. cur[s] \in Instances => [pipe[cur[s]] EXCEPT !.reading = TRUE] \in Instance
    BY FieldTypes DEF TypeOK
  <2>2. pipe' \in [Instances -> Instance]
    BY <1>9, <2>1 DEF TypeOK, ReadPends
  <2>3. QED BY <1>9, <2>2 DEF TypeOK, ReadPends
<1>10. CASE ReadNow(s)
  <2>1. CASE cur[s] \in Instances
    <3>1. pipe[cur[s]].inbox \in Seq(Kinds) /\ pipe[cur[s]].inbox # <<>>
      BY <1>10, <2>1 DEF TypeOK, Instance, ReadNow
    <3>2. Head(pipe[cur[s]].inbox) \in Kinds /\ Tail(pipe[cur[s]].inbox) \in Seq(Kinds)
      BY <3>1
    <3>3. [pipe[cur[s]] EXCEPT !.got = Head(pipe[cur[s]].inbox), !.inbox = Tail(@)] \in Instance
      BY <2>1, <3>2, Taken DEF TypeOK
    <3>4. pipe' = [pipe EXCEPT ![cur[s]] =
                     [pipe[cur[s]] EXCEPT !.got = Head(pipe[cur[s]].inbox), !.inbox = Tail(@)]]
      BY <1>10, <2>1 DEF TypeOK, Instance, ReadNow
    <3>5. QED BY <1>10, <3>3, <3>4 DEF TypeOK, ReadNow
  <2>2. CASE cur[s] \notin Instances
    BY <1>10, <2>2 DEF TypeOK, ReadNow
  <2>3. QED BY <2>1, <2>2
<1>11. QED
  BY <1>1, <1>2, <1>3, <1>4, <1>5, <1>6, <1>7, <1>8, <1>9, <1>10, Zenon DEF ServerSteps

LEMMA FrontType ==
  ASSUME NEW S, NEW q \in Seq(S)
  PROVE  Front(q) \in Seq(S)
BY DEF Front

LEMMA QueueType ==
  ASSUME NEW r \in Instance, NEW q \in Seq(Kinds)
  PROVE  [r EXCEPT !.inbox = q] \in Instance
BY DEF Instance

LEMMA ExitClientType ==
  ASSUME TypeOK, NEW c \in Clients, ExitClient(c)
  PROVE  TypeOK'
<1> DEFINE i == chan[c]
           waiting == cl[c] = "blocked" /\ ~Broken(c) /\ Load(pipe[i].inbox) > Quota
           kept(r) == IF waiting THEN [r EXCEPT !.inbox = Front(@)] ELSE r
<1>1. CASE i = 0
  BY <1>1 DEF TypeOK, ExitClient, ClientStates
<1>2. CASE i # 0
  <2>1. i \in Instances /\ pipe[i] \in Instance
    BY <1>2 DEF TypeOK
  <2>2. pipe' = [pipe EXCEPT ![i] = CloseClientEnd(kept(pipe[i]))]
    BY <1>2 DEF ExitClient
  <2>3. kept(pipe[i]) \in Instance
    <3>1. CASE waiting
      <4>1. pipe[i].inbox \in Seq(Kinds)
        BY <2>1 DEF Instance
      <4>2. Front(pipe[i].inbox) \in Seq(Kinds)
        BY <4>1, FrontType
      <4>4. QED BY <2>1, <3>1, <4>2, QueueType
    <3>2. QED BY <2>1, <3>1
  <2>4. CloseClientEnd(kept(pipe[i])) \in Instance
    BY <2>3, ClosedEnds
  <2>5. QED BY <2>2, <2>4 DEF TypeOK, ExitClient, ClientStates
<1>3. QED BY <1>1, <1>2

LEMMA ClientStepsType ==
  ASSUME TypeOK, NEW c \in Clients, ClientSteps(c)
  PROVE  TypeOK'
<1> USE DEF ClientStates
<1>1. CASE StartClient(c) \/ OpenChannelFails(c) \/ LoseHardError(c)
           \/ RaiseOriginalHardError(c) \/ WriteReturns(c)
  BY <1>1 DEF TypeOK, StartClient, OpenChannelFails, LoseHardError,
              RaiseOriginalHardError, WriteReturns
<1>2. CASE OpenChannel(c)
  <2>1. PICK i \in Instances : Connect(c, i) /\ chan' = [chan EXCEPT ![c] = i]
    BY <1>2 DEF OpenChannel
  <2>2. QED BY <1>2, <2>1, ConnectType DEF TypeOK, OpenChannel, Processes
<1>3. ASSUME NEW m \in Kinds, SendMessage(c, m)
      PROVE  /\ pipe' \in [Instances -> Instance]
             /\ cl' \in [Clients -> ClientStates]
  <2>1. chan[c] \in Instances /\ pipe[chan[c]] \in Instance
    BY <1>3 DEF TypeOK, SendMessage
  <2>2. QED BY <1>3, <2>1, Delivered DEF TypeOK, SendMessage
<1>4. CASE NotifyProcessStart(c)
  BY <1>3, <1>4 DEF TypeOK, NotifyProcessStart, Kinds
<1>5. CASE SendHardError(c)
  BY <1>3, <1>5 DEF TypeOK, SendHardError, Kinds
<1>6. CASE ExitClient(c)
  BY <1>6, ExitClientType
<1>7. QED
  BY <1>1, <1>2, <1>4, <1>5, <1>6, Zenon DEF ClientSteps

LEMMA TypeStep == TypeOK /\ [Next]_vars => TypeOK'
<1> SUFFICES ASSUME TypeOK, [Next]_vars PROVE TypeOK'
  OBVIOUS
<1>1. ASSUME NEW s \in Servers, StartServer(s) \/ ServerSteps(s) \/ KillServer(s)
      PROVE  TypeOK'
  BY <1>1, ServerStepsType
<1>2. ASSUME NEW c \in Clients, ClientSteps(c)
      PROVE  TypeOK'
  BY <1>2, ClientStepsType
<1>3. CASE UNCHANGED vars
  BY <1>3 DEF TypeOK, vars
<1>4. QED BY <1>1, <1>2, <1>3 DEF Next

LEMMA TypeInit == Init => TypeOK
BY FreeInstanceType DEF Init, TypeOK, ServerStates, ClientStates

(* Every variable keeps its type: no process is ever in a place its code   *)
(* does not have, and what the instances of the pipe hold are messages.    *)
THEOREM TypeCorrect == Spec => []TypeOK
BY TypeInit, TypeStep, PTL DEF Spec

-----------------------------------------------------------------------------
(* What the server's steps rest on.                                        *)

(* The instance a server is busy with is its own.                          *)
CurrentIsOwn ==
  \A s \in Servers : srv[s] \in {"listen", "wait", "read"} =>
    cur[s] \in Instances /\ pipe[cur[s]].owner = s

(* A listen that is pending belongs to the server that waits for it.       *)
ListenIsAwaited ==
  \A i \in Instances : pipe[i].armed =>
    /\ Listening(i)
    /\ srv[pipe[i].owner] = "wait" /\ cur[pipe[i].owner] = i

(* Whoever has the client end open has left its id.                        *)
PeerIsKnown ==
  \A i \in Instances : pipe[i].peer # None => pipe[i].pid # None

IInv ==
  /\ TypeOK
  /\ CurrentIsOwn
  /\ ListenIsAwaited
  /\ PeerIsKnown
  /\ HandlesAreOwned
  /\ EventTellsOfClients

(* What the server knows of an instance is the same in q and in r, or no   *)
(* server has it open.                                                     *)
SameState(q, r) ==
  \/ /\ q.owner = r.owner /\ q.pid = r.pid
     /\ q.armed = r.armed /\ q.entry = r.entry
     /\ q.peer \in {r.peer, None}
  \/ r.owner = None /\ q = FreeInstance

(* A step that leaves the servers alone, and the instances but for their   *)
(* messages, their reads and a client that goes.                           *)
LEMMA ClientsDoNotDisturb ==
  ASSUME IInv, TypeOK', UNCHANGED <<srv, cur, event>>,
         \A i \in Instances : SameState(pipe'[i], pipe[i])
  PROVE  IInv'
<1> USE Names DEF SameState, IInv, FreeInstance
<1>1. CurrentIsOwn'
  BY DEF CurrentIsOwn
<1>2. ListenIsAwaited'
  BY DEF ListenIsAwaited, Listening
<1>3. PeerIsKnown'
  BY DEF PeerIsKnown
<1>4. HandlesAreOwned'
  BY DEF HandlesAreOwned
<1>5. EventTellsOfClients'
  BY DEF EventTellsOfClients, CurrentIsOwn, Listening
<1>6. QED BY <1>1, <1>2, <1>3, <1>4, <1>5

LEMMA ClosedByClient ==
  ASSUME NEW r \in Instance
  PROVE  SameState(CloseClientEnd(r), r)
BY DEF SameState, CloseClientEnd, Instance

LEMMA WrittenByClient ==
  ASSUME NEW r \in Instance, NEW m, NEW q
  PROVE  SameState(Deliver(r, m), r) /\ SameState([r EXCEPT !.inbox = q], r)
BY DEF SameState, Deliver, Instance

LEMMA Unchanged ==
  ASSUME NEW r
  PROVE  SameState(r, r)
BY DEF SameState

LEMMA ConnectKeeps ==
  ASSUME IInv, TypeOK', NEW p \in Processes, NEW i \in Instances, Connect(p, i),
         \A s \in Servers : srv[s] \in {"listen", "wait", "read"} \/ srv'[s] \in {"listen", "wait", "read"}
                              => srv'[s] = srv[s],
         cur' = cur
  PROVE  IInv'
<1> USE Names DEF IInv
<1>1. /\ pipe'[i] = [pipe[i] EXCEPT !.peer = p, !.pid = p, !.armed = FALSE]
      /\ \A j \in Instances : j # i => pipe'[j] = pipe[j]
      /\ pipe[i] \in Instance
  BY DEF TypeOK, Connect, Instance
<1>2. /\ pipe'[i].owner = pipe[i].owner /\ pipe'[i].entry = pipe[i].entry
      /\ pipe'[i].peer = p /\ pipe'[i].pid = p /\ ~pipe'[i].armed
  BY <1>1 DEF Instance
<1>3. p # None
  BY DEF Processes
<1>10. \A j \in Instances : pipe'[j].owner = pipe[j].owner
                            /\ (pipe[j].owner # None => pipe[j].owner \in Servers)
  BY <1>1, <1>2, ZenonT(40) DEF TypeOK, Instance
<1>4. CurrentIsOwn'
  BY <1>1, <1>2 DEF CurrentIsOwn
<1>5. ListenIsAwaited'
  <2> SUFFICES ASSUME NEW j \in Instances, pipe'[j].armed
               PROVE  /\ Listening(j)'
                      /\ srv'[pipe'[j].owner] = "wait" /\ cur'[pipe'[j].owner] = j
    BY DEF ListenIsAwaited
  <2>1. j # i /\ pipe'[j] = pipe[j]
    BY <1>1, <1>2
  <2>2. Listening(j) /\ srv[pipe[j].owner] = "wait" /\ cur[pipe[j].owner] = j
    BY <2>1 DEF ListenIsAwaited
  <2>3. pipe[j].owner \in Servers
    BY <1>10, <2>2 DEF Listening
  <2>4. srv'[pipe[j].owner] = "wait"
    BY <2>2, <2>3
  <2>5. QED BY <2>1, <2>2, <2>4 DEF Listening
<1>6. PeerIsKnown'
  BY <1>1, <1>2, <1>3 DEF PeerIsKnown
<1>7. HandlesAreOwned'
  <2> SUFFICES ASSUME NEW j \in Instances
               PROVE  /\ pipe'[j].owner # None =>
                           \/ pipe'[j].entry
                           \/ /\ cur'[pipe'[j].owner] = j
                              /\ srv'[pipe'[j].owner] \in {"listen", "wait"}
                      /\ pipe'[j].entry => pipe'[j].owner # None
    BY DEF HandlesAreOwned
  <2>1. pipe'[j].owner = pipe[j].owner /\ pipe'[j].entry = pipe[j].entry
    BY <1>1, <1>2
  <2>2. CASE pipe[j].owner = None
    BY <2>1, <2>2 DEF HandlesAreOwned
  <2>3. CASE pipe[j].owner # None
    <3>1. pipe[j].owner \in Servers
      BY <1>10, <2>3
    <3>2. \/ pipe[j].entry
          \/ cur[pipe[j].owner] = j /\ srv[pipe[j].owner] \in {"listen", "wait"}
      BY <2>3 DEF HandlesAreOwned
    <3>3. QED BY <2>1, <2>3, <3>1, <3>2
  <2>4. QED BY <2>2, <2>3
<1>8. EventTellsOfClients'
  <2> SUFFICES ASSUME NEW s \in Servers, srv'[s] = "wait"
               PROVE  IF event'[s] THEN pipe'[cur[s]].pid # None
                      ELSE /\ pipe'[cur[s]].armed
                           /\ pipe'[cur[s]].owner # None /\ pipe'[cur[s]].pid = None
    BY DEF EventTellsOfClients, Listening
  <2>1. srv[s] = "wait" /\ cur[s] \in Instances /\ pipe[cur[s]].owner = s
    BY DEF CurrentIsOwn
  <2>2. CASE cur[s] = i
    <3>1. Listening(i)
      BY DEF Connect
    <3>2. ~event[s] /\ pipe[i].armed
      BY <2>1, <2>2, <3>1 DEF EventTellsOfClients, Listening
    <3>3. event'[s]
      BY <2>1, <2>2, <3>2 DEF Connect, TypeOK
    <3>4. QED BY <1>2, <1>3, <2>2, <3>3
  <2>3. CASE cur[s] # i
    <3>1. event'[s] = event[s]
      <4>1. CASE pipe[i].armed
        <5>1. pipe[i].owner # s
          BY <2>3, <4>1 DEF ListenIsAwaited
        <5>2. QED BY <4>1, <5>1 DEF Connect, TypeOK
      <4>2. QED BY <4>1 DEF Connect
    <3>2. QED BY <1>1, <2>1, <2>3, <3>1 DEF EventTellsOfClients, Listening
  <2>4. QED BY <2>2, <2>3
<1>9. QED BY <1>4, <1>5, <1>6, <1>7, <1>8

LEMMA ClientStepsKeep ==
  ASSUME IInv, NEW c \in Clients, ClientSteps(c)
  PROVE  IInv'
<1>1. TypeOK' /\ TypeOK
  BY ClientStepsType DEF IInv
<1>2. CASE OpenChannel(c)
  <2>1. PICK i \in Instances : Connect(c, i)
    BY <1>2 DEF OpenChannel
  <2>2. QED BY <1>1, <1>2, <2>1, ConnectKeeps DEF OpenChannel, Processes
<1>3. ASSUME \A i \in Instances : SameState(pipe'[i], pipe[i]), UNCHANGED <<srv, cur, event>>
      PROVE  IInv'
  BY <1>1, <1>3, ClientsDoNotDisturb
<1>4. CASE StartClient(c) \/ OpenChannelFails(c) \/ LoseHardError(c)
           \/ RaiseOriginalHardError(c) \/ WriteReturns(c)
  BY <1>3, <1>4, Unchanged DEF StartClient, OpenChannelFails, LoseHardError,
                               RaiseOriginalHardError, WriteReturns
<1>5. ASSUME NEW m, SendMessage(c, m)
      PROVE  \A i \in Instances : SameState(pipe'[i], pipe[i])
  BY <1>1, <1>5, Unchanged, WrittenByClient DEF SendMessage, TypeOK
<1>6. CASE NotifyProcessStart(c)
  BY <1>3, <1>5, <1>6, Unchanged DEF NotifyProcessStart
<1>7. CASE SendHardError(c)
  BY <1>3, <1>5, <1>7 DEF SendHardError
<1>8. CASE ExitClient(c)
  <2> DEFINE i == chan[c]
             waiting == cl[c] = "blocked" /\ ~Broken(c) /\ Load(pipe[i].inbox) > Quota
             kept(r) == IF waiting THEN [r EXCEPT !.inbox = Front(@)] ELSE r
  <2>1. CASE i = 0
    BY <1>3, <1>8, <2>1, Unchanged DEF ExitClient
  <2>2. CASE i # 0
    <3>1. i \in Instances /\ pipe[i] \in Instance
      BY <1>1, <2>2 DEF TypeOK
    <3>2. pipe' = [pipe EXCEPT ![i] = CloseClientEnd(kept(pipe[i]))]
      BY <1>8, <2>2 DEF ExitClient
    <3>3. SameState(CloseClientEnd(kept(pipe[i])), pipe[i])
      BY <3>1 DEF SameState, CloseClientEnd, Instance
    <3>4. \A j \in Instances : SameState(pipe'[j], pipe[j])
      BY <1>1, <3>1, <3>2, <3>3, Unchanged DEF TypeOK
    <3>5. QED BY <1>3, <1>8, <3>4 DEF ExitClient
  <2>3. QED BY <2>1, <2>2
<1>9. QED
  BY <1>2, <1>4, <1>6, <1>7, <1>8, Zenon DEF ClientSteps

LEMMA EndServerKeeps ==
  ASSUME IInv, NEW s \in Servers, EndServer(s)
  PROVE  IInv'
<1> USE Names DEF IInv
<1>1. TypeOK'
  BY EndServerType
<1>2. ASSUME NEW i \in Instances, pipe[i].owner = s
      PROVE  /\ pipe'[i].owner = None /\ ~pipe'[i].armed /\ ~pipe'[i].entry
             /\ pipe'[i].peer # None => pipe'[i].pid # None
  BY <1>2 DEF EndServer, CloseServerEnd, FreeInstance, PeerIsKnown, TypeOK, Instance
<1>3. ASSUME NEW i \in Instances, pipe[i].owner # s
      PROVE  SameState(pipe'[i], pipe[i])
  BY <1>3, ClosedByClient, Unchanged DEF EndServer, TypeOK
<1>4. ASSUME NEW t \in Servers, t # s
      PROVE  srv'[t] = srv[t] /\ cur'[t] = cur[t] /\ event'[t] = event[t]
  BY <1>4 DEF EndServer, TypeOK
<1>5. srv'[s] = "off"
  BY DEF EndServer, TypeOK
<1>6. ASSUME NEW i \in Instances, pipe'[i].owner # None
      PROVE  /\ pipe[i].owner \in Servers \ {s}
             /\ pipe'[i].owner = pipe[i].owner /\ pipe'[i].pid = pipe[i].pid
             /\ pipe'[i].armed = pipe[i].armed /\ pipe'[i].entry = pipe[i].entry
  BY <1>2, <1>3, <1>6 DEF SameState, FreeInstance, TypeOK, Instance
<1>7. ASSUME NEW i \in Instances, pipe'[i].owner = None
      PROVE  ~pipe'[i].armed /\ ~pipe'[i].entry
  <2>1. CASE pipe[i].owner = s
    BY <1>2, <2>1
  <2>2. CASE pipe[i].owner # s
    BY <1>3, <1>7, <2>2 DEF SameState, FreeInstance, ListenIsAwaited, Listening, HandlesAreOwned
  <2>3. QED BY <2>1, <2>2
<1>8. CurrentIsOwn'
  <2> SUFFICES ASSUME NEW t \in Servers, srv'[t] \in {"listen", "wait", "read"}
               PROVE  cur'[t] \in Instances /\ pipe'[cur'[t]].owner = t
    BY DEF CurrentIsOwn
  <2>1. t # s
    BY <1>5
  <2>2. cur'[t] = cur[t] /\ cur[t] \in Instances /\ pipe[cur[t]].owner = t
    BY <1>4, <2>1 DEF CurrentIsOwn
  <2>3. QED BY <1>3, <2>1, <2>2 DEF SameState
<1>9. ListenIsAwaited'
  <2> SUFFICES ASSUME NEW i \in Instances, pipe'[i].armed
               PROVE  /\ Listening(i)'
                      /\ srv'[pipe'[i].owner] = "wait" /\ cur'[pipe'[i].owner] = i
    BY DEF ListenIsAwaited
  <2>1. pipe'[i].owner # None
    BY <1>7
  <2>2. QED BY <1>4, <1>6, <2>1 DEF ListenIsAwaited, Listening
<1>10. PeerIsKnown'
  <2> SUFFICES ASSUME NEW i \in Instances, pipe'[i].peer # None
               PROVE  pipe'[i].pid # None
    BY DEF PeerIsKnown
  <2>1. CASE pipe[i].owner = s
    BY <1>2, <2>1
  <2>2. CASE pipe[i].owner # s
    BY <1>3, <2>2 DEF SameState, FreeInstance, PeerIsKnown
  <2>3. QED BY <2>1, <2>2
<1>11. HandlesAreOwned'
  <2> SUFFICES ASSUME NEW i \in Instances
               PROVE  /\ pipe'[i].owner # None =>
                           \/ pipe'[i].entry
                           \/ /\ cur'[pipe'[i].owner] = i
                              /\ srv'[pipe'[i].owner] \in {"listen", "wait"}
                      /\ pipe'[i].entry => pipe'[i].owner # None
    BY DEF HandlesAreOwned
  <2>1. CASE pipe'[i].owner = None
    BY <1>7, <2>1
  <2>2. CASE pipe'[i].owner # None
    BY <1>4, <1>6, <2>2 DEF HandlesAreOwned
  <2>3. QED BY <2>1, <2>2
<1>12. EventTellsOfClients'
  <2> SUFFICES ASSUME NEW t \in Servers, srv'[t] = "wait"
               PROVE  IF event'[t] THEN pipe'[cur'[t]].pid # None
                      ELSE /\ pipe'[cur'[t]].armed
                           /\ pipe'[cur'[t]].owner # None /\ pipe'[cur'[t]].pid = None
    BY DEF EventTellsOfClients, Listening
  <2>1. t # s
    BY <1>5
  <2>2. cur'[t] \in Instances /\ pipe'[cur'[t]].owner = t
    BY <1>8 DEF CurrentIsOwn
  <2>3. QED BY <1>4, <1>6, <2>1, <2>2 DEF EventTellsOfClients, Listening
<1>13. QED BY <1>1, <1>8, <1>9, <1>10, <1>11, <1>12

(* A step of s that changes no instance but i, the one s serves.           *)
LEMMA OwnStepKeeps ==
  ASSUME IInv, TypeOK', NEW s \in Servers, NEW i \in Instances,
         pipe[i].owner \in {s, None},
         srv[s] \in {"listen", "wait", "read"} => cur[s] = i,
         \A j \in Instances \ {i} : pipe'[j] = pipe[j],
         \A t \in Servers \ {s} :
           srv'[t] = srv[t] /\ cur'[t] = cur[t] /\ event'[t] = event[t],
         cur'[s] = i,
         pipe'[i].owner \in {s, None},
         srv'[s] \in {"listen", "wait", "read"} => pipe'[i].owner = s,
         pipe'[i].armed => /\ srv'[s] = "wait"
                           /\ pipe'[i].owner = s /\ pipe'[i].pid = None,
         pipe'[i].peer # None => pipe'[i].pid # None,
         pipe'[i].owner = s => pipe'[i].entry \/ srv'[s] \in {"listen", "wait"},
         pipe'[i].entry => pipe'[i].owner = s,
         srv'[s] = "wait" =>
           IF event'[s] THEN pipe'[i].pid # None
           ELSE pipe'[i].armed
  PROVE  IInv'
<1> USE Names DEF IInv
<1>1. CurrentIsOwn'
  BY DEF CurrentIsOwn
<1>2. ListenIsAwaited'
  <2> SUFFICES ASSUME NEW j \in Instances, pipe'[j].armed
               PROVE  /\ pipe'[j].owner # None /\ pipe'[j].pid = None
                      /\ srv'[pipe'[j].owner] = "wait" /\ cur'[pipe'[j].owner] = j
    BY DEF ListenIsAwaited, Listening
  <2>1. CASE j = i
    BY <2>1
  <2>2. CASE j # i
    <3>1. /\ pipe[j].owner # None /\ pipe[j].pid = None
          /\ srv[pipe[j].owner] = "wait" /\ cur[pipe[j].owner] = j
      BY <2>2 DEF ListenIsAwaited, Listening
    <3>2. pipe[j].owner \in Servers
      BY <3>1 DEF TypeOK, Instance
    <3>3. pipe[j].owner # s
      BY <2>2, <3>1
    <3>4. QED BY <2>2, <3>1, <3>2, <3>3
  <2>3. QED BY <2>1, <2>2
<1>3. PeerIsKnown'
  BY DEF PeerIsKnown
<1>4. HandlesAreOwned'
  <2> SUFFICES ASSUME NEW j \in Instances
               PROVE  /\ pipe'[j].owner # None =>
                           \/ pipe'[j].entry
                           \/ /\ cur'[pipe'[j].owner] = j
                              /\ srv'[pipe'[j].owner] \in {"listen", "wait"}
                      /\ pipe'[j].entry => pipe'[j].owner # None
    BY DEF HandlesAreOwned
  <2>1. CASE j = i
    BY <2>1
  <2>2. CASE j # i /\ pipe[j].owner # None
    <3>1. \/ pipe[j].entry
          \/ cur[pipe[j].owner] = j /\ srv[pipe[j].owner] \in {"listen", "wait"}
      BY <2>2 DEF HandlesAreOwned
    <3>2. pipe[j].owner \in Servers
      BY <2>2 DEF TypeOK, Instance
    <3>3. QED BY <2>2, <3>1, <3>2
  <2>3. CASE j # i /\ pipe[j].owner = None
    BY <2>3 DEF HandlesAreOwned
  <2>4. QED BY <2>1, <2>2, <2>3
<1>5. EventTellsOfClients'
  <2> SUFFICES ASSUME NEW t \in Servers, srv'[t] = "wait"
               PROVE  IF event'[t] THEN pipe'[cur'[t]].pid # None
                      ELSE /\ pipe'[cur'[t]].armed
                           /\ pipe'[cur'[t]].owner # None /\ pipe'[cur'[t]].pid = None
    BY DEF EventTellsOfClients, Listening
  <2>1. CASE t = s
    BY <2>1
  <2>2. CASE t # s
    <3>1. cur[t] \in Instances /\ pipe[cur[t]].owner = t /\ srv[t] = "wait"
      BY <2>2 DEF CurrentIsOwn
    <3>2. cur[t] # i
      BY <2>2, <3>1
    <3>3. QED BY <2>2, <3>1, <3>2 DEF EventTellsOfClients, Listening
  <2>3. QED BY <2>1, <2>2
<1>6. QED BY <1>1, <1>2, <1>3, <1>4, <1>5

(* A step of s that changes no instance, when s serves none.               *)
LEMMA IdleStepKeeps ==
  ASSUME IInv, TypeOK', NEW s \in Servers,
         {srv[s], srv'[s]} \cap {"listen", "wait", "read"} = {},
         \A t \in Servers \ {s} : srv'[t] = srv[t] /\ event'[t] = event[t],
         UNCHANGED <<cur, pipe>>
  PROVE  IInv'
<1> USE DEF IInv
<1>1. \A t \in Servers : {srv[t], srv'[t]} \cap {"listen", "wait", "read"} # {} =>
                           srv'[t] = srv[t] /\ event'[t] = event[t]
  OBVIOUS
<1>2. \A i \in Instances : pipe[i].owner # None => pipe[i].owner \in Servers
  BY DEF TypeOK, Instance
<1>3. CurrentIsOwn'
  BY <1>1 DEF CurrentIsOwn
<1>4. ListenIsAwaited'
  <2> SUFFICES ASSUME NEW j \in Instances, pipe[j].armed
               PROVE  srv'[pipe[j].owner] = "wait"
    BY DEF ListenIsAwaited, Listening
  <2>1. srv[pipe[j].owner] = "wait" /\ pipe[j].owner \in Servers
    BY <1>2 DEF ListenIsAwaited, Listening
  <2>2. QED BY <1>1, <2>1
<1>5. PeerIsKnown'
  BY DEF PeerIsKnown
<1>6. HandlesAreOwned'
  <2> SUFFICES ASSUME NEW j \in Instances, pipe[j].owner # None, ~pipe[j].entry
               PROVE  srv'[pipe[j].owner] \in {"listen", "wait"}
    BY DEF HandlesAreOwned
  <2>1. srv[pipe[j].owner] \in {"listen", "wait"} /\ pipe[j].owner \in Servers
    BY <1>2 DEF HandlesAreOwned
  <2>2. QED BY <1>1, <2>1
<1>7. EventTellsOfClients'
  BY <1>1 DEF EventTellsOfClients, Listening
<1>8. QED BY <1>3, <1>4, <1>5, <1>6, <1>7

(* What the invariant says of the instance a server serves.                *)
LEMMA Serving ==
  ASSUME IInv, NEW s \in Servers, srv[s] \in {"listen", "wait", "read"}
  PROVE  /\ cur[s] \in Instances /\ pipe[cur[s]] \in Instance
         /\ pipe[cur[s]].owner = s
         /\ pipe[cur[s]].peer # None => pipe[cur[s]].pid # None
         /\ pipe[cur[s]].armed => srv[s] = "wait" /\ pipe[cur[s]].pid = None
         /\ srv[s] = "read" => pipe[cur[s]].entry
         /\ srv[s] = "wait" =>
              IF event[s] THEN pipe[cur[s]].pid # None ELSE pipe[cur[s]].armed
<1> USE Names DEF IInv
<1>1. cur[s] \in Instances /\ pipe[cur[s]].owner = s
  BY DEF CurrentIsOwn
<1>2. pipe[cur[s]] \in Instance
  BY <1>1 DEF TypeOK
<1>3. srv[s] = "read" => pipe[cur[s]].entry
  BY <1>1 DEF HandlesAreOwned
<1>4. QED
  BY <1>1, <1>2, <1>3 DEF PeerIsKnown, ListenIsAwaited, Listening, EventTellsOfClients

LEMMA ServerClosed ==
  ASSUME NEW r \in Instance, r.peer # None => r.pid # None
  PROVE  LET q == CloseServerEnd(r)
         IN  /\ q.owner = None /\ ~q.armed /\ ~q.entry
             /\ q.peer # None => q.pid # None
BY DEF CloseServerEnd, FreeInstance, Instance

LEMMA ServerStepsKeep ==
  ASSUME IInv, NEW s \in Servers, StartServer(s) \/ ServerSteps(s) \/ KillServer(s)
  PROVE  IInv'
<1> DEFINE i == cur[s]
<1> USE Names
<1>1. TypeOK /\ TypeOK'
  BY ServerStepsType DEF IInv
<1>2. CASE StartServer(s) \/ FindNoServer(s) \/ OpenLog(s) \/ HangOnLog(s)
  <2>1. /\ {srv[s], srv'[s]} \cap {"listen", "wait", "read"} = {}
        /\ \A t \in Servers \ {s} : srv'[t] = srv[t] /\ event'[t] = event[t]
        /\ UNCHANGED <<cur, pipe>>
    BY <1>1, <1>2 DEF StartServer, FindNoServer, OpenLog, HangOnLog, TypeOK
  <2>2. QED BY <1>1, <2>1, IdleStepKeeps
<1>3. CASE FindServer(s)
  <2>1. PICK j \in Instances : Connect(s, j)
    BY <1>3 DEF FindServer
  <2>2. /\ srv[s] = "probe" /\ srv'[s] = "quit" /\ cur' = cur
        /\ \A t \in Servers \ {s} : srv'[t] = srv[t]
    BY <1>1, <1>3 DEF FindServer, TypeOK
  <2>3. \A t \in Servers :
          srv[t] \in {"listen", "wait", "read"} \/ srv'[t] \in {"listen", "wait", "read"}
            => srv'[t] = srv[t]
    BY <2>2
  <2>4. QED BY <1>1, <2>1, <2>2, <2>3, ConnectKeeps DEF Processes
<1>4. CASE Quit(s) \/ GiveUp(s) \/ KillServer(s)
  BY <1>4, EndServerKeeps DEF Quit, GiveUp, KillServer
<1>5. CASE CreateInstance(s)
  <2>1. PICK j \in Instances : /\ Free(j)
                               /\ pipe' = [pipe EXCEPT ![j].owner = s]
                               /\ cur' = [cur EXCEPT ![s] = j]
    BY <1>5 DEF CreateInstance
  <2>2. /\ srv[s] = "create" /\ srv'[s] = "listen" /\ cur'[s] = j
        /\ \A t \in Servers \ {s} :
             srv'[t] = srv[t] /\ cur'[t] = cur[t] /\ event'[t] = event[t]
    BY <1>1, <1>5, <2>1 DEF CreateInstance, TypeOK
  <2>3. /\ pipe[j].owner = None
        /\ \A k \in Instances \ {j} : pipe'[k] = pipe[k]
        /\ pipe'[j].owner = s /\ ~pipe'[j].armed /\ ~pipe'[j].entry
        /\ pipe'[j].peer = None
    BY <1>1, <2>1 DEF Free, FreeInstance, TypeOK
  <2>4. QED BY <1>1, <2>2, <2>3, OwnStepKeeps
<1>6. CASE Listen(s)
  <2>1. srv[s] = "listen" /\ i \in Instances /\ pipe[i].owner = s /\ pipe[i].pid = None
    BY <1>6, Serving DEF Listen, Listening
  <2>2. /\ srv'[s] = "wait" /\ ~event'[s] /\ cur'[s] = i
        /\ \A t \in Servers \ {s} :
             srv'[t] = srv[t] /\ cur'[t] = cur[t] /\ event'[t] = event[t]
    BY <1>1, <1>6 DEF Listen, TypeOK
  <2>3. pipe' = [pipe EXCEPT ![i] = [pipe[i] EXCEPT !.armed = TRUE]]
    BY <1>1, <1>6, <2>1 DEF Listen, TypeOK
  <2>4. /\ \A k \in Instances \ {i} : pipe'[k] = pipe[k]
        /\ pipe'[i].owner = s /\ pipe'[i].armed /\ pipe'[i].pid = None
        /\ pipe'[i].peer = pipe[i].peer /\ pipe'[i].entry = pipe[i].entry
    BY <1>1, <2>1, <2>3 DEF TypeOK, Instance
  <2>5. pipe[i].peer # None => pipe[i].pid # None
    BY <2>1, Serving
  <2>6. QED BY <1>1, <2>1, <2>2, <2>4, <2>5, OwnStepKeeps
<1>7. CASE ListenTooLate(s)
  <2>1. /\ srv[s] = "listen" /\ i \in Instances /\ pipe[i].owner = s /\ ~pipe[i].armed
        /\ pipe[i].pid # None
    BY <1>7, Serving DEF ListenTooLate, Connected
  <2>2. /\ srv'[s] = "wait" /\ event'[s] /\ cur'[s] = i /\ pipe' = pipe
        /\ \A t \in Servers \ {s} :
             srv'[t] = srv[t] /\ cur'[t] = cur[t] /\ event'[t] = event[t]
    BY <1>1, <1>7 DEF ListenTooLate, TypeOK
  <2>3. QED BY <1>1, <2>1, <2>2, OwnStepKeeps
<1>8. CASE Accept(s)
  <2>1. /\ srv[s] = "wait" /\ i \in Instances /\ pipe[i].owner = s /\ pipe[i].pid # None
        /\ ~pipe[i].armed
    BY <1>8, Serving DEF Accept
  <2>2. /\ srv'[s] = "read" /\ cur'[s] = i
        /\ \A t \in Servers \ {s} :
             srv'[t] = srv[t] /\ cur'[t] = cur[t] /\ event'[t] = event[t]
    BY <1>1, <1>8 DEF Accept, TypeOK
  <2>3. pipe' = [pipe EXCEPT ![i] = [pipe[i] EXCEPT !.entry = TRUE]]
    BY <1>1, <1>8, <2>1 DEF Accept, TypeOK
  <2>4. /\ \A k \in Instances \ {i} : pipe'[k] = pipe[k]
        /\ pipe'[i].owner = s /\ ~pipe'[i].armed /\ pipe'[i].pid # None
        /\ pipe'[i].entry
    BY <1>1, <2>1, <2>3 DEF TypeOK, Instance
  <2>5. QED BY <1>1, <2>1, <2>2, <2>4, OwnStepKeeps
<1>9. CASE AcceptFails(s) \/ Disconnect(s)
  <2>1. /\ srv[s] \in {"wait", "read"} /\ i \in Instances /\ pipe[i].owner = s
        /\ pipe[i] \in Instance /\ (pipe[i].peer # None => pipe[i].pid # None)
    BY <1>9, Serving DEF AcceptFails, Disconnect
  <2>2. /\ srv'[s] = "create" /\ cur'[s] = i
        /\ \A t \in Servers \ {s} :
             srv'[t] = srv[t] /\ cur'[t] = cur[t] /\ event'[t] = event[t]
    BY <1>1, <1>9 DEF AcceptFails, Disconnect, TypeOK
  <2>3. pipe' = [pipe EXCEPT ![i] = CloseServerEnd(pipe[i])]
    BY <1>9 DEF AcceptFails, Disconnect
  <2>4. /\ \A k \in Instances \ {i} : pipe'[k] = pipe[k]
        /\ pipe'[i] = CloseServerEnd(pipe[i])
    BY <1>1, <2>1, <2>3 DEF TypeOK
  <2>5. /\ pipe'[i].owner = None /\ ~pipe'[i].armed /\ ~pipe'[i].entry
        /\ pipe'[i].peer # None => pipe'[i].pid # None
    BY <2>1, <2>4, ServerClosed
  <2>6. QED BY <1>1, <2>1, <2>2, <2>4, <2>5, OwnStepKeeps
<1>10. CASE ReadPends(s) \/ ReadNow(s)
  <2>1. /\ srv[s] = "read" /\ i \in Instances /\ pipe[i].owner = s /\ ~pipe[i].armed
        /\ pipe[i].entry /\ (pipe[i].peer # None => pipe[i].pid # None)
    BY <1>10, Serving DEF ReadPends, ReadNow
  <2>2. /\ srv'[s] = "create" /\ cur'[s] = i
        /\ \A t \in Servers \ {s} :
             srv'[t] = srv[t] /\ cur'[t] = cur[t] /\ event'[t] = event[t]
    BY <1>1, <1>10 DEF ReadPends, ReadNow, TypeOK
  <2>3. /\ \A k \in Instances \ {i} : pipe'[k] = pipe[k]
        /\ pipe'[i].owner = s /\ ~pipe'[i].armed /\ pipe'[i].entry
        /\ pipe'[i].peer = pipe[i].peer /\ pipe'[i].pid = pipe[i].pid
    <3>1. CASE ReadPends(s)
      BY <1>1, <2>1, <3>1 DEF ReadPends, TypeOK, Instance
    <3>2. CASE ReadNow(s)
      BY <1>1, <2>1, <3>2 DEF ReadNow, TypeOK, Instance
    <3>3. QED BY <1>10, <3>1, <3>2
  <2>4. QED BY <1>1, <2>1, <2>2, <2>3, OwnStepKeeps
<1>11. QED
  BY <1>2, <1>3, <1>4, <1>5, <1>6, <1>7, <1>8, <1>9, <1>10, Zenon DEF ServerSteps

-----------------------------------------------------------------------------
LEMMA IInvInit == Init => IInv
<1> SUFFICES ASSUME Init PROVE IInv
  OBVIOUS
<1>1. TypeOK
  BY TypeInit
<1>2. QED
  BY <1>1, Names DEF Init, IInv, CurrentIsOwn, ListenIsAwaited, PeerIsKnown,
     HandlesAreOwned, EventTellsOfClients, FreeInstance

LEMMA IInvStep == IInv /\ [Next]_vars => IInv'
<1> SUFFICES ASSUME IInv, [Next]_vars PROVE IInv'
  OBVIOUS
<1>1. ASSUME NEW s \in Servers, StartServer(s) \/ ServerSteps(s) \/ KillServer(s)
      PROVE  IInv'
  BY <1>1, ServerStepsKeep
<1>2. ASSUME NEW c \in Clients, ClientSteps(c)
      PROVE  IInv'
  BY <1>2, ClientStepsKeep
<1>3. CASE UNCHANGED vars
  BY <1>3 DEF vars, IInv, TypeOK, CurrentIsOwn, ListenIsAwaited, Listening,
     PeerIsKnown, HandlesAreOwned, EventTellsOfClients
<1>4. QED BY <1>1, <1>2, <1>3 DEF Next

(* The invariant holds in every state of every instance of the system.     *)
THEOREM ServersAreConsistent == Spec => []IInv
BY IInvInit, IInvStep, PTL DEF Spec

(* However many servers and clients there are, whoever is killed and       *)
(* whatever fails: a server that waits will be woken by the client that    *)
(* comes, and one that was woken has one.                                  *)
THEOREM NoClientIsMissed == Spec => []EventTellsOfClients
<1>1. IInv => EventTellsOfClients
  BY DEF IInv
<1>2. QED BY <1>1, ServersAreConsistent, PTL

(* No instance of the pipe is ever open without being the one its server   *)
(* is about to serve or the channel of a registered client, and no         *)
(* registered client is left without one.                                  *)
THEOREM NoHandleLeaks == Spec => []HandlesAreOwned
<1>1. IInv => HandlesAreOwned
  BY DEF IInv
<1>2. QED BY <1>1, ServersAreConsistent, PTL

-----------------------------------------------------------------------------
(* What the order of the messages rests on.                                *)

(* Nobody has sent anything yet, or what was sent has been lost.           *)
Silent(r) == r.got = "none" /\ r.inbox = <<>>

(* Only the first message is an announcement; a read is pending only as    *)
(* long as there is none, and nothing happens before a client has come.    *)
InOrder(r) ==
  /\ r.got \in {"none", "start"}
  /\ r.reading => Silent(r)
  /\ r.pid = None => Silent(r) /\ ~r.reading
  /\ \A k \in DOMAIN r.inbox : r.inbox[k] = "start" <=> (k = 1 /\ r.got = "none")

(* A server has read nothing yet from the instance it is busy with.        *)
CurrentIsUnread ==
  \A s \in Servers : srv[s] \in {"listen", "wait", "read"} =>
    pipe[cur[s]].got = "none" /\ ~pipe[cur[s]].reading

ClientInv(c) ==
  /\ chan[c] # 0 => pipe[chan[c]].peer = c
  /\ cl[c] \in {"none", "open"} => chan[c] = 0
  /\ cl[c] \in {"notify", "blocked"} => chan[c] # 0
  /\ chan[c] # 0 /\ pipe[chan[c]].owner # None =>
       (Silent(pipe[chan[c]]) <=> cl[c] = "notify")
  /\ outcome[c] = "lost" => chan[c] # 0 /\ pipe[chan[c]].owner = None
  /\ cl[c] = "blocked" \/ outcome[c] = "queued" =>
       chan[c] # 0 /\ (pipe[chan[c]].owner = None \/ Unread(pipe[chan[c]]))

MInv ==
  /\ \A i \in Instances : InOrder(pipe[i])
  /\ CurrentIsUnread
  /\ \A c \in Clients : ClientInv(c)

LEMMA FreeInOrder == InOrder(FreeInstance) /\ Silent(FreeInstance)
BY DEF InOrder, Silent, FreeInstance

LEMMA ClosedInOrder ==
  ASSUME NEW r \in Instance, InOrder(r)
  PROVE  InOrder(CloseServerEnd(r)) /\ InOrder(CloseClientEnd(r))
<1>1. InOrder(CloseServerEnd(r))
  BY FreeInOrder DEF InOrder, Silent, CloseServerEnd, FreeInstance, Instance
<1>2. InOrder(CloseClientEnd(r))
  BY FreeInOrder DEF InOrder, Silent, CloseClientEnd, Instance
<1>3. QED BY <1>1, <1>2

LEMMA DeliveredInOrder ==
  ASSUME NEW r \in Instance, InOrder(r), r.pid # None, NEW m \in Kinds,
         m = "start" <=> Silent(r)
  PROVE  /\ InOrder(Deliver(r, m)) /\ ~Silent(Deliver(r, m))
         /\ m = "error" => Unread(Deliver(r, m))
         /\ m = "start" => Deliver(r, m).inbox \in {<<>>, <<"start">>}
<1>1. CASE r.reading
  BY <1>1 DEF Deliver, InOrder, Silent, Instance, Kinds
<1>2. CASE ~r.reading
  <2> DEFINE q == Append(r.inbox, m)
  <2>1. r.inbox \in Seq(Kinds)
    BY DEF Instance
  <2>2. Deliver(r, m) = [r EXCEPT !.inbox = q]
    BY <1>2 DEF Deliver
  <2>3. /\ DOMAIN q = 1..(Len(r.inbox) + 1) /\ q # <<>>
        /\ q[Len(r.inbox) + 1] = m /\ \A k \in 1..Len(r.inbox) : q[k] = r.inbox[k]
    BY <2>1
  <2>4. r.inbox = <<>> <=> Len(r.inbox) = 0
    BY <2>1
  <2>5. ASSUME NEW k \in DOMAIN q
        PROVE  q[k] = "start" <=> (k = 1 /\ r.got = "none")
    <3>1. CASE k = Len(r.inbox) + 1
      BY <2>1, <2>3, <2>4, <3>1 DEF InOrder, Silent
    <3>2. CASE k \in 1..Len(r.inbox)
      BY <2>1, <2>3, <3>2 DEF InOrder
    <3>3. QED BY <2>1, <2>3, <3>1, <3>2
  <2>6. InOrder(Deliver(r, m)) /\ ~Silent(Deliver(r, m))
    BY <1>2, <2>2, <2>3, <2>5 DEF InOrder, Silent, Instance
  <2>7. Deliver(r, m).inbox = q
    BY <2>2 DEF Instance
  <2>8. m = "error" => Unread(Deliver(r, m))
    <3>1. Len(r.inbox) + 1 \in DOMAIN q
      BY <2>1, <2>3
    <3>2. QED BY <2>3, <2>7, <3>1 DEF Unread
  <2>9. m = "start" => q = <<"start">>
    <3> SUFFICES ASSUME m = "start" PROVE q = <<"start">>
      OBVIOUS
    <3>1. r.inbox = <<>>
      BY DEF Silent
    <3>2. Append(<<>>, "start") = <<"start">>
      OBVIOUS
    <3>3. QED BY <3>1, <3>2
  <2>10. QED BY <2>6, <2>7, <2>8, <2>9
<1>3. QED BY <1>1, <1>2 DEF Instance

LEMMA TakenInOrder ==
  ASSUME NEW r \in Instance, InOrder(r), r.got = "none", r.inbox # <<>>, ~r.reading,
         NEW q, q = [r EXCEPT !.got = Head(r.inbox), !.inbox = Tail(r.inbox)]
  PROVE  InOrder(q) /\ ~Silent(q) /\ (Unread(r) => Unread(q))
<1>1. /\ r.inbox \in Seq(Kinds) /\ Len(r.inbox) > 0
      /\ Head(r.inbox) = r.inbox[1]
      /\ DOMAIN Tail(r.inbox) = 1..(Len(r.inbox) - 1)
      /\ \A k \in 1..(Len(r.inbox) - 1) : Tail(r.inbox)[k] = r.inbox[k + 1]
  BY DEF Instance
<1>2. r.inbox[1] = "start" /\ \A k \in 2..Len(r.inbox) : r.inbox[k] # "start"
  BY <1>1 DEF InOrder
<1>3. \A k \in DOMAIN Tail(r.inbox) : Tail(r.inbox)[k] # "start"
  BY <1>1, <1>2
<1>4. q.got = "start" /\ q.inbox = Tail(r.inbox) /\ q.pid = r.pid /\ ~q.reading
  BY <1>1, <1>2 DEF Instance
<1>5. r.pid # None
  BY DEF InOrder, Silent
<1>6. InOrder(q) /\ ~Silent(q)
  BY <1>3, <1>4, <1>5 DEF InOrder, Silent
<1>7. ASSUME Unread(r) PROVE Unread(q)
  <2>1. PICK k \in DOMAIN r.inbox : r.inbox[k] = "error"
    BY <1>7 DEF Unread
  <2>2. k \in 1..Len(r.inbox) /\ k # 1
    BY <1>1, <1>2, <2>1
  <2>3. k - 1 \in DOMAIN Tail(r.inbox) /\ Tail(r.inbox)[k - 1] = "error"
    BY <1>1, <2>1, <2>2
  <2>4. QED BY <1>4, <2>3 DEF Unread
<1>8. QED BY <1>6, <1>7

LEMMA WithdrawnInOrder ==
  ASSUME NEW r \in Instance, InOrder(r)
  PROVE  InOrder([r EXCEPT !.inbox = Front(@)])
<1> DEFINE q == [r EXCEPT !.inbox = Front(@)]
<1>1. r.inbox \in Seq(Kinds)
  BY DEF Instance
<1>2. /\ \A k \in DOMAIN Front(r.inbox) : k \in DOMAIN r.inbox /\ Front(r.inbox)[k] = r.inbox[k]
      /\ r.inbox = <<>> => Front(r.inbox) = <<>>
  BY <1>1 DEF Front
<1>3. /\ q.inbox = Front(r.inbox) /\ q.got = r.got /\ q.pid = r.pid /\ q.reading = r.reading
  BY DEF Instance
<1>4. QED BY <1>2, <1>3 DEF InOrder, Silent

(* What a server does to an instance r, which is q afterwards.             *)
Served(q, r) ==
  /\ InOrder(q)
  /\ r.peer \in Clients =>
       /\ q.peer = r.peer
       /\ q.owner # None =>
            r.owner # None /\ (Silent(q) <=> Silent(r)) /\ (Unread(r) => Unread(q))

LEMMA ServedUnchanged ==
  ASSUME NEW r, InOrder(r)
  PROVE  Served(r, r)
BY DEF Served

LEMMA ServerStepOrdered ==
  ASSUME IInv, MInv, UNCHANGED clientVars, CurrentIsUnread',
         \A i \in Instances : Served(pipe'[i], pipe[i])
  PROVE  MInv'
<1>1. \A i \in Instances : InOrder(pipe'[i])
  BY DEF Served
<1>2. ASSUME NEW c \in Clients
      PROVE  ClientInv(c)'
  <2>1. ClientInv(c)
    BY DEF MInv
  <2>2. cl' = cl /\ chan' = chan /\ outcome' = outcome
    BY DEF clientVars
  <2>3. CASE chan[c] = 0
    BY <2>1, <2>2, <2>3 DEF ClientInv
  <2>4. CASE chan[c] # 0
    <3>1. chan[c] \in Instances /\ pipe[chan[c]].peer = c
      BY <2>1, <2>4 DEF ClientInv, IInv, TypeOK
    <3>2. Served(pipe'[chan[c]], pipe[chan[c]])
      BY <3>1
    <3>3. QED BY <2>1, <2>2, <2>4, <3>1, <3>2 DEF ClientInv, Served
  <2>5. QED BY <2>3, <2>4
<1>3. QED BY <1>1, <1>2 DEF MInv

LEMMA OwnStepUnread ==
  ASSUME IInv, MInv, NEW s \in Servers, NEW i \in Instances,
         pipe[i].owner \in {s, None},
         \A j \in Instances \ {i} : pipe'[j] = pipe[j],
         \A t \in Servers \ {s} : srv'[t] = srv[t] /\ cur'[t] = cur[t],
         srv'[s] \in {"listen", "wait", "read"} =>
           cur'[s] = i /\ pipe'[i].got = "none" /\ ~pipe'[i].reading
  PROVE  CurrentIsUnread'
<1> SUFFICES ASSUME NEW t \in Servers, srv'[t] \in {"listen", "wait", "read"}
             PROVE  pipe'[cur'[t]].got = "none" /\ ~pipe'[cur'[t]].reading
  BY DEF CurrentIsUnread
<1>1. CASE t = s
  BY <1>1
<1>2. CASE t # s
  <2>1. cur'[t] \in Instances /\ pipe[cur'[t]].owner = t
    BY <1>2, Serving
  <2>2. cur'[t] # i
    BY <1>2, <2>1, Names
  <2>3. QED BY <1>2, <2>1, <2>2 DEF MInv, CurrentIsUnread
<1>3. QED BY <1>1, <1>2

LEMMA EndServerOrdered ==
  ASSUME IInv, MInv, NEW s \in Servers, EndServer(s)
  PROVE  MInv'
<1>1. TypeOK /\ \A i \in Instances : pipe[i] \in Instance /\ InOrder(pipe[i])
  BY DEF IInv, MInv, TypeOK
<1>2. ASSUME NEW i \in Instances
      PROVE  Served(pipe'[i], pipe[i])
  <2>1. InOrder(pipe'[i])
    BY <1>1, ClosedInOrder DEF EndServer
  <2>2. CASE pipe[i].owner = s
    BY <1>1, <2>1, <2>2, Names DEF EndServer, Served, CloseServerEnd, FreeInstance
  <2>3. CASE pipe[i].owner # s /\ pipe[i].peer = s
    BY <2>1, <2>3, Names DEF Served
  <2>4. CASE pipe[i].owner # s /\ pipe[i].peer # s
    BY <2>1, <2>4 DEF EndServer, Served
  <2>5. QED BY <2>2, <2>3, <2>4
<1>3. CurrentIsUnread'
  <2> SUFFICES ASSUME NEW t \in Servers, srv'[t] \in {"listen", "wait", "read"}
               PROVE  pipe'[cur'[t]].got = "none" /\ ~pipe'[cur'[t]].reading
    BY DEF CurrentIsUnread
  <2>1. t # s /\ srv[t] = srv'[t] /\ cur'[t] = cur[t]
    BY <1>1 DEF EndServer, TypeOK
  <2>2. cur[t] \in Instances /\ pipe[cur[t]].owner = t
    BY <2>1, Serving
  <2>3. pipe[cur[t]].got = "none" /\ ~pipe[cur[t]].reading
    BY <2>1 DEF MInv, CurrentIsUnread
  <2>4. pipe'[cur[t]] \in {pipe[cur[t]], CloseClientEnd(pipe[cur[t]])}
    BY <2>1, <2>2 DEF EndServer
  <2>5. LET q == CloseClientEnd(pipe[cur[t]]) IN q.got = "none" /\ ~q.reading
    BY <1>1, <2>2, <2>3 DEF CloseClientEnd, FreeInstance, Instance
  <2>6. QED BY <2>1, <2>3, <2>4, <2>5
<1>4. QED BY <1>2, <1>3, ServerStepOrdered DEF EndServer

(* Connect gives an instance that nobody has used to its first client.     *)
LEMMA ConnectOrdered ==
  ASSUME IInv, MInv, NEW p \in Processes, NEW i \in Instances, Connect(p, i)
  PROVE  /\ pipe[i].owner # None /\ pipe[i].peer = None /\ Silent(pipe[i])
         /\ \A j \in Instances : Served(pipe'[j], pipe[j])
         /\ pipe'[i].peer = p /\ pipe'[i].owner = pipe[i].owner /\ Silent(pipe'[i])
         /\ \A j \in Instances : pipe'[j].got = pipe[j].got
                                 /\ pipe'[j].reading = pipe[j].reading
         /\ \A j \in Instances \ {i} : pipe'[j] = pipe[j]
<1>1. TypeOK /\ pipe[i] \in Instance /\ \A j \in Instances : InOrder(pipe[j])
  BY DEF IInv, MInv, TypeOK
<1>2. /\ pipe[i].owner # None /\ pipe[i].peer = None /\ Silent(pipe[i])
      /\ ~pipe[i].reading
  BY <1>1 DEF Connect, Listening, IInv, PeerIsKnown, InOrder
<1>3. /\ pipe'[i] = [pipe[i] EXCEPT !.peer = p, !.pid = p, !.armed = FALSE]
      /\ \A j \in Instances \ {i} : pipe'[j] = pipe[j]
  BY <1>1 DEF TypeOK, Connect, Instance
<1>4. /\ pipe'[i].peer = p /\ pipe'[i].owner = pipe[i].owner
      /\ pipe'[i].got = pipe[i].got /\ pipe'[i].inbox = pipe[i].inbox
      /\ pipe'[i].reading = pipe[i].reading /\ pipe'[i].pid = p
  BY <1>1, <1>3 DEF Instance
<1>5. InOrder(pipe'[i])
  BY <1>1, <1>2, <1>4 DEF InOrder, Silent
<1>6. None \notin Clients
  BY Names
<1>7. QED
  BY <1>1, <1>2, <1>3, <1>4, <1>5, <1>6 DEF Served, Silent, Unread

LEMMA ServerStepsOrdered ==
  ASSUME IInv, MInv, NEW s \in Servers, StartServer(s) \/ ServerSteps(s) \/ KillServer(s)
  PROVE  MInv'
<1> DEFINE i == cur[s]
<1>1. TypeOK /\ \A j \in Instances : pipe[j] \in Instance /\ InOrder(pipe[j])
  BY DEF IInv, MInv, TypeOK
<1>2. CASE StartServer(s) \/ FindNoServer(s) \/ OpenLog(s) \/ HangOnLog(s)
  <2>1. /\ srv'[s] \notin {"listen", "wait", "read"}
        /\ \A t \in Servers \ {s} : srv'[t] = srv[t]
        /\ UNCHANGED <<cur, pipe, clientVars>>
    BY <1>1, <1>2 DEF StartServer, FindNoServer, OpenLog, HangOnLog, TypeOK
  <2>2. CurrentIsUnread'
    BY <2>1 DEF MInv, CurrentIsUnread
  <2>3. QED BY <1>1, <2>1, <2>2, ServedUnchanged, ServerStepOrdered
<1>3. CASE FindServer(s)
  <2>1. PICK j \in Instances : Connect(s, j)
    BY <1>3 DEF FindServer
  <2>2. /\ srv'[s] = "quit" /\ cur' = cur /\ UNCHANGED clientVars
        /\ \A t \in Servers \ {s} : srv'[t] = srv[t]
    BY <1>1, <1>3 DEF FindServer, TypeOK
  <2>3. s \in Processes
    BY DEF Processes
  <2>4. /\ \A k \in Instances : Served(pipe'[k], pipe[k])
        /\ \A k \in Instances : pipe'[k].got = pipe[k].got /\ pipe'[k].reading = pipe[k].reading
    BY <2>1, <2>3, ConnectOrdered
  <2>5. CurrentIsUnread'
    <3> SUFFICES ASSUME NEW t \in Servers, srv'[t] \in {"listen", "wait", "read"}
                 PROVE  pipe'[cur'[t]].got = "none" /\ ~pipe'[cur'[t]].reading
      BY DEF CurrentIsUnread
    <3>1. srv[t] = srv'[t] /\ cur'[t] = cur[t]
      BY <2>2
    <3>2. cur[t] \in Instances
      BY <3>1, Serving
    <3>3. QED BY <2>4, <3>1, <3>2 DEF MInv, CurrentIsUnread
  <2>6. QED BY <2>2, <2>4, <2>5, ServerStepOrdered
<1>4. CASE Quit(s) \/ GiveUp(s) \/ KillServer(s)
  BY <1>4, EndServerOrdered DEF Quit, GiveUp, KillServer
<1>5. CASE CreateInstance(s)
  <2>1. PICK j \in Instances : /\ Free(j)
                               /\ pipe' = [pipe EXCEPT ![j].owner = s]
                               /\ cur' = [cur EXCEPT ![s] = j]
    BY <1>5 DEF CreateInstance
  <2>2. /\ srv'[s] = "listen" /\ cur'[s] = j /\ UNCHANGED clientVars
        /\ \A t \in Servers \ {s} : srv'[t] = srv[t] /\ cur'[t] = cur[t]
    BY <1>1, <1>5, <2>1 DEF CreateInstance, TypeOK
  <2>3. /\ pipe[j] = FreeInstance
        /\ \A k \in Instances \ {j} : pipe'[k] = pipe[k]
        /\ pipe'[j] = [FreeInstance EXCEPT !.owner = s]
    BY <1>1, <2>1 DEF Free, TypeOK
  <2>4. /\ InOrder(pipe'[j]) /\ pipe'[j].got = "none" /\ ~pipe'[j].reading
        /\ pipe[j].peer = None /\ pipe[j].owner = None
    BY <2>3 DEF InOrder, Silent, FreeInstance
  <2>5. \A k \in Instances : Served(pipe'[k], pipe[k])
    BY <1>1, <2>3, <2>4, ServedUnchanged, Names DEF Served
  <2>6. CurrentIsUnread'
    BY <2>2, <2>3, <2>4, OwnStepUnread
  <2>7. QED BY <2>2, <2>5, <2>6, ServerStepOrdered
<1>6. ASSUME i \in Instances, pipe[i].owner = s, cur' = cur, UNCHANGED clientVars,
             \A t \in Servers \ {s} : srv'[t] = srv[t],
             \A k \in Instances \ {i} : pipe'[k] = pipe[k],
             Served(pipe'[i], pipe[i]),
             srv'[s] \in {"listen", "wait", "read"} =>
               pipe'[i].got = "none" /\ ~pipe'[i].reading
      PROVE  MInv'
  <2>1. CurrentIsUnread'
    BY <1>6, OwnStepUnread
  <2>2. \A k \in Instances : Served(pipe'[k], pipe[k])
    BY <1>1, <1>6, ServedUnchanged
  <2>3. QED BY <1>6, <2>1, <2>2, ServerStepOrdered
<1>7. ASSUME srv[s] \in {"listen", "wait", "read"}
      PROVE  /\ i \in Instances /\ pipe[i].owner = s /\ pipe[i] \in Instance
             /\ pipe[i].got = "none" /\ ~pipe[i].reading /\ InOrder(pipe[i])
  BY <1>1, <1>7, Serving DEF MInv, CurrentIsUnread
<1>8. CASE Listen(s) \/ Accept(s) \/ ListenTooLate(s)
  <2>1. /\ srv[s] \in {"listen", "wait"} /\ cur' = cur /\ UNCHANGED clientVars
        /\ \A t \in Servers \ {s} : srv'[t] = srv[t]
    BY <1>1, <1>8 DEF Listen, Accept, ListenTooLate, TypeOK
  <2>2. /\ i \in Instances /\ pipe[i].owner = s /\ pipe[i] \in Instance
        /\ pipe[i].got = "none" /\ ~pipe[i].reading /\ InOrder(pipe[i])
    BY <1>7, <2>1
  <2>3. /\ \A k \in Instances \ {i} : pipe'[k] = pipe[k]
        /\ pipe'[i] \in {pipe[i], [pipe[i] EXCEPT !.armed = TRUE], [pipe[i] EXCEPT !.entry = TRUE]}
    BY <1>1, <1>8, <2>2 DEF Listen, Accept, ListenTooLate, TypeOK
  <2>4. /\ pipe'[i].owner = pipe[i].owner /\ pipe'[i].peer = pipe[i].peer
        /\ pipe'[i].pid = pipe[i].pid /\ pipe'[i].inbox = pipe[i].inbox
        /\ pipe'[i].got = pipe[i].got /\ pipe'[i].reading = pipe[i].reading
    BY <2>2, <2>3 DEF Instance
  <2>5. Served(pipe'[i], pipe[i])
    BY <2>2, <2>4 DEF Served, InOrder, Silent, Unread
  <2>6. QED BY <1>6, <2>1, <2>2, <2>3, <2>4, <2>5
<1>9. CASE AcceptFails(s) \/ Disconnect(s)
  <2>1. /\ srv[s] \in {"wait", "read"} /\ srv'[s] = "create" /\ cur' = cur /\ UNCHANGED clientVars
        /\ \A t \in Servers \ {s} : srv'[t] = srv[t]
        /\ pipe' = [pipe EXCEPT ![i] = CloseServerEnd(pipe[i])]
    BY <1>1, <1>9 DEF AcceptFails, Disconnect, TypeOK
  <2>2. i \in Instances /\ pipe[i].owner = s /\ pipe[i] \in Instance /\ InOrder(pipe[i])
    BY <1>7, <2>1
  <2>3. /\ \A k \in Instances \ {i} : pipe'[k] = pipe[k]
        /\ pipe'[i] = CloseServerEnd(pipe[i])
    BY <1>1, <2>1, <2>2 DEF TypeOK
  <2>4. Served(pipe'[i], pipe[i])
    <3>1. InOrder(pipe'[i])
      BY <2>2, <2>3, ClosedInOrder
    <3>2. pipe'[i].owner = None /\ (pipe[i].peer # None => pipe'[i].peer = pipe[i].peer)
      BY <2>3 DEF CloseServerEnd, FreeInstance
    <3>3. QED BY <3>1, <3>2, Names DEF Served
  <2>5. QED BY <1>6, <2>1, <2>2, <2>3, <2>4
<1>10. CASE ReadPends(s)
  <2>1. /\ srv[s] = "read" /\ srv'[s] = "create" /\ cur' = cur /\ UNCHANGED clientVars
        /\ pipe[i].inbox = <<>> /\ pipe[i].peer # None
        /\ \A t \in Servers \ {s} : srv'[t] = srv[t]
    BY <1>1, <1>10 DEF ReadPends, Connected, TypeOK
  <2>2. /\ i \in Instances /\ pipe[i].owner = s /\ pipe[i] \in Instance
        /\ pipe[i].got = "none" /\ InOrder(pipe[i]) /\ pipe[i].pid # None
    BY <1>7, <2>1, Serving
  <2>3. /\ \A k \in Instances \ {i} : pipe'[k] = pipe[k]
        /\ pipe'[i] = [pipe[i] EXCEPT !.reading = TRUE]
    BY <1>1, <1>10, <2>2 DEF ReadPends, TypeOK
  <2>4. Served(pipe'[i], pipe[i])
    BY <2>1, <2>2, <2>3 DEF Served, InOrder, Silent, Unread, Instance
  <2>5. QED BY <1>6, <2>1, <2>2, <2>3, <2>4
<1>11. CASE ReadNow(s)
  <2>1. /\ srv[s] = "read" /\ srv'[s] = "create" /\ cur' = cur /\ UNCHANGED clientVars
        /\ pipe[i].inbox # <<>>
        /\ \A t \in Servers \ {s} : srv'[t] = srv[t]
    BY <1>1, <1>11 DEF ReadNow, TypeOK
  <2>2. /\ i \in Instances /\ pipe[i].owner = s /\ pipe[i] \in Instance
        /\ pipe[i].got = "none" /\ ~pipe[i].reading /\ InOrder(pipe[i])
    BY <1>7, <2>1
  <2>3. /\ \A k \in Instances \ {i} : pipe'[k] = pipe[k]
        /\ pipe'[i] = [pipe[i] EXCEPT !.got = Head(pipe[i].inbox), !.inbox = Tail(pipe[i].inbox)]
    BY <1>1, <1>11, <2>2 DEF ReadNow, TypeOK, Instance
  <2>4. InOrder(pipe'[i]) /\ ~Silent(pipe'[i]) /\ (Unread(pipe[i]) => Unread(pipe'[i]))
    BY <2>1, <2>2, <2>3, TakenInOrder
  <2>5. pipe'[i].peer = pipe[i].peer /\ pipe'[i].owner = pipe[i].owner
    BY <2>2, <2>3 DEF Instance
  <2>6. Served(pipe'[i], pipe[i])
    BY <2>1, <2>4, <2>5 DEF Served, Silent
  <2>7. QED BY <1>6, <2>1, <2>2, <2>3, <2>6
<1>12. QED
  BY <1>2, <1>3, <1>4, <1>5, <1>8, <1>9, <1>10, <1>11, Zenon DEF ServerSteps

(* A client step that changes no instance but its own channel.             *)
LEMMA ClientStepOrdered ==
  ASSUME IInv, MInv, NEW c \in Clients, NEW i \in Instances,
         UNCHANGED <<srv, cur>>,
         \A j \in Instances \ {i} : pipe'[j] = pipe[j],
         \A d \in Clients \ {c} :
           cl'[d] = cl[d] /\ chan'[d] = chan[d] /\ outcome'[d] = outcome[d],
         pipe[i].peer \in {c, None},
         pipe[i].owner = None => pipe'[i] \in {pipe[i], FreeInstance},
         InOrder(pipe'[i]), ClientInv(c)',
         \A s \in Servers : srv[s] \in {"listen", "wait", "read"} /\ cur[s] = i =>
           pipe'[i].got = "none" /\ ~pipe'[i].reading
  PROVE  MInv'
<1>1. \A j \in Instances : InOrder(pipe'[j])
  BY DEF MInv
<1>2. CurrentIsUnread'
  <2> SUFFICES ASSUME NEW s \in Servers, srv[s] \in {"listen", "wait", "read"}
               PROVE  pipe'[cur[s]].got = "none" /\ ~pipe'[cur[s]].reading
    BY DEF CurrentIsUnread
  <2>1. cur[s] \in Instances
    BY Serving
  <2>2. QED BY <2>1 DEF MInv, CurrentIsUnread
<1>3. ASSUME NEW d \in Clients, d # c
      PROVE  ClientInv(d)'
  <2>1. ClientInv(d) /\ cl'[d] = cl[d] /\ chan'[d] = chan[d] /\ outcome'[d] = outcome[d]
    BY <1>3 DEF MInv
  <2>2. CASE chan[d] = 0
    BY <2>1, <2>2 DEF ClientInv
  <2>3. CASE chan[d] # 0
    <3>1. chan[d] \in Instances /\ pipe[chan[d]].peer = d
      BY <2>1, <2>3 DEF ClientInv, IInv, TypeOK
    <3>2. chan[d] # i
      BY <1>3, <3>1, Names
    <3>3. QED BY <2>1, <3>1, <3>2 DEF ClientInv
  <2>4. QED BY <2>2, <2>3
<1>4. QED BY <1>1, <1>2, <1>3 DEF MInv

(* A client step that changes no instance at all.                          *)
LEMMA ClientPauses ==
  ASSUME MInv, NEW c \in Clients, UNCHANGED <<srv, cur, pipe>>,
         \A d \in Clients \ {c} :
           cl'[d] = cl[d] /\ chan'[d] = chan[d] /\ outcome'[d] = outcome[d],
         ClientInv(c)'
  PROVE  MInv'
<1>1. ASSUME NEW d \in Clients, d # c
      PROVE  ClientInv(d)'
  BY <1>1 DEF MInv, ClientInv
<1>2. QED BY <1>1 DEF MInv, CurrentIsUnread

LEMMA Sends ==
  ASSUME IInv, MInv, NEW c \in Clients, NEW m \in Kinds, SendMessage(c, m),
         cl[c] \in {"notify", "run"}, m = "start" <=> cl[c] = "notify"
  PROVE  LET i == chan[c]
         IN  /\ i \in Instances /\ pipe[i].peer = c /\ pipe[i].owner # None
             /\ \A j \in Instances \ {i} : pipe'[j] = pipe[j]
             /\ InOrder(pipe'[i]) /\ ~Silent(pipe'[i])
             /\ Unread(pipe'[i]) \/ (m = "start" /\ cl'[c] = "run")
             /\ pipe'[i].peer = c /\ pipe'[i].owner = pipe[i].owner
             /\ pipe[i].got = "none" /\ ~pipe[i].reading =>
                  pipe'[i].got = "none" /\ ~pipe'[i].reading
<1> DEFINE i == chan[c]
<1>1. ClientInv(c) /\ i # 0 /\ pipe[i].owner # None
  BY DEF MInv, SendMessage, Broken
<1>2. i \in Instances /\ pipe[i] \in Instance /\ pipe[i].peer = c
  BY <1>1 DEF IInv, TypeOK, ClientInv
<1>3. pipe[i].pid # None
  BY <1>2, Names DEF IInv, PeerIsKnown
<1>4. m = "start" <=> Silent(pipe[i])
  BY <1>1 DEF ClientInv
<1>5. pipe'[i] = Deliver(pipe[i], m) /\ \A j \in Instances \ {i} : pipe'[j] = pipe[j]
  BY <1>2 DEF SendMessage, IInv, TypeOK
<1>6. /\ InOrder(pipe'[i]) /\ ~Silent(pipe'[i])
      /\ m = "error" => Unread(pipe'[i])
      /\ m = "start" => pipe'[i].inbox \in {<<>>, <<"start">>}
  BY <1>2, <1>3, <1>4, <1>5, DeliveredInOrder DEF MInv
<1>9. m = "start" => cl'[c] = "run"
  <2>1. SUFFICES ASSUME m = "start" PROVE cl'[c] = "run"
    OBVIOUS
  <2>2. ~(Load(pipe'[i].inbox) > Quota)
    BY <1>6, <2>1, StartFits
  <2>3. cl' = [cl EXCEPT ![c] = IF Load(pipe'[i].inbox) > Quota THEN "blocked" ELSE "run"]
    BY DEF SendMessage
  <2>4. QED BY <2>2, <2>3 DEF IInv, TypeOK
<1>7. /\ pipe'[i].peer = c /\ pipe'[i].owner = pipe[i].owner
      /\ pipe[i].got = "none" /\ ~pipe[i].reading =>
           pipe'[i].got = "none" /\ ~pipe'[i].reading
  BY <1>2, <1>5 DEF Deliver, Instance
<1>8. QED BY <1>1, <1>2, <1>5, <1>6, <1>7, <1>9 DEF Kinds

LEMMA ClientStepsOrdered ==
  ASSUME IInv, MInv, NEW c \in Clients, ClientSteps(c)
  PROVE  MInv'
<1> DEFINE i == chan[c]
<1>1. TypeOK /\ TypeOK' /\ ClientInv(c)
  BY ClientStepsType DEF IInv, MInv
<1>2. \A d \in Clients : chan[d] # 0 =>
        /\ chan[d] \in Instances /\ pipe[chan[d]] \in Instance
        /\ pipe[chan[d]].peer = d /\ InOrder(pipe[chan[d]])
  BY <1>1 DEF MInv, ClientInv, TypeOK
<1>3. CASE StartClient(c) \/ OpenChannelFails(c) \/ LoseHardError(c)
           \/ RaiseOriginalHardError(c) \/ WriteReturns(c)
  <2>1. /\ UNCHANGED <<srv, cur, pipe>>
        /\ \A d \in Clients \ {c} :
             cl'[d] = cl[d] /\ chan'[d] = chan[d] /\ outcome'[d] = outcome[d]
    BY <1>1, <1>3 DEF StartClient, OpenChannelFails, LoseHardError,
                      RaiseOriginalHardError, WriteReturns, TypeOK
  <2>2. StartClient(c) => ClientInv(c)'
    BY <1>1 DEF StartClient, ClientInv, TypeOK
  <2>3. OpenChannelFails(c) => ClientInv(c)'
    BY <1>1 DEF OpenChannelFails, ClientInv, TypeOK
  <2>4. LoseHardError(c) => ClientInv(c)'
    BY <1>1 DEF LoseHardError, Broken, ClientInv, TypeOK
  <2>5. RaiseOriginalHardError(c) => ClientInv(c)'
    BY <1>1 DEF RaiseOriginalHardError, ClientInv, TypeOK
  <2>6. WriteReturns(c) => ClientInv(c)'
    BY <1>1 DEF WriteReturns, Broken, ClientInv, TypeOK
  <2>7. ClientInv(c)'
    BY <1>3, <2>2, <2>3, <2>4, <2>5, <2>6
  <2>8. QED BY <2>1, <2>7, ClientPauses
<1>4. CASE OpenChannel(c)
  <2>1. PICK j \in Instances : Connect(c, j) /\ chan' = [chan EXCEPT ![c] = j]
    BY <1>4 DEF OpenChannel
  <2>2. c \in Processes
    BY DEF Processes
  <2>3. /\ pipe[j].owner # None /\ pipe[j].peer = None
        /\ Served(pipe'[j], pipe[j])
        /\ pipe'[j].peer = c /\ Silent(pipe'[j])
        /\ pipe'[j].got = pipe[j].got /\ pipe'[j].reading = pipe[j].reading
        /\ \A k \in Instances \ {j} : pipe'[k] = pipe[k]
    BY <2>1, <2>2, ConnectOrdered
  <2>4. /\ cl[c] = "open" /\ cl'[c] = "notify" /\ chan'[c] = j /\ outcome'[c] = outcome[c]
        /\ UNCHANGED <<srv, cur>> /\ j # 0
        /\ \A d \in Clients \ {c} :
             cl'[d] = cl[d] /\ chan'[d] = chan[d] /\ outcome'[d] = outcome[d]
    BY <1>1, <1>4, <2>1, Names DEF OpenChannel, TypeOK
  <2>5. ClientInv(c)'
    BY <1>1, <2>3, <2>4 DEF ClientInv
  <2>6. InOrder(pipe'[j])
    BY <2>3 DEF Served
  <2>7. \A s \in Servers : srv[s] \in {"listen", "wait", "read"} /\ cur[s] = j =>
          pipe'[j].got = "none" /\ ~pipe'[j].reading
    BY <2>3 DEF MInv, CurrentIsUnread
  <2>8. QED BY <2>3, <2>4, <2>5, <2>6, <2>7, ClientStepOrdered
<1>5. ASSUME NEW m \in Kinds, SendMessage(c, m),
             cl[c] \in {"notify", "run"}, m = "start" <=> cl[c] = "notify",
             UNCHANGED <<srv, cur, chan>>,
             \A d \in Clients \ {c} : outcome'[d] = outcome[d],
             outcome'[c] = outcome[c] \/ (m = "error" /\ outcome'[c] # "lost")
      PROVE  MInv'
  <2>1. /\ i \in Instances /\ pipe[i].peer = c /\ pipe[i].owner # None
        /\ \A j \in Instances \ {i} : pipe'[j] = pipe[j]
        /\ InOrder(pipe'[i]) /\ ~Silent(pipe'[i])
        /\ Unread(pipe'[i]) \/ (m = "start" /\ cl'[c] = "run")
        /\ pipe'[i].peer = c /\ pipe'[i].owner = pipe[i].owner
        /\ pipe[i].got = "none" /\ ~pipe[i].reading =>
             pipe'[i].got = "none" /\ ~pipe'[i].reading
    BY <1>5, Sends
  <2>2. /\ cl'[c] \in {"blocked", "run"}
        /\ \A d \in Clients \ {c} : cl'[d] = cl[d]
    BY <1>1, <1>5 DEF SendMessage, TypeOK
  <2>6. m = "start" => outcome'[c] # "queued"
    BY <1>1, <1>5, <2>1 DEF ClientInv, Silent, Unread
  <2>3. ClientInv(c)'
    BY <1>1, <1>5, <2>1, <2>2, <2>6, Names DEF ClientInv
  <2>4. \A s \in Servers : srv[s] \in {"listen", "wait", "read"} /\ cur[s] = i =>
          pipe'[i].got = "none" /\ ~pipe'[i].reading
    BY <2>1 DEF MInv, CurrentIsUnread
  <2>5. QED BY <1>5, <2>1, <2>2, <2>3, <2>4, ClientStepOrdered
<1>6. CASE NotifyProcessStart(c)
  <2>1. CASE SendMessage(c, "start")
    BY <1>5, <1>6, <2>1 DEF NotifyProcessStart, Kinds
  <2>2. CASE Broken(c) /\ cl' = [cl EXCEPT ![c] = "run"] /\ UNCHANGED pipe
    <3>1. /\ UNCHANGED <<srv, cur, pipe>> /\ cl'[c] = "run"
          /\ chan' = chan /\ outcome' = outcome
          /\ \A d \in Clients \ {c} : cl'[d] = cl[d]
      BY <1>1, <1>6, <2>2 DEF NotifyProcessStart, TypeOK
    <3>2. ClientInv(c)'
      BY <1>1, <2>2, <3>1 DEF ClientInv, Broken
    <3>3. QED BY <3>1, <3>2, ClientPauses
  <2>3. QED BY <1>6, <2>1, <2>2 DEF NotifyProcessStart
<1>7. CASE SendHardError(c)
  <2>1. /\ outcome'[c] # "lost"
        /\ \A d \in Clients \ {c} : outcome'[d] = outcome[d]
    BY <1>1, <1>7 DEF SendHardError, TypeOK
  <2>2. QED BY <1>5, <1>7, <2>1 DEF SendHardError, Kinds
<1>8. CASE ExitClient(c)
  <2> DEFINE waiting == cl[c] = "blocked" /\ ~Broken(c) /\ Load(pipe[i].inbox) > Quota
             kept(r) == IF waiting THEN [r EXCEPT !.inbox = Front(@)] ELSE r
  <2>1. /\ cl'[c] = "none" /\ chan'[c] = 0 /\ outcome'[c] = "none"
        /\ UNCHANGED <<srv, cur>>
        /\ \A d \in Clients \ {c} :
             cl'[d] = cl[d] /\ chan'[d] = chan[d] /\ outcome'[d] = outcome[d]
    BY <1>1, <1>8 DEF ExitClient, TypeOK
  <2>2. ClientInv(c)'
    BY <2>1 DEF ClientInv
  <2>3. CASE i = 0
    BY <1>8, <2>1, <2>2, <2>3, ClientPauses DEF ExitClient
  <2>4. CASE i # 0
    <3>1. /\ i \in Instances /\ pipe[i] \in Instance
          /\ pipe[i].peer = c /\ InOrder(pipe[i])
      BY <1>2, <2>4
    <3>2. /\ pipe'[i] = CloseClientEnd(kept(pipe[i]))
          /\ \A j \in Instances \ {i} : pipe'[j] = pipe[j]
      BY <1>1, <1>8, <2>4, <3>1 DEF ExitClient, TypeOK
    <3>3. kept(pipe[i]) \in Instance /\ InOrder(kept(pipe[i]))
      <4>1. pipe[i].inbox \in Seq(Kinds)
        BY <3>1 DEF Instance
      <4>2. Front(pipe[i].inbox) \in Seq(Kinds)
        BY <4>1, FrontType
      <4>3. [pipe[i] EXCEPT !.inbox = Front(@)] \in Instance
        BY <3>1, <4>2, QueueType
      <4>4. QED BY <3>1, <4>3, WithdrawnInOrder
    <3>4. InOrder(pipe'[i])
      BY <3>2, <3>3, ClosedInOrder
    <3>5. pipe[i].owner = None => pipe'[i] = FreeInstance
      BY <3>1, <3>2 DEF CloseClientEnd, Instance
    <3>6. /\ kept(pipe[i]).got = pipe[i].got /\ kept(pipe[i]).reading = pipe[i].reading
      BY <3>1 DEF Instance
    <3>7. pipe'[i].got \in {pipe[i].got, "none"} /\ (pipe'[i].reading => pipe[i].reading)
      BY <3>2, <3>3, <3>6 DEF CloseClientEnd, FreeInstance, Instance
    <3>8. \A s \in Servers : srv[s] \in {"listen", "wait", "read"} /\ cur[s] = i =>
            pipe'[i].got = "none" /\ ~pipe'[i].reading
      BY <3>7 DEF MInv, CurrentIsUnread
    <3>9. QED BY <2>1, <2>2, <3>1, <3>2, <3>4, <3>5, <3>8, ClientStepOrdered
  <2>5. QED BY <2>3, <2>4
<1>9. QED
  BY <1>3, <1>4, <1>6, <1>7, <1>8, Zenon DEF ClientSteps

-----------------------------------------------------------------------------
LEMMA MInvInit == Init => MInv
BY FreeInOrder DEF Init, MInv, CurrentIsUnread, ClientInv

LEMMA MInvStep == IInv /\ MInv /\ [Next]_vars => MInv'
<1> SUFFICES ASSUME IInv, MInv, [Next]_vars PROVE MInv'
  OBVIOUS
<1>1. ASSUME NEW s \in Servers, StartServer(s) \/ ServerSteps(s) \/ KillServer(s)
      PROVE  MInv'
  BY <1>1, ServerStepsOrdered
<1>2. ASSUME NEW c \in Clients, ClientSteps(c)
      PROVE  MInv'
  BY <1>2, ClientStepsOrdered
<1>3. CASE UNCHANGED vars
  BY <1>3 DEF vars, MInv, CurrentIsUnread, ClientInv
<1>4. QED BY <1>1, <1>2, <1>3 DEF Next

LEMMA OrderFollows ==
  ASSUME TypeOK, MInv
  PROVE  MessagesKeepTheirOrder
<1>1. ASSUME NEW i \in Instances, NEW k \in DOMAIN Received(i)
      PROVE  Received(i)[k] = "start" <=> k = 1
  <2>1. InOrder(pipe[i]) /\ pipe[i].inbox \in Seq(Kinds) /\ pipe[i].got \in {"none", "start"}
    BY DEF MInv, InOrder, TypeOK, Instance
  <2>2. CASE pipe[i].got = "none"
    <3>1. Received(i) = pipe[i].inbox
      BY <2>1, <2>2 DEF Received
    <3>2. QED BY <1>1, <2>1, <2>2, <3>1 DEF InOrder
  <2>3. CASE pipe[i].got = "start"
    <3>1. Received(i) = <<"start">> \o pipe[i].inbox
      BY <2>1, <2>3 DEF Received
    <3>2. /\ DOMAIN Received(i) = 1..(Len(pipe[i].inbox) + 1)
          /\ Received(i)[1] = "start"
          /\ \A n \in 2..(Len(pipe[i].inbox) + 1) : Received(i)[n] = pipe[i].inbox[n - 1]
      BY <2>1, <3>1
    <3>3. \A n \in DOMAIN pipe[i].inbox : pipe[i].inbox[n] # "start"
      BY <2>1, <2>3 DEF InOrder
    <3>4. QED BY <1>1, <2>1, <3>2, <3>3
  <2>4. QED BY <2>1, <2>2, <2>3
<1>2. ASSUME NEW c \in Clients
      PROVE  /\ outcome[c] = "lost" => chan[c] # 0 /\ Broken(c)
             /\ outcome[c] = "queued" => chan[c] # 0 /\ (Broken(c) \/ Unread(pipe[chan[c]]))
  BY DEF MInv, ClientInv, Broken
<1>3. QED BY <1>1, <1>2 DEF MessagesKeepTheirOrder

(* On every channel the announcement of the client comes first and only    *)
(* once, whether its messages are handed to a read, wait in the pipe or are*)
(* taken back by the end of the client, and it is the only message that is *)
(* ever read: a hard error the hook was told is sent lies unread in the    *)
(* pipe of a server that runs, and one that could not be sent was meant for*)
(* a server that is no more.                                               *)
THEOREM OrderIsKept == Spec => []MessagesKeepTheirOrder
<1>1. Init => MInv
  BY MInvInit
<1>2. IInv /\ MInv /\ [Next]_vars => MInv'
  BY MInvStep
<1>3. IInv /\ MInv => MessagesKeepTheirOrder
  BY OrderFollows DEF IInv
<1>4. QED BY <1>1, <1>2, <1>3, ServersAreConsistent, PTL DEF Spec

=============================================================================
