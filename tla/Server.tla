------------------------------- MODULE Server -------------------------------
(***************************************************************************)
(* The server of src/network/Server.cpp and the sessions it owns: who is   *)
(* connected, who is the host, what each client is told about the others,  *)
(* and how sessions end.                                                   *)
(*                                                                         *)
(* One io thread (UIState.cpp) runs everything in the order of one queue,  *)
(* ioq: the handlers of operations that have completed, and the closures   *)
(* that Session::send, Session::close and the server have posted.  The     *)
(* environment adds completions; RunHead is the io thread.  A handler is   *)
(* one step, but for the handshake: Session marks itself ready before the  *)
(* server looks at the handshake, and the UI thread, which broadcasts file *)
(* system updates, can run in between.                                     *)
(*                                                                         *)
(* The queue and the socket behind Session::send are SessionChannel: here  *)
(* a client has been told a message when it enters writeQueue_.            *)
(***************************************************************************)
EXTENDS Integers, Sequences, FiniteSets, SequencesExt

CONSTANTS
  MaxClients,    \* bound: connections accepted
  MaxRequests,   \* bound: messages read from clients
  MaxUpdates,    \* bound: file system updates the UI thread broadcasts
  MaxQueue,      \* bound: completions join the queue while it is shorter than this
  Names,         \* names clients ask for
  NewNames,      \* names the host gives them
  Roles,         \* roles a client may ask for
  Kinds,         \* kinds of message clients send, besides the handshake
  Faults         \* what may go wrong: "accept", "ssl" (the TLS handshake), "error" (a
                 \* read), and a handshake that is "wrong" or "unparsable"

ASSUME BoundsAssumption ==
  MaxClients \in Nat /\ MaxRequests \in Nat /\ MaxUpdates \in Nat /\ MaxQueue \in Nat
ASSUME RolesAssumption == Roles \subseteq {"Host", "Broadcaster", "Receiver"}

\* Client ids are handed out from 1; 0 is nobody.
Clients == 1..MaxClients
Nobody == 0

\* clientName_ of a Session that has not been introduced.
DefaultName == "UnknownClient"
AllNames == Names \union NewNames \union {DefaultName}
AllRoles == {"Host", "Broadcaster", "Receiver"}

\* What a client knows of another: nothing, or its name and role.
Absent == [name |-> "", role |-> ""]
Entries == [name : AllNames, role : AllRoles] \union {Absent}

VARIABLES
  serverState,   \* state_: "Stopped", "Running" or "Error"
  acceptor,      \* acceptor_: "open", "armed" (an async_accept outstanding), "closed"
  nextClientId,  \* nextClientId_
  sessions,      \* the ids in sessions_
  phase,         \* of each session: "none", "ssl" (TLS handshake under way), "up",
                 \* "closing" (async_shutdown under way), "closed"
  ready,         \* appHandshakeComplete_
  name,          \* clientName_
  role,          \* role_
  canReceive,    \* canReceiveInput_
  hostClientId,  \* hostClientId_
  ioq,           \* the io thread's queue
  pending,       \* sessions with an asynchronous operation outstanding: the TLS
                 \* handshake, a read or the TLS shutdown, according to phase
  handling,      \* the io thread is inside processHandshake() of the head of ioq
  uiLeft,        \* sessions the UI thread has yet to send its update to
  view,          \* history: what the messages told to each client add up to
  requests, updates  \* counted against the bounds

registry == <<serverState, acceptor, nextClientId>>
attributes == <<name, role, canReceive>>
uiVars == <<uiLeft, updates>>
vars == <<registry, sessions, phase, ready, attributes, hostClientId, ioq, pending,
          handling, uiVars, view, requests>>

\* active_
Active(c) == phase[c] \in {"ssl", "up"}
-----------------------------------------------------------------------------
(* Entries of ioq.  A posted closure or a completion names what it is about. *)

Entry(op, S, arg) == [op |-> op, to |-> S, arg |-> arg]
Close(c) == Entry("close", {c}, [type |-> "close"])
StopEntry == Entry("stop", {}, [type |-> "stop"])

\* Messages.  Those that change nothing a property is about are told by type.
Plain(t) == [type |-> t]
JoinedMsg(c, e) == [type |-> "joined", who |-> c, entry |-> e]
LeftMsg(c) == [type |-> "left", who |-> c]
RenamedMsg(c, n) == [type |-> "renamed", who |-> c, name |-> n]
ListMsg(f) == [type |-> "list", roster |-> f]
InputMsg(c) == [type |-> "input", who |-> c]

\* What is sent to clients.
Messages ==
  [type : {"answer", "auth_failed", "fs", "chat", "reply", "host_left",
           "you_were_renamed", "server_shutdown_imminent"}]
    \union [type : {"joined"}, who : Clients, entry : Entries]
    \union [type : {"left", "input"}, who : Clients]
    \union [type : {"renamed"}, who : Clients, name : AllNames]
    \union [type : {"list"}, roster : [Clients -> Entries]]

\* What clients send.
Requests ==
  [type : {"handshake"}, name : Names, role : Roles,
   password : {"right", "wrong", "unparsable"}]
    \union [type : {"error", "input", "chat", "query", "upload", "shutdown"}]
    \union [type : {"kick"}, who : Clients]
    \union [type : {"rename"}, who : Clients, name : NewNames]
    \union [type : {"toggle"}, who : Clients, on : BOOLEAN]

QueueEntries ==
  [op : {"send"}, to : SUBSET Clients, arg : Messages]
    \union [op : {"read"}, to : {{c} : c \in Clients}, arg : Requests]
    \union [op : {"accept"}, to : {{}}, arg : [type : {"accept"}, ok : BOOLEAN]]
    \union [op : {"ssl"}, to : {{c} : c \in Clients}, arg : [type : {"ssl"}, ok : BOOLEAN]]
    \union [op : {"close", "shutdown"}, to : {{c} : c \in Clients},
            arg : [type : {"close", "shutdown"}]]
    \union [op : {"stop"}, to : {{}}, arg : [type : {"stop"}]]

\* Session::send() for each session of S: dropped at once if it is not active.  The
\* closures of one broadcast are adjacent in ioq and touch different sessions, so
\* they are one entry.
Send(S, m) ==
  LET live == {c \in S : Active(c)}
  IN  IF live = {} THEN <<>> ELSE <<Entry("send", live, m)>>

\* A broadcast() that does not look at isAppHandshakeComplete().
EverySession == sessions

\* The sessions broadcast() sends to.
ReadySessions == {c \in sessions : ready[c]}

\* What the messages to a client add up to.  This is the model's own bookkeeping, for the
\* properties: the roster is what client_joined, client_left, client_renamed and
\* current_clients say, which Client::handleMessage() logs or ignores (Client.cpp:764-782),
\* and the outcome, "refused" or "accepted", is that of the handshake.
Hear(v, m) ==
  CASE m.type = "answer" -> [v EXCEPT !.outcome = "accepted"]
    [] m.type = "auth_failed" -> [v EXCEPT !.outcome = "refused"]
    [] m.type = "list" -> [v EXCEPT !.roster = m.roster]
    [] m.type = "joined" -> [v EXCEPT !.roster[m.who] = m.entry]
    [] m.type = "left" -> [v EXCEPT !.roster[m.who] = Absent]
    [] m.type = "renamed" /\ v.roster[m.who] # Absent ->
         [v EXCEPT !.roster[m.who].name = m.name]
    [] OTHER -> v
-----------------------------------------------------------------------------
TypeOK ==
  /\ serverState \in {"Stopped", "Running", "Error"}
  /\ acceptor \in {"open", "armed", "closed"}
  /\ nextClientId \in 1..MaxClients + 1
  /\ sessions \in SUBSET Clients
  /\ phase \in [Clients -> {"none", "ssl", "up", "closing", "closed"}]
  /\ ready \in [Clients -> BOOLEAN]
  /\ name \in [Clients -> AllNames]
  /\ role \in [Clients -> AllRoles]
  /\ canReceive \in [Clients -> BOOLEAN]
  /\ hostClientId \in Clients \union {Nobody}
  /\ pending \in SUBSET Clients
  /\ handling \in BOOLEAN
  /\ uiLeft \in SUBSET Clients
  /\ requests \in 0..MaxRequests
  /\ updates \in 0..MaxUpdates
  /\ ioq \in Seq(QueueEntries)
  /\ view \in [Clients -> [outcome : {"none", "accepted", "refused"},
                           roster : [Clients -> Entries]]]

Init ==
  /\ serverState = "Stopped"
  /\ acceptor = "open"
  /\ nextClientId = 1
  /\ sessions = {}
  /\ phase = [c \in Clients |-> "none"]
  /\ ready = [c \in Clients |-> FALSE]
  /\ name = [c \in Clients |-> DefaultName]
  /\ role = [c \in Clients |-> "Receiver"]
  /\ canReceive = [c \in Clients |-> TRUE]
  /\ hostClientId = Nobody
  /\ ioq = <<>>
  /\ pending = {}
  /\ handling = FALSE
  /\ uiLeft = {}
  /\ view = [c \in Clients |-> [outcome |-> "none", roster |-> [d \in Clients |-> Absent]]]
  /\ requests = 0
  /\ updates = 0
-----------------------------------------------------------------------------
(* The environment: operations complete, and their handlers join ioq. *)

Enqueue(e) == Len(ioq) < MaxQueue /\ ioq' = Append(ioq, e)

\* May an operation succeed (TRUE) or fail?
Outcomes(fault) == {TRUE} \union (IF fault \in Faults THEN {FALSE} ELSE {})

\* A connection arrives, or accepting it fails.
AcceptCompletes ==
  /\ acceptor = "armed" /\ nextClientId <= MaxClients
  /\ \E ok \in Outcomes("accept") : Enqueue(Entry("accept", {}, [type |-> "accept", ok |-> ok]))
  /\ acceptor' = "open"
  /\ UNCHANGED <<serverState, nextClientId, sessions, phase, ready, attributes,
                 hostClientId, pending, handling, uiVars, view, requests>>

\* What client c may send next.  Before its handshake it sends that; a message out of
\* turn then is an error like any other.  Only the host's UI offers commands.
RequestsOf(c) ==
  [type : {"handshake"}, name : Names, role : Roles,
   password : {"right"} \union ({"wrong", "unparsable"} \intersect Faults)]
    \union [type : {"error"} \intersect Faults]
    \union (IF ~ready[c] THEN {} ELSE
              [type : Kinds \intersect {"input", "chat", "query", "upload"}])
    \union (IF ~ready[c] \/ role[c] # "Host" THEN {} ELSE
              [type : Kinds \intersect {"shutdown"}]
              \union [type : Kinds \intersect {"kick"}, who : sessions]
              \union [type : Kinds \intersect {"rename"}, who : sessions, name : NewNames]
              \union [type : Kinds \intersect {"toggle"}, who : sessions, on : BOOLEAN])

\* A message from c has been read, or reading it has failed.
ReadCompletes(c) ==
  /\ phase[c] = "up" /\ c \in pending /\ requests < MaxRequests
  /\ requests' = requests + 1
  /\ \E r \in RequestsOf(c) : Enqueue(Entry("read", {c}, r))
  /\ pending' = pending \ {c}
  /\ UNCHANGED <<registry, sessions, phase, ready, attributes, hostClientId, handling,
                 uiVars, view>>

SslHandshakeCompletes(c) ==
  /\ phase[c] = "ssl" /\ c \in pending
  /\ \E ok \in Outcomes("ssl") : Enqueue(Entry("ssl", {c}, [type |-> "ssl", ok |-> ok]))
  /\ pending' = pending \ {c}
  /\ UNCHANGED <<registry, sessions, phase, ready, attributes, hostClientId, handling,
                 uiVars, view, requests>>

\* The peer answers the TLS shutdown, or its connection fails.
ShutdownCompletes(c) ==
  /\ phase[c] = "closing" /\ c \in pending
  /\ Enqueue(Entry("shutdown", {c}, [type |-> "shutdown"]))
  /\ pending' = pending \ {c}
  /\ UNCHANGED <<registry, sessions, phase, ready, attributes, hostClientId, handling,
                 uiVars, view, requests>>
-----------------------------------------------------------------------------
(* The UI thread *)

\* Server::start(), by the thread that sets the server up.  A server that was stopped
\* has closed its acceptor and cannot start again.
Start ==
  /\ serverState = "Stopped"
  /\ IF acceptor = "open"
     THEN serverState' = "Running" /\ acceptor' = "armed"
     ELSE serverState' = "Error" /\ UNCHANGED acceptor
  /\ UNCHANGED <<nextClientId, sessions, phase, ready, attributes, hostClientId, ioq,
                 pending, handling, uiVars, view, requests>>

\* BroadcastFileSystemUpdate() from the file explorer panel: the sessions are chosen
\* under the lock, and sent to one by one after it.
UpdateBegins ==
  /\ serverState = "Running"
  /\ uiLeft = {} /\ updates < MaxUpdates /\ ReadySessions # {}
  /\ updates' = updates + 1
  /\ uiLeft' = ReadySessions
  /\ UNCHANGED <<registry, sessions, phase, ready, attributes, hostClientId, ioq,
                 pending, handling, view, requests>>

UpdateSent(c) ==
  /\ c \in uiLeft
  /\ uiLeft' = uiLeft \ {c}
  /\ ioq' = ioq \o Send({c}, Plain("fs"))
  /\ UNCHANGED <<registry, sessions, phase, ready, attributes, hostClientId, pending,
                 handling, updates, view, requests>>
-----------------------------------------------------------------------------
(* The io thread: closing *)

\* A handleDisconnect() that leaves hostClientId_ alone.
KeepHost(c, q) ==
  /\ sessions' = sessions \ {c}
  /\ ioq' = q \o Send(ReadySessions, LeftMsg(c))
  /\ UNCHANGED hostClientId

\* A handleDisconnect() whose idea of nobody is another number.
ResetToMinusOne(c, q) ==
  /\ sessions' = sessions \ {c}
  /\ ioq' = q \o Send(ReadySessions, LeftMsg(c))
  /\ hostClientId' = IF c = hostClientId THEN -1 ELSE hostClientId

\* handleDisconnect(): the host's place becomes free, those who are ready are told, and
\* the session is forgotten.  q is the queue so far.
HandleDisconnect(c, q) ==
  /\ hostClientId' = IF c = hostClientId THEN Nobody ELSE hostClientId
  /\ sessions' = sessions \ {c}
  /\ ioq' = q \o (IF c = hostClientId THEN Send(ReadySessions, Plain("host_left")) ELSE <<>>)
              \o Send(ReadySessions, LeftMsg(c))

\* doClose() of a session: with TLS up the server hears of it when async_shutdown
\* completes, without it at once.
DoClose(c, q) ==
  IF ~Active(c)
  THEN ioq' = q /\ UNCHANGED <<phase, ready, pending, hostClientId, sessions>>
  ELSE /\ ready' = [ready EXCEPT ![c] = FALSE]
       /\ IF phase[c] = "up"
          THEN /\ phase' = [phase EXCEPT ![c] = "closing"]
               /\ pending' = pending \union {c}
               /\ ioq' = q
               /\ UNCHANGED <<hostClientId, sessions>>
          ELSE /\ phase' = [phase EXCEPT ![c] = "closed"]
               /\ pending' = pending \ {c}
               /\ HandleDisconnect(c, q)

\* The io thread takes the entry at the head of its queue.
Takes(op) == ~handling /\ ioq # <<>> /\ Head(ioq).op = op

\* The closure posted by Session::close().
RunClose ==
  /\ Takes("close")
  /\ \E c \in Head(ioq).to : DoClose(c, Tail(ioq))
  /\ UNCHANGED <<registry, attributes, handling, uiVars, view, requests>>

\* The completion of async_shutdown.
RunShutdown ==
  /\ Takes("shutdown")
  /\ \E c \in Head(ioq).to : /\ phase' = [phase EXCEPT ![c] = "closed"]
                             /\ HandleDisconnect(c, Tail(ioq))
  /\ UNCHANGED <<registry, ready, attributes, pending, handling, uiVars, view, requests>>

\* stop() that forgets the sessions without closing them.
NoCloses == <<>>

\* The closures stop() posts: one close for each session.
ClosesOfAll == SetToSeq({Close(c) : c \in sessions})

\* stop(), posted by the shutdown command.
RunStop ==
  /\ Takes("stop")
  /\ IF serverState = "Stopped"
     THEN ioq' = Tail(ioq) /\ UNCHANGED <<serverState, acceptor, sessions>>
     ELSE /\ serverState' = "Stopped"
          /\ acceptor' = "closed"
          /\ sessions' = {}
          /\ ioq' = Tail(ioq) \o ClosesOfAll
  /\ UNCHANGED <<nextClientId, phase, ready, attributes, hostClientId, pending, handling,
                 uiVars, view, requests>>
-----------------------------------------------------------------------------
(* The io thread: accepting, TLS, sending *)

\* The accept handler.  It does not look at state_ before it creates the session.
RunAccept ==
  /\ Takes("accept")
  /\ ioq' = Tail(ioq)
  /\ IF Head(ioq).arg.ok /\ nextClientId <= MaxClients
     THEN /\ nextClientId' = nextClientId + 1
          /\ sessions' = sessions \union {nextClientId}
          /\ phase' = [phase EXCEPT ![nextClientId] = "ssl"]
          /\ pending' = pending \union {nextClientId}
     ELSE UNCHANGED <<nextClientId, sessions, phase, pending>>
  /\ acceptor' = IF serverState = "Running" THEN "armed" ELSE acceptor
  /\ UNCHANGED <<serverState, ready, attributes, hostClientId, handling, uiVars, view,
                 requests>>

\* A successful TLS handshake starts reading.
RunSsl ==
  /\ Takes("ssl")
  /\ \E c \in Head(ioq).to :
       IF Active(c) /\ Head(ioq).arg.ok
       THEN /\ phase' = [phase EXCEPT ![c] = "up"]
            /\ pending' = pending \union {c}
            /\ ioq' = Tail(ioq)
            /\ UNCHANGED <<ready, hostClientId, sessions>>
       ELSE DoClose(c, Tail(ioq))
  /\ UNCHANGED <<registry, attributes, handling, uiVars, view, requests>>

\* The closure posted by Session::send().
RunSend ==
  /\ Takes("send")
  /\ ioq' = Tail(ioq)
  /\ view' = [c \in Clients |-> IF c \in Head(ioq).to /\ Active(c)
                                THEN Hear(view[c], Head(ioq).arg) ELSE view[c]]
  /\ UNCHANGED <<registry, sessions, phase, ready, attributes, hostClientId, pending,
                 handling, uiVars, requests>>
-----------------------------------------------------------------------------
(* The io thread: messages read.  A handler ends by reading again if the session is *)
(* still active; what it posted is ahead of that read's completion.                 *)

\* A handler that returns without reading again.
LeaveUnread(c) == UNCHANGED pending

ReadAgain(c) == pending' = pending \union {c}

\* A read that failed, or was overtaken by the end of its session, or brought a
\* message before the handshake.
RunReadError ==
  /\ Takes("read")
  /\ \E c \in Head(ioq).to :
       /\ \/ ~Active(c)
          \/ Head(ioq).arg.type = "error"
          \/ ~ready[c] /\ Head(ioq).arg.type # "handshake"
       /\ DoClose(c, Tail(ioq))
  /\ UNCHANGED <<registry, attributes, handling, uiVars, view, requests>>

\* The first half of a handshake: Session sets its flag.
RunReadHandshake ==
  /\ Takes("read")
  /\ \E c \in Head(ioq).to :
       /\ phase[c] = "up" /\ Head(ioq).arg.type = "handshake"
       /\ ready' = [ready EXCEPT ![c] = TRUE]
  /\ handling' = TRUE
  /\ UNCHANGED <<registry, sessions, phase, attributes, hostClientId, ioq, pending,
                 uiVars, view, requests>>

\* A designation of the host that does not ask whether there is one.
LastAsksWins(c, asked) == asked = "Host"

\* Does c become, or stay, the host?
Designated(c, asked) == asked = "Host" /\ hostClientId \in {Nobody, c}

\* The role processHandshake() gives c.
Granted(c, asked) ==
  IF Designated(c, asked) THEN "Host"
  ELSE IF asked = "Host" \/ (asked = "Broadcaster" /\ hostClientId = Nobody) THEN "Receiver"
  ELSE asked

\* A notifyClientJoined() that does not tell the newcomer.
OnlyTellOthers(c, e, list) == Send(ReadySessions \ {c}, JoinedMsg(c, e))

\* notifyClientJoined(): the others hear of c, c hears of everyone.
NotifyClientJoined(c, e, list) ==
  Send(ReadySessions \ {c}, JoinedMsg(c, e)) \o Send({c}, ListMsg(list))

\* processHandshake() with the right password.
Welcome(c, r) ==
  LET e == [name |-> r.name, role |-> Granted(c, r.role)]
      list == [d \in Clients |-> IF d \notin ReadySessions THEN Absent
                                 ELSE IF d = c THEN e
                                 ELSE [name |-> name[d], role |-> role[d]]]
  IN  /\ name' = [name EXCEPT ![c] = e.name]
      /\ role' = [role EXCEPT ![c] = e.role]
      /\ hostClientId' = IF Designated(c, r.role) THEN c ELSE hostClientId
      /\ ioq' = Tail(ioq) \o Send({c}, Plain("answer")) \o NotifyClientJoined(c, e, list)
                 \o (IF e.role = "Host" THEN <<>> ELSE Send({c}, Plain("fs")))

\* A refusal that does not end the session.
OnlyTell(c, r) == Tail(ioq) \o Send({c}, Plain("auth_failed"))

\* What a refused handshake posts: with a wrong password the client is told first.
Refusal(c, r) ==
  Tail(ioq) \o (IF r.password = "wrong" THEN Send({c}, Plain("auth_failed")) ELSE <<>>)
    \o <<Close(c)>>

\* The second half of a handshake: processHandshake().
ProcessHandshake ==
  /\ handling
  /\ handling' = FALSE
  /\ \E c \in Head(ioq).to :
       /\ IF Head(ioq).arg.password = "right"
          THEN Welcome(c, Head(ioq).arg)
          ELSE ioq' = Refusal(c, Head(ioq).arg) /\ UNCHANGED <<name, role, hostClientId>>
       /\ ReadAgain(c)
  /\ UNCHANGED <<registry, sessions, phase, ready, canReceive, uiVars, view, requests>>
-----------------------------------------------------------------------------
(* The io thread: what a client sends after its handshake *)

\* c's message is of type t, and handleMessage() gets it.
Gets(c, t) ==
  /\ Takes("read") /\ c \in Head(ioq).to /\ Head(ioq).arg.type = t
  /\ Active(c) /\ ready[c]

\* The handler posts `closures`; of the rest it changes at most the attributes.
Posts(c, closures) ==
  /\ ioq' = Tail(ioq) \o closures
  /\ ReadAgain(c)
  /\ UNCHANGED <<registry, sessions, phase, ready, hostClientId, role, handling, uiVars,
                 view, requests>>

\* A broadcastToReceivers() that goes by the roles alone.
ByRole == {c \in ReadySessions : canReceive[c] /\ role[c] \in {"Receiver", "Broadcaster"}}

\* broadcastToReceivers(): the host is skipped whatever its role says by now.
Listeners == ByRole \ {hostClientId}

RunInput(c) ==
  /\ Gets(c, "input")
  /\ Posts(c, IF c = hostClientId THEN Send(Listeners, InputMsg(c)) ELSE <<>>)
  /\ UNCHANGED <<name, canReceive>>

\* What the other messages post: chat goes to everybody, its sender included; a
\* query (request_host_info, a command from a client that is not the host, a file
\* request) is answered; an upload that could be saved refreshes the file tree and
\* broadcasts it.
RunOther(c) ==
  /\ \/ Gets(c, "chat") /\ Posts(c, Send(ReadySessions, Plain("chat")))
     \/ Gets(c, "query") /\ Posts(c, Send({c}, Plain("reply")))
     \/ /\ Gets(c, "upload")
        /\ \E q \in {<<>>, Send(ReadySessions, Plain("fs"))} : Posts(c, q)
  /\ UNCHANGED <<name, canReceive>>

\* A command c sends as the host: handleMessage() asks for its role, processCommand()
\* for its id.
HostCommand(c, t) == Gets(c, t) /\ role[c] = "Host" /\ c = hostClientId

\* shutdown_server: everybody is warned, and stop() posted.
RunShutdownCommand(c) ==
  /\ HostCommand(c, "shutdown")
  /\ Posts(c, Send(ReadySessions, Plain("server_shutdown_imminent")) \o <<StopEntry>>)
  /\ UNCHANGED <<name, canReceive>>

\* kick_client: not the host itself, and only a session that is still there.
RunKick(c) ==
  /\ HostCommand(c, "kick")
  /\ LET d == Head(ioq).arg.who
     IN  Posts(c, IF d \in sessions \ {hostClientId} THEN <<Close(d)>> ELSE <<>>)
  /\ UNCHANGED <<name, canReceive>>

\* A rename that only the renamed client hears of.
TellRenamed(d, n) == Send({d}, Plain("you_were_renamed"))

\* The renamed client hears of it, and everybody.
AnnounceRename(d, n) ==
  Send({d}, Plain("you_were_renamed")) \o Send(ReadySessions, RenamedMsg(d, n))

\* rename_client: any session in the list, ready or not.
RunRename(c) ==
  /\ HostCommand(c, "rename")
  /\ LET d == Head(ioq).arg.who  n == Head(ioq).arg.name
     IN  IF d \in sessions
         THEN /\ name' = [name EXCEPT ![d] = n]
              /\ Posts(c, AnnounceRename(d, n))
         ELSE Posts(c, <<>>) /\ UNCHANGED name
  /\ UNCHANGED canReceive

\* toggle_input_client: only a Receiver's.
RunToggle(c) ==
  /\ HostCommand(c, "toggle")
  /\ LET d == Head(ioq).arg.who
     IN  canReceive' = IF d \in sessions /\ role[d] = "Receiver"
                       THEN [canReceive EXCEPT ![d] = Head(ioq).arg.on] ELSE canReceive
  /\ Posts(c, <<>>)
  /\ UNCHANGED name
-----------------------------------------------------------------------------
RunHead ==
  \/ RunAccept \/ RunSsl \/ RunShutdown
  \/ RunSend \/ RunClose \/ RunStop
  \/ RunReadError \/ RunReadHandshake \/ ProcessHandshake
  \/ \E c \in Clients : \/ RunInput(c) \/ RunOther(c) \/ RunShutdownCommand(c)
                        \/ RunKick(c) \/ RunRename(c) \/ RunToggle(c)

Completes ==
  \/ AcceptCompletes
  \/ \E c \in Clients : ReadCompletes(c) \/ SslHandshakeCompletes(c) \/ ShutdownCompletes(c)

UIThread == Start \/ UpdateBegins \/ \E c \in Clients : UpdateSent(c)

Next == RunHead \/ Completes \/ UIThread

Spec == Init /\ [][Next]_vars

\* Its peer answers the TLS shutdown of a session the server accepted: Client's read
\* loop ends with an error then and closes.  A client that was refused has left that
\* loop and keeps its socket open, and nobody closes it by a timeout.
Answers(c) == ShutdownCompletes(c) /\ view[c].outcome # "refused"

\* The io thread runs what is queued, and the UI thread finishes a broadcast.
Fairness ==
  /\ WF_vars(RunHead)
  /\ WF_vars(\E c \in Clients : UpdateSent(c))
  /\ \A c \in Clients : WF_vars(Answers(c))

FairSpec == Spec /\ Fairness
-----------------------------------------------------------------------------
(* Properties *)

\* At most one client acts as host, and it is the one hostClientId_ names, from the
\* handshake that makes it so until its session has ended: nobody else holds the role
\* while it closes (processHandshake(), handleDisconnect()).
OneHost ==
  \A c \in Clients : role[c] = "Host" /\ phase[c] \in {"up", "closing"} => hostClientId = c

\* The host's place is never kept by a session that is gone: hostClientId_ names an
\* open or closing session, so the next client that asks can have the place.
HostIsOpen == hostClientId # Nobody => phase[hostClientId] \in {"up", "closing"}

\* Nothing is going on: the queue is empty and no session is closing.
Quiet == ioq = <<>> /\ \A c \in Clients : phase[c] # "closing"

\* When nothing is going on, what the messages have told a client about who is there,
\* under which names and in which roles is what the server has: no join, leave or
\* rename was lost between the list a newcomer gets and the later announcements.
RosterAgrees ==
  Quiet => \A c \in ReadySessions : view[c].roster =
             [d \in Clients |-> IF d \in ReadySessions
                                THEN [name |-> name[d], role |-> role[d]] ELSE Absent]

\* The message the io thread is about to put into c's writeQueue_.
AboutToHear(c) ==
  ioq # <<>> /\ Head(ioq).op = "send" /\ c \in Head(ioq).to /\ Active(c)

\* An announcement, a chat message or an input reaches a client only after the
\* handshake answer and the list of clients that it changes or is to be read with.
RosterFirst ==
  \A c \in Clients :
    AboutToHear(c) /\ Head(ioq).arg.type \in {"joined", "left", "renamed", "chat", "input"}
      => view[c].outcome = "accepted" /\ view[c].roster[c] # Absent

\* A client whose handshake was refused hears nothing of the session any more, though
\* it counts as ready until its close has run.  The UI thread's file system updates
\* are the exception.
RefusedHearsNothing ==
  \A c \in Clients :
    AboutToHear(c) /\ view[c].outcome = "refused" => Head(ioq).arg.type = "fs"

\* Input reaches a client only from somebody it knows to be there: it is never told
\* of the host's leaving before the host's last input.
InputFromMember ==
  \A c \in Clients :
    AboutToHear(c) /\ Head(ioq).arg.type = "input"
      => view[c].roster[Head(ioq).arg.who] # Absent

\* The host never gets its own input back, whatever role it has asked for since.
NoEcho ==
  \A c \in Clients :
    AboutToHear(c) /\ Head(ioq).arg.type = "input" => Head(ioq).arg.who # c

\* A close() for c is waiting in the queue.
CloseQueued(c) == \E i \in 1..Len(ioq) : ioq[i].op = "close" /\ c \in ioq[i].to

\* A session that sessions_ has lost is on its way out: stop() forgets the sessions,
\* and nobody could close or reach one that it forgot to close.
NoOrphan ==
  \A c \in Clients : Active(c) /\ c \notin sessions => CloseQueued(c)

\* What an open or closing session waits for.
Awaited == [ssl |-> "ssl", up |-> "read", closing |-> "shutdown"]

\* Every open or closing session waits for one completion, which is outstanding or in
\* the queue: no handler that keeps the session forgets to read again, and none starts
\* a second read beside the first (Session::doRead(), which nothing else guards).
OneOperation ==
  \A c \in Clients : phase[c] \in DOMAIN Awaited =>
    LET done == {i \in 1..Len(ioq) : ioq[i].op = Awaited[phase[c]] /\ c \in ioq[i].to}
    IN  IF c \in pending THEN done = {} ELSE \E i \in 1..Len(ioq) : done = {i}

\* A kick, and stop(), end the session and free its place, unless its peer was refused.
CloseTakesEffect ==
  \A c \in Clients :
    CloseQueued(c) ~> (phase[c] = "closed" /\ c \notin sessions /\ hostClientId # c)
                        \/ view[c].outcome = "refused"
-----------------------------------------------------------------------------
(* What the program says of itself and does not do *)

\* "Server stopped and all sessions closed." (Server.cpp, the end of stop()): when
\* nothing is going on in a stopped server, no session is open.
StoppedMeansClosed ==
  serverState = "Stopped" /\ Quiet => \A c \in Clients : ~Active(c)

\* "A designated Host or Broadcaster client can stream keyboard and mouse input"
\* (README.md): an input read from a broadcaster is passed on if somebody listens.
BroadcasterStreams ==
  [][\A c \in Clients :
       RunInput(c) /\ role[c] = "Broadcaster" /\ Listeners \ {c} # {}
         => \E i \in 1..Len(ioq') : ioq'[i].op = "send" /\ ioq'[i].arg = InputMsg(c)]_vars
=============================================================================
