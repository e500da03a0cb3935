------------------------------- MODULE Client -------------------------------
(***************************************************************************)
(* One Client object of src/network/Client.cpp, used as the join panel     *)
(* uses it: connect() in the role Broadcaster, the callbacks of            *)
(* src/ui/FlowPanels.cpp:411-428, the Disconnect button.  A refused or     *)
(* failed attempt keeps the object, and with it the TLS stream its         *)
(* constructor made, with what that has read, the socket and               *)
(* partialMessage_; the disconnect callback destroys it.                   *)
(*                                                                         *)
(* The io thread runs one handler at a time.  handleRead() is one step per *)
(* turn of its loop, and doClose() is two where it waits for the input     *)
(* thread.  A click takes a frame of the panel, so none falls between two  *)
(* statements of a handler that does not wait.                             *)
(*                                                                         *)
(* What the server sends is a sequence of units: two for a message, its    *)
(* head and the rest, and one for the end of its TLS stream.  A read may   *)
(* separate or join them, and brings the TLS stream more than it returns.  *)
(***************************************************************************)
EXTENDS Naturals, Sequences

CONSTANTS
  MaxTries,     \* bound: calls of connect() on the object
  MaxNews,      \* bound: messages the server sends beside its answers
  MaxRequests   \* bound: messages the user sends

ASSUME BoundsAssumption ==
  /\ MaxTries \in Nat \ {0}
  /\ MaxNews \in Nat
  /\ MaxRequests \in Nat

VARIABLES
  state,      \* state_
  tries,      \* calls of connect() that began an attempt
  sock,       \* the attempt whose TCP connection the socket holds, 0 if it is closed
  tls,        \* the stream's TLS engine:
              \*   "fresh"  nothing said yet
              \*   "half"   the handshake was cut off: it waits for the rest of it
              \*   "bad"    the handshake failed, and fails again
              \*   "done"   it has shaken hands
              \*   "shut"   and has sent close_notify: nothing more can be written
  tlsWith,    \* the attempt whose server that handshake was made with, 0 if none
  op,         \* the connecting operation outstanding: "resolve", "tcp", "tls", "none"
  reading,    \* an async_read_some is outstanding
  queue,      \* writeQueue_
  writing,    \* writing_
  inflight,   \* an async_write is outstanding
  shutdowns,  \* outstanding async_shutdowns: notifyDisconnectHandler of each
  posts,      \* closures posted by send() and disconnect()
  stream,     \* units sent to the object and not yet decoded
  got,        \* how many of them partialMessage_ holds
  held,       \* how many partialMessage_ and the TLS stream hold; the others are in TCP
  io,         \* the io thread: "idle", "decode" in handleRead's loop, "join" in stopInputLogging
  peer,       \* the server's end: "none", "greet", "secure", "asked", "member", "refused", "closed"
  news, requests, \* messages counted against the bounds
  capture,    \* loggingInput_
  manager,    \* inputManager_->isRunning()
  thread,     \* inputThread_: "none" if not joinable, "runs", "ended"
  gaveUp,     \* the input manager has stopped by itself
  told        \* what the callbacks last told the panel: "setup", "waiting", "session",
              \* "gone" when they have destroyed the object

vars == <<state, tries, sock, tls, tlsWith, op, reading, queue, writing, inflight, shutdowns,
          posts, stream, got, held, io, peer, news, requests, capture, manager, thread,
          gaveUp, told>>

writeVars == <<queue, writing, inflight>>
serverVars == <<peer, news>>
streamVars == <<stream, got, held>>
inputVars == <<capture, manager, thread, gaveUp>>
tlsVars == <<tls, tlsWith>>
linkVars == <<tries, sock, tlsVars, op>>

Messages == {"answer", "refusal", "news"}

\* A unit, and the attempt whose server sent it.
Unit(m) == [msg |-> m, of |-> sock]

Units(m) == <<Unit(m), Unit("rest")>>

\* The early returns on ClientState::Disconnected and ClientState::Error.
Ended == state \in {"Disconnected", "Error"}

TypeOK ==
  /\ state \in {"Disconnected", "Connecting", "Connected", "Error"}
  /\ tries \in 0..MaxTries /\ sock \in 0..tries
  /\ tls \in {"fresh", "half", "bad", "done", "shut"} /\ tlsWith \in 0..tries
  /\ op \in {"none", "resolve", "tcp", "tls"}
  /\ reading \in BOOLEAN /\ writing \in BOOLEAN /\ inflight \in BOOLEAN
  /\ queue \in Seq({"hello", "request"})
  /\ shutdowns \in Seq(BOOLEAN)
  /\ posts \in Seq({"hello", "request", "close"})
  /\ stream \in Seq([msg : Messages \cup {"rest", "bye"}, of : 1..MaxTries])
  /\ held \in 0..Len(stream) /\ got \in 0..held
  /\ io \in {"idle", "decode", "join"}
  /\ peer \in {"none", "greet", "secure", "asked", "member", "refused", "closed"}
  /\ news \in 0..MaxNews /\ requests \in 0..MaxRequests
  /\ capture \in BOOLEAN /\ manager \in BOOLEAN /\ gaveUp \in BOOLEAN
  /\ thread \in {"none", "runs", "ended"}
  /\ told \in {"setup", "waiting", "session", "gone"}

Init ==
  /\ state = "Disconnected" /\ tries = 0 /\ sock = 0 /\ tls = "fresh" /\ tlsWith = 0
  /\ op = "none"
  /\ reading = FALSE /\ queue = <<>> /\ writing = FALSE /\ inflight = FALSE
  /\ shutdowns = <<>> /\ posts = <<>> /\ stream = <<>> /\ got = 0 /\ held = 0 /\ io = "idle"
  /\ peer = "none" /\ news = 0 /\ requests = 0
  /\ capture = FALSE /\ manager = FALSE /\ thread = "none" /\ gaveUp = FALSE
  /\ told = "setup"
-----------------------------------------------------------------------------
(* Closing *)

\* The disconnect callback of the join panel: the mode is None again and the client
\* instance is destroyed.
DisconnectHandler == told' = "gone"

\* async_shutdown on an open socket, or the disconnect callback at once if it is closed, of
\* a client whose panel has been told t.
Shutdown(t, notify) ==
  IF sock # 0
  THEN shutdowns' = Append(shutdowns, notify) /\ told' = t
  ELSE UNCHANGED shutdowns /\ IF notify THEN DisconnectHandler ELSE told' = t

\* The engine when async_shutdown begins: one that has shaken hands sends close_notify.
CloseNotify == tls' = IF sock # 0 /\ tls = "done" THEN "shut" ELSE tls

\* Ending the connection without handing the notice to async_shutdown.
EndWithoutNotice(s, t, notify) ==
  IF s = "Disconnected"
  THEN state' = s /\ told' = t /\ UNCHANGED <<shutdowns, tls, queue, writing>>
  ELSE /\ state' = "Disconnected"
       /\ queue' = <<>> /\ writing' = FALSE
       /\ Shutdown(t, FALSE) /\ CloseNotify

\* doClose() after its stopInputLogging(), on a client whose state is s and whose panel has
\* been told t.
EndConnection(s, t, notify) ==
  IF s = "Disconnected"
  THEN state' = s /\ told' = t /\ UNCHANGED <<shutdowns, tls, queue, writing>>
  ELSE /\ state' = "Disconnected"
       /\ queue' = <<>> /\ writing' = FALSE
       /\ Shutdown(t, notify) /\ CloseNotify

\* doClose() that stops the capture only in a connected client.
CloseIfConnected(s, notify) ==
  IF capture /\ s = "Connected"
  THEN /\ capture' = FALSE /\ io' = "join" /\ state' = s
       /\ UNCHANGED <<shutdowns, tls, told, queue, writing>>
  ELSE EndConnection(s, told, notify) /\ io' = "idle" /\ UNCHANGED capture

\* doClose(): stopInputLogging() returns at once if nothing is logged, and otherwise
\* waits for the input thread.
DoClose(s, notify) ==
  IF capture
  THEN /\ capture' = FALSE /\ io' = "join" /\ state' = s
       /\ UNCHANGED <<shutdowns, tls, told, queue, writing>>
  ELSE EndConnection(s, told, notify) /\ io' = "idle" /\ UNCHANGED capture

\* The rest of stopInputLogging() and of doClose(); every call that gets here notifies.
InputThreadJoined ==
  /\ io = "join" /\ thread # "runs"
  /\ io' = "idle"
  /\ thread' = "none"
  /\ manager' = FALSE
  /\ EndConnection(state, told, TRUE)
  /\ UNCHANGED <<tries, sock, tlsWith, op, reading, inflight, posts, streamVars, serverVars,
                 requests, capture, gaveUp>>

\* The completion of async_shutdown closes the socket that is open by then, be it that of a
\* later attempt.
ShutdownDone ==
  /\ io = "idle" /\ shutdowns # <<>>
  /\ shutdowns' = Tail(shutdowns)
  /\ sock' = 0
  /\ IF Head(shutdowns) THEN DisconnectHandler ELSE UNCHANGED told
  /\ UNCHANGED <<state, tries, tlsVars, op, reading, writeVars, posts, streamVars, io,
                 serverVars, requests, inputVars>>
-----------------------------------------------------------------------------
(* Connecting *)

\* connect() with doResolve(), after a click on Connect; the shutdown of an earlier attempt
\* may still be outstanding.
Connect ==
  /\ told = "setup" /\ io = "idle" /\ tries < MaxTries
  /\ state \notin {"Connecting", "Connected"}
  /\ state' = "Connecting"
  /\ tries' = tries + 1
  /\ op' = "resolve"
  /\ told' = "waiting"
  /\ UNCHANGED <<sock, tlsVars, reading, writeVars, shutdowns, posts, streamVars, io,
                 serverVars, requests, inputVars>>

\* A failure that is not one of the client's states.
FailOtherwise == state' = "Failed" /\ told' = "setup"

\* setState(Error) and connectHandler_(false, ...).  The join panel sets no error handler.
Fail ==
  /\ state' = "Error"
  /\ told' = "setup"

\* handleResolve(): async_connect, which closes the socket of an earlier attempt and opens
\* that of this one; what is still in TCP is lost, what the TLS stream has read is not.
HandleResolve(ok) ==
  /\ io = "idle" /\ op = "resolve"
  /\ IF state = "Connecting" /\ ok
     THEN /\ op' = "tcp"
          /\ sock' = tries /\ peer' = "none" /\ stream' = SubSeq(stream, 1, held)
          /\ UNCHANGED <<state, told>>
     ELSE /\ op' = "none"
          /\ IF state = "Connecting" THEN Fail ELSE UNCHANGED <<state, told>>
          /\ UNCHANGED <<sock, peer, stream>>
  /\ UNCHANGED <<tries, tlsVars, reading, writeVars, shutdowns, posts, got, held, io, news,
                 requests, inputVars>>

\* handleTcpConnect() with doSslHandshake(); a socket that was closed meanwhile does not
\* connect.
HandleTcpConnect(ok) ==
  /\ io = "idle" /\ op = "tcp" /\ (ok => sock # 0)
  /\ peer' = IF ok THEN "greet" ELSE "none"
  /\ IF state # "Connecting" THEN op' = "none" /\ UNCHANGED <<state, told>>
     ELSE IF ok THEN op' = "tls" /\ UNCHANGED <<state, told>>
          ELSE op' = "none" /\ Fail
  /\ UNCHANGED <<tries, sock, tlsVars, reading, writeVars, shutdowns, posts, streamVars, io,
                 news, requests, inputVars>>

\* No more bytes come over the socket.
CutOff == peer = "closed" \/ sock = 0

\* The handshake of a fresh TLS engine with the server, which leaves it in state r.
FirstHandshake(r) ==
  \/ /\ r = "done" /\ peer = "greet" /\ sock # 0
     /\ tls' = r /\ tlsWith' = tries /\ peer' = "secure"
  \/ /\ r = "bad" \/ (r = "half" /\ CutOff)
     /\ tls' = r /\ UNCHANGED <<tlsWith, peer>>

\* The TLS handshake if connect() made a new stream.
HandshakeOfNewStream(r) == FirstHandshake(r)

\* async_handshake of the one stream the constructor made.  One that has shaken hands
\* reports success at once, without a word to the new server; one that has failed fails
\* again; one that was cut off waits for the new server to go on with the old handshake,
\* which waits in turn for a new one to begin.
TlsHandshake(r) ==
  \/ tls = "fresh" /\ FirstHandshake(r)
  \/ /\ tls # "fresh" /\ r = tls /\ (tls = "half" => CutOff)
     /\ UNCHANGED <<tlsVars, peer>>

\* handleSslHandshake() with performApplicationHandshake(): the handshake message is
\* posted, the reading begins; or failure, and doClose() without notice.
HandleSslHandshake(r) ==
  /\ io = "idle" /\ op = "tls"
  /\ op' = "none"
  /\ TlsHandshake(r)
  /\ IF state # "Connecting"
     THEN UNCHANGED <<state, told, posts, reading, queue, writing, shutdowns>>
     ELSE IF r \in {"done", "shut"}
          THEN /\ posts' = Append(posts, "hello")
               /\ reading' = TRUE
               /\ UNCHANGED <<state, told, queue, writing, shutdowns>>
          ELSE /\ state' = "Disconnected"
               /\ queue' = <<>> /\ writing' = FALSE
               /\ Shutdown("setup", FALSE)
               /\ UNCHANGED <<posts, reading>>
  /\ UNCHANGED <<tries, sock, inflight, streamVars, io, news, requests, inputVars>>
-----------------------------------------------------------------------------
(* Sending *)

\* uploadFile() and requestFile() on the UI thread.
SendRequest ==
  /\ told = "session" /\ state = "Connected" /\ requests < MaxRequests
  /\ requests' = requests + 1
  /\ posts' = Append(posts, "request")
  /\ UNCHANGED <<state, linkVars, reading, writeVars, shutdowns, streamVars, io, serverVars,
                 inputVars, told>>

\* disconnect() by the button of the session's panel.
Disconnect ==
  /\ told = "session" /\ "close" \notin {posts[i] : i \in DOMAIN posts}
  /\ posts' = Append(posts, "close")
  /\ UNCHANGED <<state, linkVars, reading, writeVars, shutdowns, streamVars, io, serverVars,
                 requests, inputVars, told>>

\* The closure of send(), with doWrite().
RunSend ==
  /\ io = "idle" /\ posts # <<>> /\ Head(posts) # "close"
  /\ posts' = Tail(posts)
  /\ IF Ended THEN UNCHANGED writeVars
     ELSE /\ queue' = Append(queue, Head(posts))
          /\ IF queue = <<>> /\ ~writing
             THEN writing' = TRUE /\ inflight' = TRUE
             ELSE UNCHANGED <<writing, inflight>>
  /\ UNCHANGED <<state, linkVars, reading, shutdowns, streamVars, io, serverVars, requests,
                 inputVars, told>>

RunClose ==
  /\ io = "idle" /\ posts # <<>> /\ Head(posts) = "close"
  /\ posts' = Tail(posts)
  /\ DoClose(state, TRUE)
  /\ UNCHANGED <<tries, sock, tlsWith, op, reading, inflight, streamVars, serverVars,
                 requests, manager, thread, gaveUp>>

\* What the server makes of a message: its first is the handshake if TLS was set up with
\* this server; a server still waiting for TLS cannot make sense of it and gives up.
Delivered ==
  peer' = CASE peer = "secure" -> "asked"
            [] peer = "greet" -> "closed"
            [] OTHER -> peer

\* Nothing written now can leave: the server is gone, or the message was begun on a stream
\* that has sent close_notify, which only a later attempt does.
CannotWrite == peer = "closed" \/ (tls = "shut" /\ ~Ended)

\* handleWrite() without error, with the doWrite() of the next message.
HandleWriteOk ==
  /\ io = "idle" /\ inflight /\ (tls = "shut" => Ended)
  /\ Delivered
  /\ LET rest == IF queue = <<>> THEN queue ELSE Tail(queue)
     IN  /\ queue' = rest
         /\ writing' = (rest # <<>> /\ ~Ended)
         /\ inflight' = (rest # <<>> /\ ~Ended)
  /\ UNCHANGED <<state, linkVars, reading, shutdowns, posts, streamVars, io, news,
                 requests, inputVars, told>>

\* handleWrite() with an error: the state is Error, whatever it was, and doClose() runs,
\* perhaps again.
HandleWriteError ==
  /\ io = "idle" /\ inflight /\ CannotWrite
  /\ inflight' = FALSE
  /\ DoClose("Error", TRUE)
  /\ UNCHANGED <<tries, sock, tlsWith, op, reading, posts, streamVars, serverVars, requests,
                 manager, thread, gaveUp>>
-----------------------------------------------------------------------------
(* Receiving *)

\* handleRead() without error: n units are appended to partialMessage_.  They come from
\* what the TLS stream holds, or if that is nothing from m units TCP brings it now; the
\* others of these stay in the stream.
HandleRead(n, m) ==
  /\ io = "idle" /\ reading
  /\ m = 0 <=> held > got
  /\ got + n <= held + m
  /\ \A i \in got+1..got+n : stream[i].msg # "bye"
  /\ reading' = FALSE
  /\ got' = got + n
  /\ held' = held + m
  /\ io' = "decode"
  /\ UNCHANGED <<state, linkVars, writeVars, shutdowns, posts, stream, serverVars, requests,
                 inputVars, told>>

\* What the loop has done with is erased from partialMessage_.
Erase(n) ==
  /\ stream' = SubSeq(stream, n + 1, Len(stream))
  /\ got' = got - n
  /\ held' = held - n

\* startInputLogging() after inputManager_->start(): an input thread that has ended is
\* joined before the new one begins.
StartInput(started) ==
  /\ manager' = started
  /\ capture' = started
  /\ thread' = IF started THEN "runs" ELSE thread

\* One message of the loop in handleRead(), with handleMessage(): the answer to the
\* handshake makes the client Connected, "auth_failed" puts it into Error; everything else
\* is acted on in a session and ignored before.
HandleMessage(started) ==
  /\ io = "decode" /\ ~Ended /\ got >= 2
  /\ Erase(2)
  /\ CASE stream[1].msg = "answer" /\ state = "Connecting" ->
            state' = "Connected" /\ told' = "session" /\ StartInput(started)
       [] stream[1].msg = "refusal" /\ state = "Connecting" ->
            Fail /\ UNCHANGED <<capture, manager, thread>>
       [] OTHER ->
            UNCHANGED <<state, told, capture, manager, thread>>
  /\ UNCHANGED <<linkVars, reading, writeVars, shutdowns, posts, io, serverVars, requests,
                 gaveUp>>

\* handleMessage() of an answer that throws: its payload cannot be read, the input manager
\* not made, or the input thread not started, in which case the manager is stopped again.
\* The attempt is refused and the connection closed with notice.
AnswerFails ==
  /\ io = "decode" /\ state = "Connecting" /\ got >= 2 /\ stream[1].msg = "answer"
  /\ Erase(2)
  /\ EndConnection("Error", "setup", TRUE)
  /\ \/ UNCHANGED <<manager, thread>>
     \/ manager' = FALSE /\ thread' = "none"
  /\ UNCHANGED <<tries, sock, tlsWith, op, reading, inflight, posts, io, serverVars, requests,
                 capture, gaveUp>>

\* The loop given up: a header or body that does not decode clears partialMessage_, an
\* exception from handling a message puts the client into Error.
DecodeFails ==
  /\ io = "decode" /\ ~Ended /\ got > 0
  /\ \/ Erase(got) /\ DoClose(state, TRUE)
     \/ got >= 2 /\ UNCHANGED streamVars /\ DoClose("Error", TRUE)
  /\ UNCHANGED <<tries, sock, tlsWith, op, reading, inflight, posts, serverVars, requests,
                 manager, thread, gaveUp>>

\* The end of the loop, reading on only in a session.
DecodeEndsConnected ==
  /\ io = "decode" /\ (Ended \/ got < 2)
  /\ io' = "idle"
  /\ reading' = (state = "Connected")
  /\ UNCHANGED <<state, linkVars, writeVars, shutdowns, posts, streamVars, serverVars,
                 requests, inputVars, told>>

\* The end of the loop: the next read is started unless the client has ended.
DecodeEnds ==
  /\ io = "decode" /\ (Ended \/ got < 2)
  /\ io' = "idle"
  /\ reading' = ~Ended
  /\ UNCHANGED <<state, linkVars, writeVars, shutdowns, posts, streamVars, serverVars,
                 requests, inputVars, told>>

\* There is nothing more to read: the server's close_notify is next, or the connection is
\* gone.
StreamOver ==
  IF got < Len(stream) THEN stream[got + 1].msg = "bye" ELSE peer = "closed"

\* handleRead() with an error: end of stream or reset close the client as it is, another
\* error puts it into Error first; a client that has ended is left alone.
HandleReadError(s) ==
  /\ io = "idle" /\ reading /\ StreamOver
  /\ s \in {state, "Error"}
  /\ reading' = FALSE
  /\ IF Ended THEN UNCHANGED <<state, shutdowns, tls, told, queue, writing, io, capture>>
     ELSE DoClose(s, TRUE)
  /\ UNCHANGED <<tries, sock, tlsWith, op, inflight, posts, streamVars, serverVars, requests,
                 manager, thread, gaveUp>>
-----------------------------------------------------------------------------
(* The input thread and its manager *)

\* The manager may clear its running flag itself, as when the helper is declined.
ManagerStops ==
  /\ manager
  /\ manager' = FALSE
  /\ gaveUp' = TRUE
  /\ UNCHANGED <<state, linkVars, reading, writeVars, shutdowns, posts, streamVars, io,
                 serverVars, requests, capture, thread, told>>

\* inputLoop() ends when the capture is over, or itself ends the capture of a manager
\* that has stopped.
InputLoopEnds ==
  /\ thread = "runs" /\ (~capture \/ ~manager)
  /\ thread' = "ended"
  /\ capture' = FALSE
  /\ UNCHANGED <<state, linkVars, reading, writeVars, shutdowns, posts, streamVars, io,
                 serverVars, requests, manager, gaveUp, told>>
-----------------------------------------------------------------------------
(* The server, as src/network/Server.cpp answers: a client that has shaken hands is      *)
(* admitted or refused, a ready one, refused or not, may get messages, and the           *)
(* connection may end at any time.                                                       *)

ServerUnchanged == UNCHANGED <<state, linkVars, reading, writeVars, shutdowns, posts, got, held,
                               io, requests, inputVars, told>>

ServerAnswers ==
  /\ peer = "asked"
  /\ \/ peer' = "member" /\ stream' = stream \o Units("answer")
     \/ peer' = "refused" /\ stream' = stream \o Units("refusal")
  /\ UNCHANGED news
  /\ ServerUnchanged

ServerSends ==
  /\ peer \in {"asked", "member", "refused"} /\ news < MaxNews
  /\ stream' = stream \o Units("news")
  /\ news' = news + 1
  /\ UNCHANGED peer
  /\ ServerUnchanged

\* The end of the connection, with close_notify or without.
ServerCloses ==
  /\ peer \in {"greet", "secure", "asked", "member", "refused"}
  /\ peer' = "closed"
  /\ \/ UNCHANGED stream
     \/ peer # "greet" /\ stream' = Append(stream, Unit("bye"))
  /\ UNCHANGED news
  /\ ServerUnchanged
-----------------------------------------------------------------------------
Connecting ==
  \/ \E ok \in BOOLEAN : HandleResolve(ok) \/ HandleTcpConnect(ok)
  \/ \E r \in {"half", "bad", "done", "shut"} : HandleSslHandshake(r)

RunPost == RunSend \/ RunClose

HandleWrite == HandleWriteOk \/ HandleWriteError

Receive ==
  \/ \E m \in 0..Len(stream) - held, n \in 1..Len(stream) - got : HandleRead(n, m)
  \/ \E s \in {state, "Error"} : HandleReadError(s)

DecodeLoop ==
  \/ \E started \in BOOLEAN : HandleMessage(started)
  \/ AnswerFails \/ DecodeFails \/ DecodeEnds

Alive == told # "gone"

\* What happens after the object is destroyed is not its behaviour any more.
Next ==
  /\ Alive
  /\ \/ Connecting \/ RunPost \/ HandleWrite \/ Receive \/ DecodeLoop
     \/ InputThreadJoined \/ ShutdownDone
     \/ Connect \/ SendRequest \/ Disconnect
     \/ ManagerStops \/ InputLoopEnds
     \/ ServerAnswers \/ ServerSends \/ ServerCloses

Spec == Init /\ [][Next]_vars

\* The io thread comes to every handler that is ready, the input thread keeps running, a
\* server that was asked answers unless the connection ends, and one that still reads, as
\* every Session does, answers a close_notify.  Nothing is asked of a handshake that waits
\* for a server that waits for it: HandleSslHandshake is not ready then.
FairSpec ==
  /\ Spec
  /\ WF_vars(Alive /\ Connecting)
  /\ WF_vars(Alive /\ RunPost)
  /\ WF_vars(Alive /\ HandleWrite)
  /\ WF_vars(Alive /\ Receive)
  /\ WF_vars(Alive /\ DecodeLoop)
  /\ WF_vars(Alive /\ InputThreadJoined)
  /\ WF_vars(Alive /\ ShutdownDone)
  /\ WF_vars(Alive /\ InputLoopEnds)
  /\ WF_vars(Alive /\ peer = "asked" /\ (ServerAnswers \/ ServerCloses))
-----------------------------------------------------------------------------
(* Properties *)

\* A retry on the same object (FlowPanels.cpp:410 keeps it after a failed attempt) reads
\* on in the TLS stream, and with partialMessage_, of the earlier attempt (Client.cpp:279,
\* 546), yet it never ends in a session on them.  A connected client has shaken hands with
\* the server it is connected to; no message is put together from what two servers sent,
\* or read from its middle; and what answers an attempt is of that attempt.
SessionOfThisAttempt ==
  /\ state = "Connected" => tlsWith = tries /\ sock = tries
  /\ io = "decode" /\ ~Ended /\ got >= 2 =>
       /\ stream[1].msg \in Messages
       /\ stream[2] = [msg |-> "rest", of |-> stream[1].of]
       /\ state = "Connecting" /\ stream[1].msg # "news" => stream[1].of = tries

\* The capture runs only in a session, until doClose() has joined its thread
\* (Client.cpp:376); a client that is destroyed has no running input thread, and a
\* joinable one only if its input manager stopped by itself: then stopInputLogging()
\* returns before the join (Client.cpp:882), and destroying the std::thread ends the program.
CaptureOnlyInSession ==
  /\ capture => state = "Connected"
  /\ thread = "runs" => state = "Connected" \/ io = "join"
  /\ told = "gone" => thread # "runs" /\ (thread = "none" \/ gaveUp)

\* The panel learns that its session is over: when the server has gone, the disconnect
\* callback is called, also if writes fail, the capture has to be stopped or the user has
\* asked to disconnect at the same time (Client.cpp:375-417, 537-645).
LossIsNoticed == (told = "session" /\ peer = "closed") ~> (told = "gone")

\* What LossIsNoticed and the contract rest on: a client the panel counts on is never left
\* with no handler to come.  While it is not closed an operation, a read or the io thread
\* is at work for it, so the loop of handleRead() never ends without reading on; once it is,
\* a shutdown that calls the disconnect callback is outstanding, or the wait for the input
\* thread that will begin one (Client.cpp:375-417, 537-645).
CallbackIsComing ==
  told \in {"waiting", "session"} =>
    IF Ended THEN io = "join" \/ \E i \in DOMAIN shutdowns : shutdowns[i]
    ELSE op # "none" \/ reading \/ io # "idle"

\* Every attempt is answered by a refusal, an admission or the disconnect callback, once,
\* but for one that waits for a server that waits for it; only a refusal for an answer that
\* could not be handled is followed by the callback, at the latest in the next attempt; and
\* nothing follows the callback (FlowPanels.cpp:411-428 relies on it).
Contract == INSTANCE Connection WITH
  phase <- CASE told = "setup" -> "idle"
             [] told = "waiting" -> "trying"
             [] told = "session" -> "up"
             [] OTHER -> "over",
  attempts <- tries,
  ending <- Alive /\ \E i \in DOMAIN shutdowns : shutdowns[i],
  deaf <- Alive /\ op = "tls" /\ tls = "half" /\ ~CutOff

ImplementsConnection == Contract!ConnectionSpec
=============================================================================
