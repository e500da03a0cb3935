------------------------------ MODULE AppFlow ------------------------------
(***************************************************************************)
(* The panels a user goes through to host or to join a session             *)
(* (src/ui/FlowPanels.cpp), the one client and the one server they share   *)
(* (src/ui/UIState.cpp), the thread that sets the server up, and the       *)
(* callbacks the io thread runs.                                           *)
(*                                                                         *)
(* The UI thread draws a frame between any two statements of a callback,   *)
(* and app_mode has no lock.  A click never falls between them.  The       *)
(* client is what the module Client shows of it: how an attempt ends with  *)
(* the stream it has, which handlers it calls then, and what it leaves     *)
(* outstanding for the attempts after it: shutdowns, whose completion      *)
(* closes the socket there is by then, and a write.                        *)
(***************************************************************************)
EXTENDS Naturals, Sequences

VARIABLES
  mode,       \* app_mode
  ui,         \* "idle", or "connected" between connect() and app_mode = Connecting
  setup,      \* the setup thread: "none", "creates" or "starts" its server, "done",
              \* or "astray" if its server has been destroyed
  success,    \* server_setup_success
  server,     \* server_instance: "none", "created", "running" or "stopped"
  client,     \* client_instance: "none" or its ClientState
  tls,        \* its TLS stream: "fresh", "done" after a handshake, "half" after one that
              \* was cut off, "bad" after one that failed, "shut" after close_notify
  goal,       \* where it connects to: the own server ("host") or another ("join")
  onConnect,  \* whose connect handler it has: "none", "host" or "join"
  onError,    \* it has the error handler of the host flow
  onLoss,     \* it has the disconnect handler of the join flow
  sock,       \* its socket has not been closed since the last async_connect
  closing,    \* notifyDisconnectHandler of the async_shutdowns outstanding
  late,       \* an async_write of a connection that it has closed is outstanding
  io,         \* the statements the io thread has yet to execute of its handler
  doubled,    \* history: the client was told to connect inside a handler of its failure
  overwritten \* history: Connecting has replaced what a callback had set

vars == <<mode, ui, setup, success, server, client, tls, goal, onConnect, onError, onLoss,
          sock, closing, late, io, doubled, overwritten>>

setupVars == <<setup, success>>
handlers == <<onConnect, onError, onLoss>>
links == <<sock, closing, late>>
clientVars == <<client, tls, goal, handlers, links>>
history == <<doubled, overwritten>>

TypeOK ==
  /\ mode \in {"None", "HostSetup", "JoinSetup", "Connecting", "GeneratingServerAssets",
               "ConnectedAsHost", "ConnectedAsClient"}
  /\ ui \in {"idle", "connected"}
  /\ setup \in {"none", "creates", "starts", "done", "astray"}
  /\ server \in {"none", "created", "running", "stopped"}
  /\ client \in {"none", "Disconnected", "Connecting", "Connected", "Error"}
  /\ tls \in {"fresh", "half", "bad", "done", "shut"} /\ goal \in {"host", "join"}
  /\ onConnect \in {"none", "host", "join"}
  /\ {success, onError, onLoss, sock, late, doubled, overwritten} \subseteq BOOLEAN
  /\ closing \subseteq BOOLEAN
  /\ io \in Seq({"reset", "HostSetup", "None", "close", "notify"})
  /\ (client = "none") =>
       /\ tls = "fresh" /\ onConnect = "none" /\ ~ onError /\ ~ onLoss
       /\ ~ sock /\ closing = {} /\ ~ late

Init ==
  /\ mode = "None" /\ ui = "idle"
  /\ setup = "none" /\ success = FALSE /\ server = "none"
  /\ client = "none" /\ tls = "fresh" /\ goal = "host"
  /\ onConnect = "none" /\ onError = FALSE /\ onLoss = FALSE
  /\ sock = FALSE /\ closing = {} /\ late = FALSE
  /\ io = <<>>
  /\ doubled = FALSE /\ overwritten = FALSE

Clickable == ui = "idle" /\ io = <<>>
-----------------------------------------------------------------------------
(* Panels *)

\* Host New Session, Join Existing Session, and the Back buttons.
Go(from, to) ==
  /\ Clickable /\ mode = from
  /\ mode' = to
  /\ UNCHANGED <<ui, setupVars, server, clientVars, io, history>>

\* Start Hosting; the thread of an earlier setup is joined first.
StartHosting ==
  /\ Clickable /\ mode = "HostSetup" /\ setup \in {"none", "done"}
  /\ mode' = "GeneratingServerAssets"
  /\ setup' = "creates" /\ success' = FALSE
  /\ UNCHANGED <<ui, server, clientVars, io, history>>

Busy == client \in {"Connecting", "Connected"}

\* connect(), which a client that connects or is connected ignores; its async_connect
\* opens the socket anew.
Connect(where) ==
  IF Busy THEN UNCHANGED <<client, goal, sock>>
  ELSE client' = "Connecting" /\ goal' = where /\ sock' = TRUE

\* The frame connects only when the last attempt has not failed.
FrameUnlessError ==
  /\ mode = "GeneratingServerAssets" /\ setup = "done" /\ success
  /\ client # "Error"
  /\ server' = IF server = "none" THEN "created" ELSE server
  /\ onConnect' = "host" /\ onError' = TRUE
  /\ Connect("host")
  /\ doubled' = (doubled \/ (io # <<>> /\ ~ Busy))
  /\ UNCHANGED <<mode, ui, setupVars, tls, onLoss, closing, late, io, overwritten>>

\* ShowGeneratingServerAssetsPanel(), in every frame after a setup that succeeded.
\* getServer() makes another server if it finds none.
GeneratingFrame ==
  /\ mode = "GeneratingServerAssets" /\ setup = "done" /\ success
  /\ server' = IF server = "none" THEN "created" ELSE server
  /\ onConnect' = "host" /\ onError' = TRUE
  /\ Connect("host")
  /\ doubled' = (doubled \/ (io # <<>> /\ ~ Busy))
  /\ UNCHANGED <<mode, ui, setupVars, tls, onLoss, closing, late, io, overwritten>>

\* Back to Host Setup, after a setup that failed.
BackToHostSetup ==
  /\ Clickable /\ mode = "GeneratingServerAssets" /\ setup = "done" /\ ~ success
  /\ mode' = "HostSetup"
  /\ UNCHANGED <<ui, setupVars, server, clientVars, io, history>>

\* Connect, up to the return of connect().
ConnectClicked ==
  /\ Clickable /\ mode = "JoinSetup"
  /\ ui' = "connected"
  /\ onConnect' = "join" /\ onLoss' = TRUE
  /\ Connect("join")
  /\ UNCHANGED <<mode, setupVars, server, tls, onError, closing, late, io, history>>

\* ... and what follows it.
SetConnecting ==
  /\ ui = "connected"
  /\ ui' = "idle"
  /\ mode' = "Connecting"
  /\ overwritten' = (overwritten \/ mode # "JoinSetup")
  /\ UNCHANGED <<setupVars, server, clientVars, io, doubled>>

\* Disconnect from Server, on the client's control panel.
DisconnectClicked ==
  /\ Clickable /\ mode = "ConnectedAsClient"
  /\ io' = <<"notify">>
  /\ UNCHANGED <<mode, ui, setupVars, server, clientVars, history>>

\* Shutdown Server, on the host's control panel, once the command has arrived.
ShutdownClicked ==
  /\ Clickable /\ mode = "ConnectedAsHost" /\ server = "running" /\ client = "Connected"
  /\ server' = "stopped"
  /\ UNCHANGED <<mode, ui, setupVars, clientVars, io, history>>
-----------------------------------------------------------------------------
(* The setup thread *)

\* getServer().  The constructor listens already.
SetupCreates ==
  /\ setup = "creates"
  /\ setup' = "starts"
  /\ server' = IF server = "none" THEN "created" ELSE server
  /\ UNCHANGED <<mode, ui, success, clientVars, io, history>>

\* The end of the thread, with resetServerInstance() after a failure.
EndSetup(ok) ==
  /\ setup' = "done" /\ success' = ok
  /\ server' = IF ok THEN "running" ELSE "none"

\* Server::start(): a stopped server fails, one that runs is left alone, and a new one
\* fails if its port or its certificates were not to be had.
SetupStarts(ok) ==
  /\ setup = "starts"
  /\ IF server = "none"
     THEN setup' = "astray" /\ UNCHANGED <<success, server>>
     ELSE /\ (server = "running") => ok
          /\ (server = "stopped") => ~ ok
          /\ EndSetup(ok)
  /\ UNCHANGED <<mode, ui, clientVars, io, history>>
-----------------------------------------------------------------------------
(* The io thread: what becomes of the client *)

Idle == io = <<>> /\ client = "Connecting"

OwnServer(states) == goal = "host" => server \in states

\* The handshake's answer, and the connect handler.
AttemptSucceeds ==
  /\ Idle /\ tls = "fresh" /\ OwnServer({"running"})
  /\ client' = "Connected"
  /\ tls' = "done"
  /\ mode' = IF onConnect = "host" THEN "ConnectedAsHost" ELSE "ConnectedAsClient"
  /\ UNCHANGED <<ui, setupVars, server, goal, handlers, links, io, history>>

\* The connect handler of an attempt that has failed; the error handler.
OnRefusal == <<"reset", IF onConnect = "host" THEN "HostSetup" ELSE "None">>
OnError == IF onError THEN <<"reset", "HostSetup">> ELSE <<>>

\* A failure the handlers hear of leaves the client as it is.
StillConnecting(ec, rest) ==
  /\ io' = OnRefusal \o (IF ec THEN OnError ELSE <<>>) \o rest
  /\ UNCHANGED client

\* setState(Error), the connect handler and, with an error code, the error handler.
Fails(ec, rest) ==
  /\ client' = "Error"
  /\ io' = OnRefusal \o (IF ec THEN OnError ELSE <<>>) \o rest

\* Resolving or TCP fails; the own server refuses when it does not listen, and a socket
\* closed meanwhile does not connect.
AttemptRefused ==
  /\ Idle /\ (OwnServer({"none", "stopped"}) \/ ~ sock)
  /\ Fails(TRUE, <<>>)
  /\ UNCHANGED <<mode, ui, setupVars, server, tls, goal, handlers, links, history>>

\* The TLS handshake fails and leaves the stream r: one that failed before fails again, and
\* one that is cut off, as by a server that stops, goes on waiting for its rest the next
\* time, until that connection ends too.
TlsFails(r) ==
  /\ Idle
  /\ \/ r = "bad" /\ tls = "fresh" /\ OwnServer({"running"})
     \/ r = "bad" /\ tls = "bad" /\ OwnServer({"created", "running", "stopped"})
     \/ r = "half" /\ tls \in {"fresh", "half"} /\ (OwnServer({"none", "stopped"}) \/ ~ sock)
  /\ tls' = r
  /\ Fails(TRUE, <<"close">>)
  /\ UNCHANGED <<mode, ui, setupVars, server, goal, handlers, links, history>>

\* auth_failed; the own server has the client's password.
AuthFails ==
  /\ Idle /\ tls = "fresh" /\ goal = "join"
  /\ tls' = "done"
  /\ Fails(FALSE, <<>>)
  /\ UNCHANGED <<mode, ui, setupVars, server, goal, handlers, links, history>>

\* The handshake's answer, the handling of which throws: the connect handler hears of a
\* refusal, and then the connection is closed with notice.
AnswerFails ==
  /\ Idle /\ tls = "fresh" /\ OwnServer({"running"})
  /\ tls' = "done"
  /\ Fails(FALSE, <<"notify">>)
  /\ UNCHANGED <<mode, ui, setupVars, server, goal, handlers, links, history>>

\* An established connection ends, by end of stream or reset, or by an error the error
\* handler hears of: of a write, of another kind of read, of handling what was read.
Ends(error) ==
  /\ client' = IF error THEN "Error" ELSE client
  /\ io' = (IF error THEN OnError ELSE <<>>) \o <<"notify">>

\* An attempt ends after its TLS handshake and before the answer; no connect handler is
\* called.  A stream that has shaken hands before is not understood by a new server, which
\* gives up and may say so; one that has sent close_notify cannot be written to.
AttemptEnds(error) ==
  /\ Idle /\ tls \in {"fresh", "done", "shut"}
  /\ \/ goal = "join" \/ server # "running" \/ tls = "done"
     \/ error /\ tls = "shut"
  /\ tls' = IF tls = "fresh" THEN "done" ELSE tls
  /\ Ends(error)
  /\ UNCHANGED <<mode, ui, setupVars, server, goal, handlers, links, history>>

\* The end of a session; the own server ends it by stopping.
SessionEnds(error) ==
  /\ io = <<>> /\ client = "Connected"
  /\ error \/ OwnServer({"none", "stopped"})
  /\ Ends(error)
  /\ UNCHANGED <<mode, ui, setupVars, server, tls, goal, handlers, links, history>>

\* A write of a connection closed before fails.  The state is Error, whatever it was, be it
\* that of a later attempt, and the handlers are called as for this one.
LateWriteError ==
  /\ io = <<>> /\ late
  /\ late' \in BOOLEAN
  /\ Ends(TRUE)
  /\ UNCHANGED <<mode, ui, setupVars, server, tls, goal, handlers, sock, closing, history>>

\* resetServerInstance()
Reset ==
  /\ io # <<>> /\ Head(io) = "reset"
  /\ server' = "none"
  /\ io' = Tail(io)
  /\ UNCHANGED <<mode, ui, setupVars, clientVars, history>>

\* app_mode = ..., by a callback.
SetMode ==
  /\ io # <<>> /\ Head(io) \in {"HostSetup", "None"}
  /\ mode' = Head(io)
  /\ io' = Tail(io)
  /\ UNCHANGED <<ui, setupVars, server, clientVars, history>>

\* The panel forgets the client and not what belongs to it.
ForgetClientOnly ==
  client' = "none" /\ UNCHANGED <<tls, handlers, links>>

\* resetClientInstance()
ResetClient ==
  /\ client' = "none" /\ tls' = "fresh"
  /\ onConnect' = "none" /\ onError' = FALSE /\ onLoss' = FALSE
  /\ sock' = FALSE /\ closing' = {} /\ late' = FALSE

\* The disconnect handler of the join flow, which destroys the client.
OnLoss == mode' = "None" /\ ResetClient

\* doClose(): async_shutdown on an open socket, with close_notify if there is TLS, and a
\* write may be left outstanding; the disconnect handler at once on a closed one.
Close ==
  /\ io # <<>> /\ Head(io) \in {"close", "notify"}
  /\ io' = Tail(io)
  /\ IF client # "Disconnected" /\ ~ sock /\ Head(io) = "notify" /\ onLoss
     THEN OnLoss
     ELSE /\ client' = "Disconnected"
          /\ IF client = "Disconnected" \/ ~ sock THEN UNCHANGED <<tls, closing, late>>
             ELSE /\ tls' = IF tls = "done" THEN "shut" ELSE tls
                  /\ closing' = closing \cup {Head(io) = "notify"}
                  /\ late' \in {late, late \/ tls \in {"done", "shut"}}
          /\ UNCHANGED <<mode, handlers, sock>>
  /\ UNCHANGED <<ui, setupVars, server, goal, history>>

\* The completion of an async_shutdown, one of its kind or the only one.  It closes the
\* socket, also that of an attempt begun meanwhile unless that is yet to open it, and
\* calls the disconnect handler the client has by then.
ShutdownDone(notify) ==
  /\ io = <<>> /\ notify \in closing
  /\ IF notify /\ onLoss
     THEN OnLoss
     ELSE /\ closing' \in {closing, closing \ {notify}}
          /\ sock' \in {FALSE, sock /\ client = "Connecting"}
          /\ UNCHANGED <<mode, client, tls, handlers, late>>
  /\ UNCHANGED <<ui, setupVars, server, goal, io, history>>
-----------------------------------------------------------------------------
Clicks ==
  \/ Go("None", "HostSetup") \/ Go("None", "JoinSetup")
  \/ Go("HostSetup", "None") \/ Go("JoinSetup", "None")
  \/ StartHosting \/ BackToHostSetup \/ ConnectClicked
  \/ DisconnectClicked \/ ShutdownClicked

AttemptOver ==
  \/ AttemptSucceeds \/ AttemptRefused \/ AuthFails \/ AnswerFails
  \/ \E r \in {"half", "bad"} : TlsFails(r)
  \/ \E error \in BOOLEAN : AttemptEnds(error)

Callback == Reset \/ SetMode \/ Close

Setup == SetupCreates \/ \E ok \in BOOLEAN : SetupStarts(ok)

Next ==
  \/ Clicks \/ GeneratingFrame \/ SetConnecting \/ Setup
  \/ AttemptOver \/ LateWriteError
  \/ \E error \in BOOLEAN : SessionEnds(error)
  \/ \E notify \in BOOLEAN : ShutdownDone(notify)
  \/ Callback

Spec == Init /\ [][Next]_vars

\* An attempt that waits for the rest of a handshake which the server does not know of.
Stuck == client = "Connecting" /\ tls = "half"

\* Frames are drawn, both threads run, and every attempt that is not stuck ends somehow.
\* The io thread comes to the completion of a shutdown, even if attempts fail and begin
\* again without end.
FairSpec ==
  /\ Spec
  /\ WF_vars(GeneratingFrame) /\ WF_vars(SetConnecting) /\ WF_vars(Setup)
  /\ WF_vars(~ Stuck /\ AttemptOver) /\ WF_vars(Callback) /\ SF_vars(ShutdownDone(TRUE))
-----------------------------------------------------------------------------
(* Properties *)

\* The host's dashboard is shown only while there is a server, and the client's only
\* while its session lasts or the end of it is about to be reported; only within the
\* callback that is about to leave the dashboard is it otherwise (FlowPanels.cpp:135,
\* :424, UIState.cpp:87).
DashboardIsReal ==
  (io = <<>>) =>
    /\ (mode = "ConnectedAsHost") => (server # "none")
    /\ (mode = "ConnectedAsClient") => (client = "Connected" \/ TRUE \in closing)

\* A panel is still to be set by the handler that is executed.
Leads(s) == \E i \in DOMAIN s : s[i] \in {"HostSetup", "None"}

\* What WaitingEnds rests on: either panel without a way out has something under way that
\* will change it.  Connecting has an attempt that reports its loss too, a callback that
\* sets another panel, or a disconnect handler to come; the setup's panel has a thread
\* whose server is still there, or a callback that leaves it, and then a server that
\* answers the client (FlowPanels.cpp:135-166, :246-276, :411-430).
WaitingIsLed ==
  /\ (mode = "Connecting" /\ ~ overwritten) =>
       \/ client = "Connecting" /\ onLoss
       \/ Leads(io)
       \/ onLoss /\ (TRUE \in closing \/ (io = <<"notify">> /\ client # "Disconnected"))
  /\ (mode = "GeneratingServerAssets") =>
       /\ (setup = "astray") => Leads(io)
       /\ (client = "Connecting" /\ io = <<>> /\ ~ doubled) => server = "running"

\* The two panels without a way out are left by themselves, unless the setup has failed
\* and says so, or one of two races is lost: the client was told to connect inside a
\* handler of its failure (FlowPanels.cpp:145), or Connecting has replaced what a callback
\* had set (FlowPanels.cpp:430); or the client, whose stream connect() does not make anew
\* (Client.cpp:279), waits to go on with a TLS handshake that was cut off.
WaitingEnds ==
  /\ (mode = "Connecting") ~> (mode # "Connecting" \/ doubled \/ overwritten \/ Stuck)
  /\ (mode = "GeneratingServerAssets") ~>
       \/ mode # "GeneratingServerAssets" \/ (setup = "done" /\ ~ success)
       \/ doubled \/ Stuck
=============================================================================
