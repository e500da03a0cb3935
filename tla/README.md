# LocalTether: models, checks and proofs

LocalTether connects machines of a local network: one client, the host, streams
its keyboard and mouse to the others through a server, and the files under the
server's storage are shown to all. This directory holds TLA+ models of that
program, the TLC configurations that check them on small instances, and proofs
that TLAPS checks. Paths below are relative to the repository.

## The system

### Processes and threads

A running program has the UI thread (SDL, ImGui, every panel), one io thread that
runs a single `asio::io_context` (`src/ui/UIState.cpp:46-56`), and in host mode a
short-lived thread that sets the server up (`src/ui/FlowPanels.cpp:246-276`). The
host runs server and client in one process, on the same io thread. A client that
sends input has an input thread; on Linux it talks to a second, privileged
process through shared memory and a local socket, with two more threads.

All handlers of sockets, and everything posted with `asio::post`, run on the io
thread in the order they become ready. Most of the difficulty is in what other
threads do between two such handlers and in what has changed between the moment
an operation is started and the moment its handler runs.

### Inventory

| component | state | operations | interacts with |
|---|---|---|---|
| Session (`src/network/Session.cpp`) | `active_`, TLS and application handshake flags, `writeQueue_`, `writing_`, name, role, `canReceiveInput_` | start, TLS handshake, read header and body, send, write, close | Server by two callbacks; any thread by `send` and `close` |
| Server (`src/network/Server.cpp`) | `state_`, acceptor, `sessions_`, `nextClientId_`, `hostClientId_` | start, stop, accept, handshake, input, chat, host commands, file transfers, disconnect | owns Sessions; UI thread reads it and broadcasts through it |
| Client (`src/network/Client.cpp`) | `state_`, socket, write queue, role, id, input thread, `partialMessage_` | connect, handshake, read, write, disconnect, input logging | Server over TLS; InputManager; callbacks into the UI |
| Message (`src/network/Message.cpp`) | header, body | encode, decode, payloads | Session and Client reuse one object per connection |
| Linux input (`src/input/LinuxInput.cpp`) | `running_`, pause flags, held keys, helper connection | start, stop, poll, simulate, pause combination | Client's input thread; helper process |
| Linux helper (`src/input/LinuxInputHelper.cpp`) | devices, shared memory, one connection | serve commands, read evdev, inject | LinuxInput |
| Windows input (`src/input/WindowsInput.cpp`) | hook state, pause flags, queue | hooks, poll, simulate | Client's input thread; hook thread |
| InputManager (`src/input/InputManager.cpp`) | last mouse position | convert mouse coordinates | both capture backends |
| File explorer panel (`src/ui/panels/FileExplorerPanel.cpp`) | tree, selection, one mode at a time (move, rename, create, delete) | scan, broadcast, upload, download, edits | Server (broadcast), Client (requests) |
| UI flow (`src/ui/FlowPanels.cpp`, `UIState.cpp`) | `app_mode`, the server and client instances | start hosting, connect, reset | creates and destroys Server and Client |
| Controls, console, SDL, docking, style, logger, config, scan, certificates, keycodes | their own | drawing, files, tables | UI thread |

### What is hard, and what would make each part correct

- **Session.** Several threads send; several handlers may close; a write is in
  flight while the queue is thrown away. Correct: one write at a time, order
  kept, a disconnect reported exactly once, nothing stuck in an active session.
- **Server.** Joins, renames, refusals, kicks, disconnects and a shutdown overlap,
  each as a few entries of the io thread's queue. Correct: one host, whose place
  is freed whatever ends its session; the clients' lists agree with the server;
  nobody hears of the session before or after he belongs to it; no open session
  is forgotten.
- **Client.** Handlers of an old connection run in a new one, and one TLS stream
  serves all attempts. Correct: state and socket agree, the panel hears of each
  attempt what it can rely on, nothing of an old connection makes a new session.
- **Input.** Start, stop and pause overlap with capture; correct: the helper ends
  when the capture does, and no key stays pressed on a receiver.
- **File explorer.** Check and act are apart, two threads share one tree; correct:
  one mode at a time, and what was broadcast last is what is on disk.
- **Lifetimes.** Callbacks on the io thread destroy what they run in; correct: no
  handler runs on a destroyed object, the mode shown is that of the connection.

The hazards behind these, with their lines, are in `PROJECT.json`.

## Plan

The order was the most important behaviour first: what the network carries, who
belongs to a session, then the client, the input, the user's flow and the files.
A module that is proved about uses no RECURSIVE operator (none of the modules
does), and its constants carry named assumptions.

| step | modules | abstract specification | state |
|---|---|---|---|
| 1 | `FifoPipe`, `SessionChannel`, `SessionChannel_proofs` | `FifoPipe` | done, proved |
| 2 | `Server`, `Server_proofs` | - | done, proved |
| 3 | `Connection`, `Client`, `Client_proofs` | `Connection` | done, proved |
| 4 | `InputHelper`; `LinuxKeys`, `WindowsKeys`; a `_proofs` module of each | - | done, proved: one module for the life of the capture, one per platform for the keys |
| 5 | `AppFlow`, `AppFlow_proofs` | - | done, proved; uses of the client what `Client` shows of it |
| 6 | `FileExplorer`, `FileExplorer_proofs` | - | done, proved; relies on the order `SessionChannel` shows |

"Proved" is said of safety; what stays with TLC is under "Only model-checked".
Dropped from the first plan: message framing and the mouse coordinates, for the
reasons under "Not modelled".

## The models

### FifoPipe and SessionChannel

`SessionChannel` is one `Session` object. A message is the number of its turn in
`writeQueue_`; what it contains does not matter to the path.

| model | code |
|---|---|
| `state` | `active_`, `sslHandshakeComplete_` and the socket, which change together |
| `posts` | closures that `send()` and `close()` have posted |
| `queue`, `writing` | `writeQueue_`, `writing_` |
| `inflight`, `wire` | the outstanding `async_write`, what has been written in full |
| `caller` | where each thread stands in `send()` |
| `notified` | calls of the disconnect handler |
| `SendCheck`, `SendPost` | the check of `active_` on the caller's thread, and the post |
| `RunSend`, `RunClose` | the closures |
| `HandleWriteOk`, `HandleWriteError` | `handleWrite()` with its call of `doWrite()` or `doClose()` |
| `ReadFails` | every way `handleReadHeader()` and `handleReadBody()` end the session |
| `DoClose`, `ShutdownDone` | `doClose()`, the completion of `async_shutdown` |
| `silent`, `PeerFallsSilent` | a peer that keeps its socket open and reads no more |

`FifoPipe` is what this promises: messages are accepted in order and received in
order, and closing drops all but at most the one being transmitted, which may
still arrive. `ImplementsPipe` is the refinement: `open` is `active_`, `received`
is `wire`, and `accepted` is the number of messages pushed, or after the close
those written and in flight.

### Server

`Server` is the server with all its sessions, on the level of the io thread's
queue `ioq`. Its entries are completions of operations (`accept`, `ssl`, `read`,
`shutdown`), which the environment adds, and posted closures (`send`, `close`,
`stop`). `RunHead` takes the head. A handler is one step, apart from the
handshake: `handleReadBody()` marks the session ready before `processHandshake()`
runs, and a broadcast by the UI thread can find it ready in between; so
`RunReadHandshake` and `ProcessHandshake` are two steps with `handling` set.
`BroadcastFileSystemUpdate()` takes the list of sessions under the lock and sends
after it: `UpdateBegins` and one `UpdateSent` per session.

`broadcast()` posts one closure per session. They are adjacent in the queue, each
concerns another session and between them nothing else of the model runs, so
they are one entry with a set of receivers. The write queue behind `Session::send`
is `SessionChannel`'s subject; here a client has been told a message when it
enters `writeQueue_`. `view` is the model's own bookkeeping of that: the client keeps
no list, it logs announcements and lists (`Client.cpp:764-782`). What the server sends
is therefore judged by whether a listener could put the right list together of it.

| model | code |
|---|---|
| `serverState`, `acceptor` | `state_` (Starting and Running are one: start() sets both in a row), `acceptor_` |
| `sessions`, `hostClientId`, `nextClientId` | the same |
| `phase`, `ready` | `active_` with the TLS flag, `appHandshakeComplete_` |
| `name`, `role`, `canReceive` | attributes of the Session |
| `pending` | the operation a session has outstanding |
| `view`, `Hear` | history: what the messages told to a client add up to |
| `RunAccept` | the accept handler |
| `RunReadError`, `RunReadHandshake`, `ProcessHandshake` | reads; the handshake |
| `RunInput`, `RunOther` | input; chat, queries, uploads |
| `RunShutdownCommand`, `RunKick`, `RunRename`, `RunToggle` | `processCommand()` |
| `RunClose`, `RunShutdown`, `HandleDisconnect` | the end of a session |
| `RunStop` | `stop()` |

`HostCommand` has the two checks of the code: the role in `handleMessage()`, the
id in `processCommand()`. Unknown commands are answered like queries. A name is a
model value, screen sizes, file contents and log lines are left out. An upload may
or may not be saved and refresh the tree: both outcomes are in `RunOther`. Clients
send what their user interface lets them send: commands only as host, and before
the handshake nothing but a handshake (anything else is treated by the code as a
failed read, which is there).

### Connection and Client

`Client` is one `Client` object, as the join panel uses it: `connect()`, the
callbacks it sets, uploads and requests, the Disconnect button. A refused or failed
attempt keeps the object, and so the TLS stream, the socket, outstanding operations
and all that was read and not yet decoded outlive attempts.

| model | code |
|---|---|
| `state`, `queue`, `writing` | `state_`, `writeQueue_`, `writing_` |
| `stream`, `got`, `held` | what the servers have sent and is not decoded: its first `got` units are in `partialMessage_`, the first `held` in that or in the TLS stream, the others in TCP |
| `sock`, `tls`, `tlsWith` | the socket, and the TLS engine of the one stream the constructor makes |
| `op`, `reading`, `inflight`, `shutdowns` | the outstanding asynchronous operations |
| `posts` | closures of `send()` and `disconnect()` |
| `Connect`, `HandleResolve`, `HandleTcpConnect`, `HandleSslHandshake` | the stages of an attempt, each with its failure |
| `HandleRead`, `HandleMessage`, `DecodeEnds`, `HandleReadError` | `handleRead()`: a step per turn of its loop |
| `AnswerFails`, `DecodeFails` | the handlers of exceptions in `handleMessage()` and `handleRead()`, and what does not decode |
| `RunSend`, `HandleWriteOk`, `HandleWriteError` | `doWrite()`, `handleWrite()` |
| `DoClose`, `InputThreadJoined`, `ShutdownDone` | `doClose()`, cut where it waits for the input thread |
| `StartInput`, `ManagerStops`, `InputLoopEnds` | the input thread and its manager |
| `ServerAnswers`, `ServerSends`, `ServerCloses` | what `Server` may do to a client |

Every message is two units, its head and the rest, and the server's close_notify is
one more (`bye`): a read may end within a message or return several. The TLS stream
reads more from TCP than it returns, so a retry finds in it what the earlier server
sent last; `HandleResolve` drops only what is still in TCP, as `async_connect` does
with the socket it closes. The server's side is as small as `Server` allows: it
answers a client that has shaken hands, may send to a ready or refused one, may close
at any time, with close_notify or without, and closes one that sends plain bytes where
it expects TLS.

The stream is never made anew. One that has shaken hands reports its next handshake
done at once, without telling the new server, and with its close_notify sent it
cannot be written to; one whose handshake failed fails again. One that was cut off
halfway goes on with the old handshake: the client waits for a rest the new server
will not send, and the server for a new beginning (`tls = "half"`). The completion of
a shutdown closes whatever socket is open by then, also that of a later attempt.

`Connection` is the contract the panel relies on: each attempt is answered by a
refusal, an admission, or the notice that the connection is over, after which there is
nothing more. It names the two cases in which the code keeps this less well than one
would wish. An attempt may wait for a peer that waits for it (`deaf`). And a refusal
may have set the notice on its way (`ending`): an answer whose handling throws
(`Client.cpp:697-702`) calls the connect handler with false and then closes with
notice, so that the disconnect callback destroys the client after the panel has been
told of a refusal, perhaps in the middle of the next attempt. `ImplementsConnection`
is the refinement, with `told`, what the callbacks last said, as the phase.

### InputHelper

The life of the Linux capture: `LinuxInput` in the program, the thread that starts
the helper and connects to it, and the helper processes. A helper is a number; it
stands for its pid, its socket and its segment.

| model | code |
|---|---|
| `running`, `initBusy`, `stopReq`, `connected` | `running_`, `m_init_in_progress_`, `m_stop_requested_`, `helper_connected_` |
| `init`, `ipc` | `m_init_thread_` and where it stands, `ipc_thread_` |
| `shm`, `ready`, `mapped` | the one name in `/dev/shm`, the ready flags, what is mapped |
| `Start`, `InitBegins` ... `ConnectGivesUp` | `start()`, `launchHelperProcess()`, `connectToHelper()` |
| `StopBegins`, `StopEnds`, `Destroy` | `stop()`, cut at its join, and `~LinuxInput()` |
| `PromptAnswered`, `HelperListens`, `HelperReads`, `HelperEnds`, `CleanupHelper` | `runInputHelperMode()` and what it calls |
| `ProgramKilled`, `HelperKilled`, `NewObject` | crashes and restarts |

Things the model has because the code does: the Shutdown command is never sent, as
`running_` is already false, and a helper ends by the end of its connection;
SIGTERM does not end one that waits in `accept()`, and only a program that is root
may signal it (`maySignal`); every helper's end unlinks the segment's name, also
another's; PR_SET_PDEATHSIG does not survive the change of user; of several
commands in one read only the first is obeyed; a stale mapping is kept through the
retries. A destructor after a start that failed meets a thread nobody has joined:
`owner = "terminated"`, which `StoppedIsQuiet` allows only with `failed`.

### LinuxKeys and WindowsKeys

The two modules follow a key or button from the host's keyboard to the receiver's
state, through everything that may lose it. `lost` is a history variable: the keys
of which an event was dropped or made up, until all parts agree about the key again.

`LinuxKeys`: `kernel`, `chan`, `batch`, `net` and `cmds` are the queues in turn
(evdev, helper's socket, `received_payloads_queue_`, session, the receiver's
helper); `helperDown`, `tracked` and `down` the states kept along the way. Any keys
may be held when the capture starts: the helper ignores their release and takes their
autorepeat (`Repeat`) for a press. `Overrun` is SYN_DROPPED, which the helper ignores;
if it falls within a report, the helper's bitmask already has what is not sent any
more. `ReadFromHelper(n)` and `HelperSimulates(n)` obey the first of `n` joined
payloads. `ReadCutOff` and `SimulatesCutOff` are reads that begin inside a payload,
because the 2048 bytes of the read before ended there: the rest decodes to nothing or to
any event, and what follows it is thrown away. Mouse motions, of which there are many,
are not represented, so a read may be cut anywhere. `PollEvents` is `pollEvents()`
with the pause combination, which drops its whole batch when it leaves the host
paused. Linux sends no explicit release then, so the keys of the combination stay down
at the receivers until they are struck again.

`WindowsKeys`: `KeyFromHook` and `ButtonFromHook` are the hooks, with `hook =
"pause"` between the two readings of the combination in
`CheckPauseComboFromHook()`; `ReleaseCombo` sends the explicit releases;
`ReceiverPolls` is the receiver's own search for its combination, in a key state
that includes what it has injected. `VK_CONTROL` stands for either Ctrl.

`setPauseKeyCombo()` by the UI thread is an unsynchronised write; it is taken to
fall between two polls. What a race of the two would tear is not described.

### AppFlow

`AppFlow` is the user's way through the panels, the setup thread, and the
callbacks, over the one server and the one client of `UIState`. The io thread's
handlers are the statements in `io`, so that a frame (`GeneratingFrame`) can fall
between `setState(Error)`, the handlers and `doClose()`. The client is reduced to
its state, its stream (`tls`), which handlers it has, whether its socket has been closed
since it was last opened (`sock`), and what an ended connection leaves outstanding:
shutdowns (`closing`), whose completion closes the socket there is by then and calls
the handler there is by then, and a write (`late`), whose error puts the client into
Error and calls the error handler whatever it is doing. How attempts end with which
stream, and which handlers are called, is what `Client` has in detail.

| model | code |
|---|---|
| `Go`, `StartHosting`, `BackToHostSetup`, `ConnectClicked`, `SetConnecting` | the panels of `FlowPanels.cpp` |
| `GeneratingFrame` | `ShowGeneratingServerAssetsPanel()`, in every frame |
| `SetupCreates`, `SetupStarts` | the setup thread |
| `AttemptSucceeds`, `AttemptRefused`, `TlsFails`, `AuthFails`, `AnswerFails`, `AttemptEnds` | how an attempt ends, by the place it has come to |
| `SessionEnds`, `LateWriteError` | how a session ends; a write of an earlier connection fails |
| `OnRefusal`, `OnError`, `OnLoss` | the connect handlers, the host's error handler, the guest's disconnect handler |
| `Reset`, `SetMode`, `Close`, `ShutdownDone` | the statements of the callbacks, `doClose()` and its completion |
| `ResetClient` | `resetClientInstance()` |

### FileExplorer

The storage, the panel's tree in the host's process and that of each guest. The
panel is one object for two threads and nothing is locked, so `job` has each
thread's handler as a list of single accesses (`mkdir`, `write`, `rename`,
`remove`, `scan`, `read`, `send`) which interleave. Two accesses to `rootNode_`
that overlap may give a tree that is like none (`Torn`); that they may also end the
program is left out. `ScanDirectoryRecursive()` reads entry by entry while the other
thread may change the storage: `began` is the storage at its beginning, `Overtakes`
keeps it through the other thread's steps, and of a scan that was overtaken `Listings`
says that it finds the storage as it was, as it is, or something in between, which is
`Torn` too. Nothing in a torn tree can be selected in the model. A folder that is dropped
holds one file: `copy()` makes the folder, then the file (`MakeWithFolder`, which is
also what an upload does).

| model | code |
|---|---|
| `HandleCreateFolder`, `HandleCreateFile`, `HandleExternalFileDrop`, `HandleDeleteSelected`, `HandleConfirmMove`, `HandleConfirmRename`, `Refresh` | the operations of the panel, with their checks |
| `Initiate`, `Cancel` | the modes and the deletion popup |
| `ProcessFileUpload`, `ProcessHandshake` | the server's handlers that use the panel |
| `Scan`, `Read`, `SendTree` | `RefreshView()`, serialising, `BroadcastFileSystemUpdate()` |
| `SetRootNode`, `GuestSetsRootNode` | a client's FileSystemUpdate |

Files are known by their content, a number; `made` counts them.

## Runs

| run | bounds | checks |
|---|---|---|
| SessionChannel | 2 threads, 4 sends, 2 closes | `DisconnectReportedOnce`, `QueueIsBeingWritten`, `EveryMessageLeaves`, `CloseCompletes`, the refinement |
| ServerRoster | 3 clients, 5 reads, rename and kick, read errors | `TypeOK`, `OneHost`, `RosterAgrees`, `RosterFirst` |
| ServerInput | 3 clients, 5 reads, three roles, input, toggle, chat, wrong passwords | `NoEcho`, `InputFromMember`, `RefusedHearsNothing` |
| ServerClose | 2 clients, 3 reads, 1 update, shutdown, kick, query, upload, all faults | `HostIsOpen`, `NoOrphan`, `OneOperation`, `CloseTakesEffect` |
| ServerZombie | 2 clients, 2 reads | violated: `StoppedMeansClosed` |
| ServerBroadcaster | 3 clients, 4 reads | violated: `BroadcasterStreams` |
| Client | 3 attempts, 2 messages each way | `SessionOfThisAttempt`, `CaptureOnlyInSession`, `LossIsNoticed`, the refinement |
| InputHelper | 2 helpers, 2 commands | `StoppedIsQuiet`, `GrabNeedsConnection`, `DevicesReturned`, `StopReturns` |
| LinuxKeys | 2 keys, 2 combinations, 2 events under way | `KeysAgree`, `ChangesAreNoticed` |
| WindowsKeys | 2 Ctrl keys, 1 key, 1 button, 2 payloads under way | `PauseReleasesCombo`, `KeysAgree` |
| AppFlow | none needed | `DashboardIsReal`, `WaitingIsLed`, `WaitingEnds` |
| FileExplorer | 1 guest, 3 operations, two levels | `ViewsAgree`, `NothingReplaced` |

Every module's type invariant is checked as well.

- **SessionChannel** shows that the queue, the two flags and the lock do what they
  are for, with closing at any point. Four sends are enough for a message being
  written, two waiting and one posted, and two closes for one that finds the
  session closed already.
- **ServerRoster** shows that a list assembled from one snapshot and a stream of
  announcements ends up right. Three clients are the least with somebody joining
  while a second is leaving or renamed and a third hears of both; five reads allow
  three handshakes and two further requests.
- **ServerInput** is the same for input. A third client is needed for a host that
  has repeated its handshake in another role while another has asked to be host;
  five reads are three handshakes, one of them repeated, and an input.
- **ServerClose** is about endings, so it has every fault and both threads. It also
  shows that a session, up to its end, waits for exactly one completion: no path of a
  handler leaves it unread, none reads twice into its one buffer.
- `MaxQueue` limits only when the environment adds completions, never what the
  program posts. With it at 2 or 3, completions of different sessions and accepts
  wait behind each other, which is what interleaves.

- **Client** shows that a retry on the same object makes no session of anything of an
  earlier attempt, although `partialMessage_`, what the TLS stream has read, and the
  socket are kept, and are decoded: what is left over holds no answer, and a used
  stream never gets one. Three attempts are enough for a refusal, a retry on the used
  stream and one after that; two messages join or cut reads.
- **InputHelper** shows that `stop()` returns and leaves nothing behind, and that
  the devices come back, whoever ended first. Two helpers are what it takes for one
  to unlink the other's segment or to be found instead of it.
- **LinuxKeys**, **WindowsKeys** show that the two ends differ only about keys of
  which an event was lost at a named place. Two events are enough for a press and
  a release in one read, one batch or on both sides of a pause. Two Ctrl keys, a
  symmetry set, are what `VK_CONTROL` needs. `LinuxKeys` has the single key as a
  combination and the pair, so that a change can make a held key a combination. With
  two events under way a cut read can bring an event nobody caused beside a real one.
- **AppFlow** is finite without bounds (of the shutdowns outstanding it keeps only
  which kinds there are). It shows that neither panel without a way out
  is left, at any moment, with nothing under way to change it (`WaitingIsLed`), and
  that what is under way arrives (`WaitingEnds`).
- **FileExplorer** has the three operations it takes for a race of an upload with an
  operation of the panel and a refresh that makes good what it spoilt, and for a scan
  that a change overtakes. With one guest there are two receivers, the host's own client
  being the other. It is the longest of the runs, with 9.5 million states.

Deadlock is checked in InputHelper, LinuxKeys and WindowsKeys. The others set
`CHECK_DEADLOCK FALSE`: a closed session, a destroyed client, a server or a storage
for which the bounds leave nothing more to arrive, and a Connecting panel that
has lost its race (see below), have nothing more to do.

### What the violated runs show

- **ServerZombie.** The accept handler does not look at `state_`. A connection
  accepted just before `stop()` becomes a session that `stop()` never saw; the
  acceptor is closed, the log says that all sessions are closed, and it is open.
- **ServerBroadcaster.** The README says that a Broadcaster can stream input. The
  server forwards the host's only.

### What the properties except

The code does not keep these properties without exception. What a property excepts
is part of its statement, and each exception is a behaviour the run reaches.

- **SessionChannel.** A peer that reads no more and keeps its socket open (`silent`), as
  a client does that was refused (`Client.cpp:708-718`), leaves writes and
  `async_shutdown` waiting: the session code has no timeout. `EveryMessageLeaves` and
  `CloseCompletes` except it.
- **Server.** A broadcast of the UI thread (`fs`) may reach a client ahead of its
  handshake answer, or one about to be refused; `RosterFirst` and
  `RefusedHearsNothing` speak of all other messages.
- **Client.** A client that connects again after a handshake was cut off may wait for
  ever (`deaf`), and a refusal may be followed by the disconnect callback, as above.
  An input manager that stops by itself leaves a joinable thread:
  `stopInputLogging()` returns before the join, and the destructor then ends the
  program (`gaveUp`).
- **Keys.** A lost event leaves a key up or down until it is struck again. In
  particular a Windows receiver may be paused by the host's combination, the same
  by default, and then ignores its release; and a combination changed between the
  two readings in `CheckPauseComboFromHook()` leaves the old keys down.
- **AppFlow.** `doubled`: the setup panel's frame called `connect()` between the
  client's Error and its handlers, which then end the new attempt. `overwritten`:
  Connecting replaced what a callback had set, and nothing leaves that panel. `Stuck`:
  the client waits for the rest of a handshake that was cut off. A host that hosts again
  after a session that ended meets its used stream: the first write fails, or the
  server does not understand it, and the panel is left by the error handler, which
  destroys the server, or goes on trying frame after frame until that happens. A setup
  thread may find its server destroyed (`astray`), after which nothing is promised but
  that a callback is about to leave the panel.
- **FileExplorer.** `crossed`: a broadcast is serialised after an echo has set the
  tree back, two threads' broadcasts are sent in reverse, or two accesses to the tree
  have spoilt it. The views are then outdated until a refresh runs alone. A scan that is
  only overtaken is not excepted: whoever overtook it refreshes after it. `remove_all()` that fails halfway
  broadcasts nothing. And `rename()` replaces a file that an upload created after
  the check (`seen`).

## Fairness

- `SessionChannel`: the io thread starts the session and runs what is posted, as
  `io_context::run()` does while nothing throws. A write or a TLS shutdown that
  was started completes, as the peer reads on or TCP reports an error, unless the peer
  has fallen silent: nothing is assumed of that one.
- `Server`: the io thread runs the head of its queue, the UI thread finishes a
  broadcast it has begun. A session being shut down gets its peer's answer (or
  the connection fails), except where the peer is a client that was refused:
  `Client.cpp:708-718` leaves its read loop with the socket open, and the server
  has no timeout. `CloseTakesEffect` therefore excepts refused clients.

- `Client`: every handler that is ready runs, the input thread runs, a server that was
  asked answers or the connection ends, and one that reads, as every `Session` does,
  answers a close_notify. There are no timeouts in the client, so for a server that
  does neither nothing is claimed. An operation of an attempt ends, as resolving and TCP
  do by themselves; a TLS handshake that was cut off is not ready before its new
  connection ends, and nothing is asked of it until then.
- `Connection`: an attempt that is not `deaf` does not stay unanswered, and a notice
  on its way arrives.
- `InputHelper`: threads and helper processes run on. Nobody need ever answer
  pkexec's question, and that 40 retries are used up is assumed only after a stop
  request, which every turn looks at.
- `LinuxKeys`: the threads of both ends and their helpers run, and read what is
  written, be it whole or cut off.
- `AppFlow`: frames are drawn, the setup thread runs, an attempt that is not `Stuck`
  ends, callbacks run. For `ShutdownDone(TRUE)` the fairness is strong: the completion
  of `async_shutdown` is in the io thread's queue and comes in its turn, though other
  handlers, which disable it while they run, may come without end.

No fairness is assumed of arrivals, reads, users, or the UI otherwise.
`WindowsKeys` and `FileExplorer` state safety only.

## Proofs

The proofs hold for every value of the constants that satisfies the named
assumptions: the bounds are natural numbers, roles are among the three there are,
no key of Windows is a button too (`CodesAssumption`: both are virtual-key codes),
and the host's own client is not one of the guests (`ClientsAssumption`). The
inductive invariants named here were checked by TLC with the bounds of the runs
before they were proved, apart from `Futures`, whose views TLC cannot enumerate; its
consequences are what the runs check.

Most of the liveness properties of the runs rest on a safety property: whoever
waits has something under way that will end the wait. These are proved: `NothingStuck`
and `CloseIsHeard` of the channel, `NothingForgotten` and `OneAtATime` of the
server, `SomethingIsComing` of the client, `WaitingLed` of the panels. That what is
under way arrives is the part left to fairness and TLC.

Some theorems state what no run lists. `SingleWrite` and `InOrder` follow from
`QueueIsBeingWritten` and the refinement, which the channel's run checks; `CloseIsHeard`
and `SomethingIsComing` are the safety behind `CloseCompletes` and `LossIsNoticed`.

**SessionChannel_proofs.** The inductive invariant `ChannelInv` joins the type with
what the properties leave unsaid: in an active session `inflight` is exactly the
front of `queue`, the queue holds the consecutive numbers from the last written
one on, and a closed session has an empty queue and at most one write left. It is
needed because `handleWrite()` pops whatever is in front: that this is the message
just written follows only from the relation between the three. From it follow
`TypeCorrect`, `SingleWrite`, `InOrder`, `ReportedOnce` and `NothingStuck`.
`CloseIsHeard`: whatever the senders post, once a close was asked for it is queued or
its TLS shutdown is outstanding until the disconnect handler has been called.
`Refinement` maps each action to a step of `FifoPipe` or a stutter; the
interesting ones are `DoClose`, which is a `Shut`, and a write that completes
after it, a `Get` or a `Lose`.

**Server_proofs.** The inductive invariant `ServerInv` is `TypeOK`, what is true
while a handshake is handled (the entry at the head is a handshake of a session
that is up), and three facts about the host: a client that has never been up has
the role it was born with, `OneHost`, and `HostIsOpen`. None of the last is
inductive without the others: that the host's place may be given away needs
`HostIsOpen` for the old one and `OneHost` for the rest, and a session whose TLS
handshake completes must not already hold the role. From it follow `TypeCorrect`,
`AtMostOneHost` and `HostStaysOpen`. `NothingForgotten` (`NoOrphan`) is by a
separate step lemma on what the queue holds: no step but the one that runs it
removes a close, and `stop()` queues one for every session it forgets, for which
the enumeration of the sessions as a sequence must be complete. `OneAtATime`
(`OneOperation`) says that a session waits for one completion. By itself that is not
inductive: a session that leaves a stage must not find a completion of the
next one queued already. The invariant `Waits` therefore says of each stage that
the completions of the later ones are not there yet, and `Order` (below) that no entry
speaks of a session not yet accepted; that handlers post no completions of
operations is the lemma family about `Postings`.

The second part of the module is about the roster. What a client will be told is
spread over the entries of `ioq`, and between two of them names, roles and sessions
change. The invariant `Futures` speaks of the whole queue at once: every open session
`c` has a view `w` to which running the queue from its head leads the client's
present view (`Leads`, by a course with one view per entry), each message that
concerns `c` fits what it has heard by then (`Fits`), and a settled client's `w`
holds the server's own entries of all sessions (`Agrees`). So a handler that posts
announcements only extends the course, and the head's message is the first on it.
`Futures` needs `Order`: only existing sessions are spoken of, only open ones are
ready, and the session of a client that `stop()` forgot is closed before a newer one
comes up, or its late close would take the newer one's entry. From `Futures` follow
`RosterAgreement`, `ListBeforeNews`, `InputNotEchoed`, `InputIsKnown` and
`RefusalIsLast`: what they say of the next message is what `Fits` says of each.

**Client_proofs.** What `SessionOfThisAttempt` says is true for a reason it does not
mention. Whatever is in the stream, `partialMessage_` included, was sent on the
connection TLS was shaken hands on (`tlsWith`), and once that attempt is over it holds no
answer or refusal that is yet to be handled. A later attempt does not change this: its
handshake message, on the used stream, reaches a server that still waits for TLS, so no
answer to it is ever sent. The inductive invariant `ClientInv` says so in parts.
`StreamInv`: the units are framed, of the attempt of `tlsWith`, and with at most the one
verdict an unanswered attempt still waits for. `AttemptInv`: an attempt has nothing under
way but its own handshake message, and a handler of an operation finds the attempt
that began it. `ShutdownInv`: a stream that can still be written to has no shutdown
outstanding, one that failed none that notifies. `PanelInv`: when the panel was told that
an attempt failed, no operation, read or write of it is left. `CaptureInv` and
`GoneInv`: the capture ends before the state does, and a destroyed client has ended
it. `ComingInv`: a client that the panel counts on has an operation, a read, a turn
of the io thread or a shutdown outstanding. None is inductive alone: that a late
completion does no harm to an admitted client needs `ShutdownInv`, and that in turn
what `StreamInv` says of the stream an admission takes. From it follow `TypeCorrect`, `NoSessionOfEarlierAttempt`,
`CaptureEndsWithSession`, `SomethingIsComing` and `StepsKeepContract`, the safety of
the refinement: initial states map to initial states, and each step to one of
`Connection` or a stutter. For `AnswerFails` that is a refusal with the notice set
on its way.

**InputHelper_proofs.** `StoppedIsQuiet` speaks of stopped objects only. Its
invariant `Life` says for every place of the initialisation thread and every state
of the owner what the object holds: nothing before a helper was launched, nothing
between captures, nothing after the end, and a thread that goes on while nobody
stops it belongs to a running capture. `DevicesNeedConnection` needs `Links`: a
connection that is not known to have ended is the one of the program's socket, and
a socket kept for longer belongs to a helper that is gone. Without the second half a
retry that finds the old socket could be taken for a new connection.

**LinuxKeys_proofs, WindowsKeys_proofs.** `KeysAgree` compares the two ends when
nothing is on its way. The invariants `Followed` and `Tracked` say it of each stage and
at any time: when what is queued between two stages has been applied to the later
one, a key is down there exactly if it is in the earlier (`Becomes`: the last event
about the key decides), for every key that has not lost an event. `LinuxKeys` has three
such links, as the helper's bitmask and the tracking of `pollEvents()` are states of
their own; `WindowsKeys` has one. That tracking a batch is the same as applying its
last events (`TrackBecomes`) is an induction over the batch, from the least number
at which it would fail (`Least`, `UpTo`): well-foundedness of the natural numbers,
which the library states without an operator parameter. A read that is cut off drops
the first events of its queue and adds one about a key that counts as lost from then
on: `BecomesSkipped` and `BecomesAnyway` say that the others do not notice. `PauseReleases`
rests on `Released`: while paused, the last word about each key of the combination
that paused is a release.

**FileExplorer_proofs.** `TypeInv` says more than the types: what a thread has yet to
do is what remains of one of the handlers, a folder is never renamed into itself, and
no more files are or will be made than were counted (`Counts`). That the storage stays
a tree through `rename()` needs both what the panel checked before
(`Apart`) and what `rename()` checks itself. `FilesKept`, an action property, has
`Reserved`: while a creation or a rename is yet to happen, what is at its target is
nothing, a folder, or a file newer than the check; and the lemma
`RenamedKeeps`, that a rename keeps every file but one at its target. `PanelsAgree`
has `Views`: unless something is spoilt, the last refresh found the storage as it is
or another is to come (`Covered`), and each client's latest tree, shown or on its way, is
that of the last refresh or it will be sent (`Known`). An upload or a drop that has made
its folder but not its file is the case in between (`Stores`, of either thread). For scans,
`Fresh` says that a thread with no scan to do next has nothing older than the storage in
`began`, and `Overtaken` that a scan which began with another storage than there is now
was overtaken by a step of the other thread, which has a scan of its own yet to come:
so a torn or outdated listing is never the last. The theorems hold for any
guests and any number of operations; paths have two levels, as in the runs.

**AppFlow_proofs.** The module has no constants and TLC visits all its states; the
proof says why the properties hold. The inductive invariant `AppInv` has a part for
each of those who share the panels. `SetupInv`: the setup thread has the client to
itself until it is done. `AttemptInv`: an attempt has the handlers of the flow it belongs
to, if it is `Proper`: not one that was begun inside a handler of a failure, on a stream
that had been used. `UsedInv`: that is the only stream to which anything is left from an
earlier connection. `ServesInv`: the client of a finished setup meets a running
server, or a handler is about to leave the panel. `HandlerInv`: what remains of a handler
has the shape of its code (who destroys the server sets a panel next), and only a
failure sets a panel. `SessionInv` and `LedInv`: the guest's dashboard and the
Connecting panel have a handler that will end them. `DashboardsStand` needs
`ServesInv` for the host: the server may be gone only while the statement that leaves
the dashboard is next. `WaitingLed` needs all of them: that Connecting is left
is known from before it was set, as a frame sets it after `connect()` has begun; and
that the setup's panel has no lost server, unless a callback is about to leave it, rests
on the shape of the handlers a late write or a late shutdown still calls.

**Only model-checked.** Liveness under fairness, which is beyond the prover: the
two properties of the channel, `CloseTakesEffect`, `LossIsNoticed`,
`DevicesReturned`, `StopReturns`, `ChangesAreNoticed`, `WaitingEnds`, and the
liveness of `ImplementsConnection`. The two runs that find a violation have
nothing to prove.

## Not modelled

- What a handler does whose object is gone: `resetServerInstance()` by the UI or
  the setup thread destroys a server the io thread may be in, a callback destroys
  the client that executes it, and `~Client()` posts a close on itself. This is
  undefined behaviour without a state to describe. `AppFlow` shows when objects are
  made and destroyed, `Client` that its input thread has ended by then.
- An exception that ends the io thread (a path `weakly_canonical()` rejects). The
  handlers of the models complete.
- Message framing. Encoding and decoding are sequential, field by field, with no
  state but the buffer; what matters to the rest, that a read is cut into
  header and body, joins messages, or follows on an old half, is in `Client`.
- The conversion of mouse positions (`InputManager.cpp`): floating-point arithmetic
  on one sample, which TLA+ does not express; without its rounding it only clamps.
- Starting and joining the Windows hook thread, the key-ups a resumed Windows host
  swallows, and the keys a receiver polls, which are never sent.
- Quitting (`cleanupNetwork()`), and the scan thread, which writes a list without a
  lock that is only drawn.
- A guest's downloads and cache; files' contents; names deeper than two levels, and
  a dropped folder with more than one file.
- The rest of a cut payload that is taken for another command of the helper, such as
  Shutdown, or for a payload whose announced length makes the decoding throw: what a
  helper does that ends is in `InputHelper`.
- Time: the 500 ms the shutdown sleeps, and timeouts, which the network code does
  not have.
- TLS itself, device I/O, drawing, logging, configuration files, certificate
  generation, keycode tables: no state that interleaves with the rest, or calls
  into libraries.

## Running

In this directory: `tlc -config ServerRoster.cfg Server` for a run (module and
configuration are in `PROJECT.json`), `tlapm Server_proofs.tla` for the proofs.
