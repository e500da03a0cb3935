--------------------------- MODULE SessionChannel ---------------------------
(***************************************************************************)
(* One Session object of src/network/Session.cpp: the path a message takes *)
(* from Session::send, called by any thread, through the closure posted to *)
(* the io_context, writeQueue_ and one async_write at a time, to the peer; *)
(* and the closing of the session, which any of its handlers may start     *)
(* while messages are queued or on their way.                              *)
(*                                                                         *)
(* A message is the number of its turn in writeQueue_.  Every handler runs *)
(* on the single io thread (UIState.cpp runs one io_context::run), so a    *)
(* handler is one step; send() runs on its caller's thread and reads       *)
(* active_ before it posts, so it is two.                                  *)
(***************************************************************************)
EXTENDS Naturals, Sequences, FiniteSets

CONSTANTS
  Senders,     \* the threads that call Session::send
  MaxSends,    \* bound: calls of send() that get past its first check
  MaxCloses    \* bound: calls of close()

ASSUME BoundsAssumption == MaxSends \in Nat /\ MaxCloses \in Nat

VARIABLES
  state,       \* active_, sslHandshakeComplete_ and the socket, which change together:
               \*   "new"       before start()
               \*   "started"   active, TLS handshake pending
               \*   "up"        active, TLS handshake complete
               \*   "shutting"  inactive, async_shutdown pending
               \*   "closed"    inactive, socket closed
  posts,       \* closures posted by send() and close() that have not run
  queue,       \* writeQueue_: its front is kept while it is being written
  writing,     \* writing_
  inflight,    \* async_write operations started and not completed
  wire,        \* messages written in full
  pushed,      \* number of messages that have entered writeQueue_
  caller,      \* where each sender stands in send()
  sends, closes, \* calls counted against the bounds
  notified,    \* calls of disconnectHandler_
  silent       \* the peer has stopped reading and keeps its socket open

channelVars == <<state, posts, queue, writing, inflight, wire, pushed, caller, sends,
                 closes, notified>>

vars == <<channelVars, silent>>

writeVars == <<queue, writing, inflight, wire, pushed>>
closeVars == <<state, notified>>
callVars == <<posts, caller, sends, closes>>

\* active_
Active == state \in {"started", "up"}

TypeOK ==
  /\ state \in {"new", "started", "up", "shutting", "closed"}
  /\ posts \in Seq({"send", "close"})
  /\ queue \in Seq(Nat)
  /\ writing \in BOOLEAN
  /\ inflight \in Seq(Nat)
  /\ wire \in Seq(Nat)
  /\ pushed \in Nat
  /\ caller \in [Senders -> {"idle", "checked"}]
  /\ sends \in 0..MaxSends
  /\ closes \in 0..MaxCloses
  /\ notified \in Nat
  /\ silent \in BOOLEAN

Init ==
  /\ state = "new"
  /\ posts = <<>>
  /\ queue = <<>>
  /\ writing = FALSE
  /\ inflight = <<>>
  /\ wire = <<>>
  /\ pushed = 0
  /\ caller = [t \in Senders |-> "idle"]
  /\ sends = 0
  /\ closes = 0
  /\ notified = 0
  /\ silent = FALSE
-----------------------------------------------------------------------------
(* start() and the TLS handshake *)

Start ==
  /\ state = "new"
  /\ state' = "started"
  /\ UNCHANGED <<notified, writeVars, callVars, silent>>

\* Closing the socket without calling disconnectHandler_.
CloseWithoutReport == state' = "closed" /\ UNCHANGED notified

\* Ending the session with its socket still open: not a state a session may be in.
LeaveSocketOpen == state' = "inactive, socket open" /\ notified' = notified + 1

\* With TLS up the socket is closed, and the server told, when async_shutdown
\* completes; without it, at once.
CloseSocket ==
  IF state = "up"
  THEN state' = "shutting" /\ UNCHANGED notified
  ELSE state' = "closed" /\ notified' = notified + 1

\* doClose() that does not remember having run.
DoCloseEveryTime ==
  /\ CloseSocket
  /\ queue' = <<>>
  /\ writing' = FALSE

\* doClose(): only the first call does anything.  The queue is emptied even if its
\* front is being written.
DoClose ==
  IF Active
  THEN /\ CloseSocket
       /\ queue' = <<>>
       /\ writing' = FALSE
  ELSE UNCHANGED <<state, notified, queue, writing>>

HandleSslHandshake(ok) ==
  /\ state = "started"
  /\ IF ok
     THEN state' = "up" /\ UNCHANGED <<notified, queue, writing>>
     ELSE DoClose
  /\ UNCHANGED <<inflight, wire, pushed, callVars, silent>>
-----------------------------------------------------------------------------
(* send() and close(), on the caller's thread *)

\* The first check of send(); a call on an inactive session returns here.
SendCheck(t) ==
  /\ caller[t] = "idle" /\ Active /\ sends < MaxSends
  /\ caller' = [caller EXCEPT ![t] = "checked"]
  /\ sends' = sends + 1
  /\ UNCHANGED <<posts, closes, writeVars, closeVars, silent>>

SendPost(t) ==
  /\ caller[t] = "checked"
  /\ caller' = [caller EXCEPT ![t] = "idle"]
  /\ posts' = Append(posts, "send")
  /\ UNCHANGED <<sends, closes, writeVars, closeVars, silent>>

CallClose ==
  /\ closes < MaxCloses
  /\ closes' = closes + 1
  /\ posts' = Append(posts, "close")
  /\ UNCHANGED <<caller, sends, writeVars, closeVars, silent>>
-----------------------------------------------------------------------------
(* Handlers on the io thread.  The accept handler that creates the session also *)
(* starts it, so nothing posted runs before Start.                              *)

AlwaysStartWrite == TRUE

\* May the closure that pushes a message start writing it?
ShouldStartWrite == queue = <<>> /\ ~writing

\* doWrite() on queue q, `done` being the writes still outstanding: the front is
\* handed to async_write and stays in the queue until that completes.
DoWrite(q, done) ==
  /\ writing' = Active
  /\ inflight' = IF Active THEN Append(done, Head(q)) ELSE done

\* The closure posted by send().
RunSend ==
  /\ state # "new"
  /\ posts # <<>> /\ Head(posts) = "send"
  /\ posts' = Tail(posts)
  /\ IF Active
     THEN /\ pushed' = pushed + 1
          /\ queue' = Append(queue, pushed + 1)
          /\ IF ShouldStartWrite
             THEN DoWrite(queue', inflight)
             ELSE UNCHANGED <<writing, inflight>>
     ELSE UNCHANGED <<pushed, queue, writing, inflight>>
  /\ UNCHANGED <<wire, caller, sends, closes, closeVars, silent>>

\* The closure posted by close().
RunClose ==
  /\ state # "new"
  /\ posts # <<>> /\ Head(posts) = "close"
  /\ posts' = Tail(posts)
  /\ DoClose
  /\ UNCHANGED <<inflight, wire, pushed, caller, sends, closes, silent>>

NotPopped == queue

\* The queue handleWrite() leaves: its front is the message just written, unless
\* doClose() has emptied it meanwhile.
Popped == IF queue # <<>> THEN Tail(queue) ELSE queue

NeverContinue == FALSE

\* Does handleWrite() go on to the next message?
MayContinue == Popped # <<>> /\ Active

HandleWriteOk ==
  /\ inflight # <<>>
  /\ wire' = Append(wire, Head(inflight))
  /\ queue' = Popped
  /\ IF MayContinue
     THEN DoWrite(Popped, Tail(inflight))
     ELSE writing' = FALSE /\ inflight' = Tail(inflight)
  /\ UNCHANGED <<pushed, closeVars, callVars, silent>>

HandleWriteError ==
  /\ inflight # <<>>
  /\ inflight' = Tail(inflight)
  /\ IF Active
     THEN DoClose
     ELSE queue' = Popped /\ writing' = FALSE /\ UNCHANGED closeVars
  /\ UNCHANGED <<wire, pushed, callVars, silent>>

\* A read that ends in an error or at end of file, or a message out of turn.
ReadFails ==
  /\ state = "up"
  /\ DoClose
  /\ UNCHANGED <<inflight, wire, pushed, callVars, silent>>

\* The completion of async_shutdown.
ShutdownDone ==
  /\ state = "shutting"
  /\ state' = "closed"
  /\ notified' = notified + 1
  /\ UNCHANGED <<writeVars, callVars, silent>>

\* The peer's read loop ends while its socket stays open, as that of a client that was
\* refused does: it answers no shutdown from now on, and what is written may or may not
\* still fit into the buffers on the way.
PeerFallsSilent ==
  /\ ~silent
  /\ silent' = TRUE
  /\ UNCHANGED channelVars

Next ==
  \/ Start
  \/ \E ok \in BOOLEAN : HandleSslHandshake(ok)
  \/ \E t \in Senders : SendCheck(t) \/ SendPost(t)
  \/ CallClose
  \/ RunSend
  \/ RunClose
  \/ HandleWriteOk
  \/ HandleWriteError
  \/ ReadFails
  \/ ShutdownDone
  \/ PeerFallsSilent

\* The io thread starts the session and runs what is posted.  A write and a shutdown
\* that were started complete while the peer reads, or when its connection fails;
\* async_shutdown has no timeout, so of a silent peer nothing is asked.
Fairness ==
  /\ WF_vars(Start)
  /\ WF_vars(RunSend \/ RunClose)
  /\ WF_vars(~silent /\ (HandleWriteOk \/ HandleWriteError))
  /\ WF_vars(~silent /\ ShutdownDone)

Spec == Init /\ [][Next]_vars

FairSpec == Spec /\ Fairness
-----------------------------------------------------------------------------
(* Properties *)

\* The TLS stream never has two async_write operations outstanding, whoever calls
\* send() and however closing interleaves: writeQueue_ and writing_ keep the second
\* one waiting (Session.cpp, send(), doWrite(), handleWrite()).
OneWriteInFlight == Len(inflight) <= 1

\* The peer sees the messages in the order they entered writeQueue_, none twice and
\* none skipped: handleWrite() pops exactly the message that was written.
WireInOrder == \A i \in 1..Len(wire) : wire[i] = i

\* The server's disconnect handler runs exactly once for a session, when its socket
\* is closed, whichever of close(), a failed read, a failed write and a failed TLS
\* handshake came first and however many of them follow (doClose()).
DisconnectReportedOnce == notified = IF state = "closed" THEN 1 ELSE 0

\* While the session is active a queued message is on its way: writing_ and the
\* front of writeQueue_ always agree with the one outstanding write, so that no
\* message waits for a completion that will not come.
QueueIsBeingWritten ==
  Active => /\ writing <=> queue # <<>>
            /\ inflight = IF queue # <<>> THEN <<Head(queue)>> ELSE <<>>

\* Every message that enters the queue is written, or the session closes, unless the
\* peer has stopped reading (doWrite(), handleWrite()).
EveryMessageLeaves ==
  \A n \in 1..MaxSends : (pushed >= n) ~> (Len(wire) >= n \/ ~Active \/ silent)

\* A close() request ends in the disconnect handler being called.  The one thing that
\* can hold the call up is the TLS shutdown of a peer that has stopped reading, which
\* doClose() waits for without a timeout: before that, whatever was queued or is being
\* written, a silent peer delays nothing.
CloseCompletes == (closes > 0) ~> (notified > 0 \/ (silent /\ state = "shutting"))

\* The channel implements the FIFO pipe.
Pipe == INSTANCE FifoPipe WITH
  open <- Active,
  accepted <- IF Active THEN pushed ELSE Len(wire) + Len(inflight),
  received <- wire

ImplementsPipe == Pipe!PipeSpec
=============================================================================
