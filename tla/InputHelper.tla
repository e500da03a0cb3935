---------------------------- MODULE InputHelper ----------------------------
(***************************************************************************)
(* The life of the Linux capture: one LinuxInput object                    *)
(* (src/input/LinuxInput.cpp), started and stopped by its client, the      *)
(* thread that starts a privileged helper process and connects to it, and  *)
(* the helpers (src/input/LinuxInputHelper.cpp), which publish their       *)
(* socket in one shared memory segment of a fixed name, serve one          *)
(* connection and grab the input devices for it.                           *)
(*                                                                         *)
(* A helper is a number in the order of launching; it is also its pid, its *)
(* socket and the segment it makes.  The helper runs as root: unless the   *)
(* program does so too, it may neither signal a helper that has started    *)
(* nor unlink its segment.                                                 *)
(***************************************************************************)
EXTENDS Naturals, Sequences

CONSTANTS
  MaxHelpers,   \* bound: helpers launched
  MaxCommands   \* bound: commands unread by a helper

ASSUME BoundsAssumption == MaxHelpers \in Nat \ {0} /\ MaxCommands \in Nat \ {0}

Helpers == 1..MaxHelpers

VARIABLES
  maySignal,   \* the program runs as root as well
  running,     \* running_
  initBusy,    \* m_init_in_progress_
  stopReq,     \* m_stop_requested_
  connected,   \* helper_connected_
  init,        \* m_init_thread_: "none" if not joinable, where it stands, or "done"
  ipc,         \* ipc_thread_ is joinable; its io_context runs until stop()
  socket,      \* the helper ipc_socket_ is connected to, 0 if it is closed
  pkexec,      \* pkexec_pid_, 0 for none
  helperPid,   \* helper_actual_pid_, 0 for none
  mapped,      \* the segment mapped at shared_data_ptr_, 0 for none
  owner,       \* the client's thread: "idle", "stopping" in stop(), "dying" in ~LinuxInput(),
               \* "destroyed", "terminated" by the destructor of a joinable std::thread,
               \* "killed" with the program
  failed,      \* a start of this object's helper has failed, other than by stop()
  shm,         \* the segment that has the name, 0 for none
  ready,       \* the segments whose ready flag is set
  helper,      \* of each helper: "none", "prompt" in pkexec, "started", "listening", "serving", "ended"
  signalled,   \* the helpers whose g_helper_running a signal has cleared
  link,        \* of each helper, its end of the connection: "none", "open", "eof"
  inbox,       \* commands sent to each helper
  grabbed      \* the helpers that hold the devices

vars == <<maySignal, running, initBusy, stopReq, connected, init, ipc, socket, pkexec,
          helperPid, mapped, owner, failed, shm, ready, helper, signalled, link, inbox,
          grabbed>>

flags == <<maySignal, running, initBusy, stopReq, connected, failed>>
appVars == <<flags, init, ipc, socket, pkexec, helperPid, mapped, owner>>
helperVars == <<shm, ready, helper, signalled, link, inbox, grabbed>>

TypeOK ==
  /\ {maySignal, running, initBusy, stopReq, connected, ipc, failed} \subseteq BOOLEAN
  /\ init \in {"none", "begin", "launch", "launched", "connect", "done"}
  /\ {socket, pkexec, helperPid, mapped, shm} \subseteq 0..MaxHelpers
  /\ owner \in {"idle", "stopping", "dying", "destroyed", "terminated", "killed"}
  /\ ready \subseteq Helpers /\ signalled \subseteq Helpers /\ grabbed \subseteq Helpers
  /\ helper \in [Helpers -> {"none", "prompt", "started", "listening", "serving", "ended"}]
  /\ link \in [Helpers -> {"none", "open", "eof"}]
  /\ inbox \in [Helpers -> Seq({"grab", "ungrab"})]

Init ==
  /\ maySignal \in BOOLEAN
  /\ running = FALSE /\ initBusy = FALSE /\ stopReq = FALSE /\ connected = FALSE
  /\ init = "none" /\ ipc = FALSE /\ socket = 0 /\ pkexec = 0 /\ helperPid = 0
  /\ mapped = 0 /\ owner = "idle" /\ failed = FALSE
  /\ shm = 0 /\ ready = {}
  /\ helper = [h \in Helpers |-> "none"]
  /\ signalled = {}
  /\ link = [h \in Helpers |-> "none"]
  /\ inbox = [h \in Helpers |-> <<>>]
  /\ grabbed = {}

Alive(h) == helper[h] \in {"started", "listening", "serving"}
-----------------------------------------------------------------------------
(* start(), and the initialisation thread *)

\* start() for a new session: the one before was stopped, or its start had failed; then
\* its thread has ended and is joined.
Start ==
  /\ owner = "idle" /\ ~running /\ ~initBusy /\ ~connected
  /\ init \in {"none", "done"}
  /\ running' = TRUE /\ stopReq' = FALSE
  /\ init' = "begin"
  /\ UNCHANGED <<maySignal, initBusy, connected, failed, ipc, socket, pkexec, helperPid,
                 mapped, owner, helperVars>>

\* How the initialisation thread ends when there is nothing to capture with.
InitFails ==
  /\ init' = "done" /\ running' = FALSE /\ initBusy' = FALSE
  /\ failed' = (failed \/ ~stopReq)

InitBegins ==
  /\ init = "begin"
  /\ IF stopReq
     THEN InitFails
     ELSE init' = "launch" /\ initBusy' = TRUE /\ UNCHANGED <<running, failed>>
  /\ UNCHANGED <<maySignal, stopReq, connected, ipc, socket, pkexec, helperPid, mapped,
                 owner, helperVars>>

\* kill(pid, 0) == 0
Signallable(h) == maySignal /\ Alive(h)

NextHelper == CHOOSE h \in Helpers :
  helper[h] = "none" /\ \A k \in Helpers : helper[k] = "none" => h <= k

\* launchHelperProcess(): a helper found through the segment is used again if it answers
\* a signal; otherwise the segment is unlinked, as far as that is permitted, and pkexec is
\* forked, which asks the user first.
LaunchHelper ==
  /\ init = "launch"
  /\ IF shm # 0 /\ shm \in ready /\ Signallable(shm)
     THEN /\ helperPid' = shm /\ mapped' = shm
          /\ init' = "launched"
          /\ UNCHANGED <<pkexec, shm, helper>>
     ELSE /\ \E h \in Helpers : helper[h] = "none"
          /\ helper' = [helper EXCEPT ![NextHelper] = "prompt"]
          /\ pkexec' = NextHelper
          /\ shm' = IF maySignal THEN 0 ELSE shm
          /\ init' = "launched"
          /\ UNCHANGED <<helperPid, mapped>>
  /\ UNCHANGED <<flags, ipc, socket, owner, ready, signalled, link, inbox, grabbed>>

\* fork() fails.
LaunchFails ==
  /\ init = "launch"
  /\ InitFails
  /\ UNCHANGED <<maySignal, stopReq, connected, ipc, socket, pkexec, helperPid, mapped,
                 owner, helperVars>>

\* Ending the helper without forgetting its pid.
EndHelperProcess ==
  LET pid == IF pkexec # 0 THEN pkexec ELSE helperPid
  IN  /\ IF pid # 0 /\ helper[pid] = "prompt"
         THEN helper' = [helper EXCEPT ![pid] = "ended"] /\ UNCHANGED signalled
         ELSE /\ signalled' = signalled \union {h \in {pid} \ {0} : Signallable(h)}
              /\ UNCHANGED helper
      /\ UNCHANGED <<pkexec, helperPid>>

\* cleanupHelperProcess(): SIGTERM to pkexec, which is the helper once the user has agreed,
\* or to a helper that was found.  A helper only notes it (helper_signal_handler): one that
\* waits in accept() goes on waiting.
CleanupHelperProcess ==
  LET pid == IF pkexec # 0 THEN pkexec ELSE helperPid
  IN  /\ IF pid # 0 /\ helper[pid] = "prompt"
         THEN helper' = [helper EXCEPT ![pid] = "ended"] /\ UNCHANGED signalled
         ELSE /\ signalled' = signalled \union {h \in {pid} \ {0} : Signallable(h)}
              /\ UNCHANGED helper
      /\ pkexec' = 0 /\ helperPid' = 0

\* The check of m_stop_requested_ after the launch.
Launched ==
  /\ init = "launched"
  /\ IF stopReq
     THEN InitFails /\ CleanupHelperProcess
     ELSE init' = "connect" /\ UNCHANGED <<running, initBusy, failed, helper, signalled,
                                           pkexec, helperPid>>
  /\ UNCHANGED <<maySignal, stopReq, connected, ipc, socket, mapped, owner, shm, ready,
                 link, inbox, grabbed>>

\* connectToHelper() up to the connection: the segment is mapped once and kept, so it may
\* be that of a helper whose segment has since lost the name; its ready flag is awaited.
MapSegment ==
  /\ init = "connect" /\ ~stopReq
  /\ mapped = 0 /\ shm # 0
  /\ mapped' = shm
  /\ UNCHANGED <<flags, init, ipc, socket, pkexec, helperPid, owner, helperVars>>

\* A command that is none of the program's.
SendUnknown(h, command) == inbox' = [inbox EXCEPT ![h] = Append(inbox[h], "pause")]

\* sendCommandToHelper()
Send(h, command) ==
  inbox' = [inbox EXCEPT ![h] = Append(inbox[h], command)]

\* connectToHelper() when the helper listens: the host has the devices grabbed, unless
\* stop() has begun (sendCommandToHelper looks at running_).
ConnectToHelper ==
  /\ init = "connect" /\ ~stopReq
  /\ mapped # 0 /\ mapped \in ready /\ helper[mapped] = "listening"
  /\ ~ipc
  /\ connected' = TRUE /\ ipc' = TRUE
  /\ socket' = mapped /\ helperPid' = mapped /\ mapped' = 0
  /\ init' = "done" /\ initBusy' = FALSE
  /\ helper' = [helper EXCEPT ![mapped] = "serving"]
  /\ link' = [link EXCEPT ![mapped] = "open"]
  /\ IF running THEN Send(mapped, "grab") ELSE UNCHANGED inbox
  /\ UNCHANGED <<maySignal, running, stopReq, failed, pkexec, owner, shm, ready, signalled,
                 grabbed>>

\* Giving up only when the retries are used up.
RetriesUsedUp ==
  /\ init = "connect" /\ ~stopReq
  /\ InitFails
  /\ CleanupHelperProcess
  /\ mapped' = 0
  /\ UNCHANGED <<maySignal, stopReq, connected, ipc, socket, owner, shm, ready, link, inbox,
                 grabbed>>

\* connectToHelper() gives up: asked to stop, or its retries are used up.
ConnectGivesUp ==
  /\ init = "connect"
  /\ InitFails
  /\ CleanupHelperProcess
  /\ mapped' = 0
  /\ UNCHANGED <<maySignal, stopReq, connected, ipc, socket, owner, shm, ready, link, inbox,
                 grabbed>>
-----------------------------------------------------------------------------
(* The running capture *)

\* setInputPaused() by the input thread.
SetInputPaused(command) ==
  /\ owner = "idle" /\ running /\ connected /\ socket # 0
  /\ Len(inbox[socket]) < MaxCommands
  /\ Send(socket, command)
  /\ UNCHANGED <<appVars, shm, ready, helper, signalled, link, grabbed>>

\* readFromHelperLoop() learns that the helper has gone.
IpcReadFails ==
  /\ ipc /\ running /\ connected /\ socket # 0 /\ helper[socket] = "ended"
  /\ connected' = FALSE
  /\ UNCHANGED <<maySignal, running, initBusy, stopReq, failed, init, ipc, socket, pkexec,
                 helperPid, mapped, owner, helperVars>>
-----------------------------------------------------------------------------
(* stop(), and the destructor *)

NothingToStop == ~running /\ ~initBusy /\ ~connected

\* The beginning of stop().
StopBegins ==
  /\ owner = "idle" /\ ~NothingToStop
  /\ stopReq' = TRUE /\ running' = FALSE
  /\ owner' = "stopping"
  /\ UNCHANGED <<maySignal, initBusy, connected, failed, init, ipc, socket, pkexec,
                 helperPid, mapped, helperVars>>

\* The socket stays as it is.
LeaveSocket == UNCHANGED <<socket, link>>

\* What closing ipc_socket_ does to the helper's end.
CloseSocket ==
  /\ socket' = 0
  /\ link' = [h \in Helpers |-> IF h = socket /\ link[h] = "open" THEN "eof" ELSE link[h]]

\* ~LinuxInput(): stop(), then the members.  stop() returns at once if there is nothing to
\* stop, also if a failed initialisation thread has never been joined.
Destroy ==
  /\ owner = "idle"
  /\ IF NothingToStop
     THEN /\ owner' = IF init = "none" /\ ~ipc THEN "destroyed" ELSE "terminated"
          /\ CloseSocket
          /\ UNCHANGED <<stopReq, running>>
     ELSE /\ owner' = "dying"
          /\ stopReq' = TRUE /\ running' = FALSE
          /\ UNCHANGED <<socket, link>>
  /\ UNCHANGED <<maySignal, initBusy, connected, failed, init, ipc, pkexec, helperPid,
                 mapped, shm, ready, helper, signalled, inbox, grabbed>>

\* The rest of stop(), when the initialisation thread has ended.  The Shutdown command is
\* not sent, because running_ is FALSE; the helper is ended by the end of the connection.
\* The socket of a connection known to have ended stays open until the object goes.
StopEnds ==
  /\ owner \in {"stopping", "dying"} /\ init \in {"none", "done"}
  /\ init' = "none" /\ initBusy' = FALSE
  /\ IF connected THEN CloseSocket ELSE UNCHANGED <<socket, link>>
  /\ connected' = FALSE
  /\ ipc' = FALSE
  /\ CleanupHelperProcess
  /\ mapped' = 0
  /\ owner' = IF owner = "dying" THEN "destroyed" ELSE "idle"
  /\ UNCHANGED <<maySignal, running, stopReq, failed, shm, ready, inbox, grabbed>>

\* The program ends with its threads; the kernel closes the socket.  A helper outlives it:
\* PR_SET_PDEATHSIG does not survive the change of user.
ProgramKilled ==
  /\ owner \in {"idle", "stopping", "dying"}
  /\ owner' = "killed"
  /\ running' = FALSE /\ initBusy' = FALSE /\ connected' = FALSE
  /\ init' = "none" /\ ipc' = FALSE /\ pkexec' = 0 /\ helperPid' = 0 /\ mapped' = 0
  /\ CloseSocket
  /\ UNCHANGED <<maySignal, stopReq, failed, shm, ready, helper, signalled, inbox, grabbed>>

\* A new object, of the next session or of the program started again.
NewObject ==
  /\ owner \in {"destroyed", "terminated", "killed"}
  /\ owner' = "idle"
  /\ init' = "none" /\ stopReq' = FALSE /\ failed' = FALSE
  /\ UNCHANGED <<maySignal, running, initBusy, connected, ipc, socket, pkexec, helperPid,
                 mapped, helperVars>>
-----------------------------------------------------------------------------
(* The helper process *)

\* Ending without releasing the devices.
CleanupKeepingDevices(h) ==
  /\ helper' = [helper EXCEPT ![h] = "ended"]
  /\ link' = [link EXCEPT ![h] = "none"]
  /\ inbox' = [inbox EXCEPT ![h] = <<>>]
  /\ shm' = 0
  /\ UNCHANGED grabbed

\* cleanup_helper_resources(): the devices are released and the name of the segment is
\* removed, whichever helper's segment has it by now.
CleanupHelper(h) ==
  /\ helper' = [helper EXCEPT ![h] = "ended"]
  /\ grabbed' = grabbed \ {h}
  /\ link' = [link EXCEPT ![h] = "none"]
  /\ inbox' = [inbox EXCEPT ![h] = <<>>]
  /\ shm' = 0

\* The user answers pkexec's question.
PromptAnswered(h, agreed) ==
  /\ helper[h] = "prompt"
  /\ helper' = [helper EXCEPT ![h] = IF agreed THEN "started" ELSE "ended"]
  /\ shm' = IF agreed THEN h ELSE shm
  /\ UNCHANGED <<appVars, ready, signalled, link, inbox, grabbed>>

\* initialize_input_devices() fails.
HelperFails(h) ==
  /\ helper[h] = "started"
  /\ CleanupHelper(h)
  /\ UNCHANGED <<appVars, ready, signalled>>

\* runInputHelperMode() from the devices to accept().
HelperListens(h) ==
  /\ helper[h] = "started"
  /\ helper' = [helper EXCEPT ![h] = "listening"]
  /\ ready' = ready \union {h}
  /\ UNCHANGED <<appVars, shm, signalled, link, inbox, grabbed>>

\* grab_or_ungrab_all_devices(): the kernel grants a device to one process.
Grab(h, command) ==
  grabbed' = CASE command = "grab" /\ grabbed \subseteq {h} -> {h}
               [] command = "ungrab" -> grabbed \ {h}
               [] OTHER -> grabbed

\* One read_some() and handle_ipc_command(): of the n commands it returns, the first is
\* carried out.
HelperReads(h, n) ==
  /\ helper[h] = "serving" /\ h \notin signalled
  /\ n \in 1..Len(inbox[h])
  /\ Grab(h, Head(inbox[h]))
  /\ inbox' = [inbox EXCEPT ![h] = SubSeq(inbox[h], n + 1, Len(inbox[h]))]
  /\ UNCHANGED <<appVars, shm, ready, helper, signalled, link>>

\* The end of the read loop: the connection has ended, or a signal was noted before the
\* loop was entered or before the last read returned.
HelperEnds(h) ==
  /\ helper[h] = "serving"
  /\ \/ inbox[h] = <<>> /\ link[h] = "eof"
     \/ h \in signalled
  /\ CleanupHelper(h)
  /\ UNCHANGED <<appVars, ready, signalled>>

\* A helper is killed: the kernel releases what it held, the segment keeps its name.
HelperKilled(h) ==
  /\ Alive(h)
  /\ helper' = [helper EXCEPT ![h] = "ended"]
  /\ grabbed' = grabbed \ {h}
  /\ link' = [link EXCEPT ![h] = "none"]
  /\ inbox' = [inbox EXCEPT ![h] = <<>>]
  /\ UNCHANGED <<appVars, shm, ready, signalled>>
-----------------------------------------------------------------------------
InitThread ==
  \/ InitBegins \/ LaunchHelper \/ LaunchFails \/ Launched
  \/ MapSegment \/ ConnectToHelper

HelperStep(h) ==
  \/ HelperFails(h) \/ HelperListens(h) \/ HelperEnds(h)
  \/ \E n \in 1..MaxCommands : HelperReads(h, n)

Next ==
  \/ Start \/ StopBegins \/ StopEnds \/ Destroy \/ ProgramKilled \/ NewObject
  \/ InitThread \/ ConnectGivesUp \/ IpcReadFails
  \/ \E command \in {"grab", "ungrab"} : SetInputPaused(command)
  \/ \E h \in Helpers :
       \/ HelperStep(h) \/ HelperKilled(h)
       \/ \E agreed \in BOOLEAN : PromptAnswered(h, agreed)

Spec == Init /\ [][Next]_vars

\* Threads and helpers keep running; nobody need ever answer pkexec's question.
\* The turns of connectToHelper() come round to its look at the stop request; that its
\* 40 retries are soon used up is not assumed.
FairSpec ==
  /\ Spec
  /\ WF_vars(InitThread)
  /\ WF_vars(stopReq /\ ConnectGivesUp)
  /\ WF_vars(StopEnds)
  /\ WF_vars(IpcReadFails)
  /\ \A h \in Helpers : WF_vars(HelperStep(h))
-----------------------------------------------------------------------------
(* Properties *)

\* Between captures the object is at rest whatever stop() met - a helper still starting, a
\* thread still connecting, a helper that died (LinuxInput.cpp:369-417): no connection, no
\* ipc thread, no pid remembered, no segment mapped.  A destructor that meets a joinable
\* thread ends the program; that needs a start that failed (LinuxInput.cpp:370 returns
\* before the join).
StoppedIsQuiet ==
  /\ owner = "idle" /\ ~running /\ init = "none" =>
       ~connected /\ ~ipc /\ ~initBusy /\ mapped = 0 /\ pkexec = 0 /\ helperPid = 0
  /\ owner = "destroyed" => init = "none" /\ ~ipc /\ ~connected
  /\ owner = "terminated" => failed

\* A helper that holds the devices has the program's connection or is about to learn that
\* it ended: nobody is left without keyboard by a capture that is over, whichever of two
\* helpers the program was connected to (LinuxInputHelper.cpp:950-985).
GrabNeedsConnection ==
  \A h \in grabbed : helper[h] = "serving" /\ (socket = h \/ link[h] = "eof")

\* After stop(), the destructor or the death of the program the devices come back, though
\* the Shutdown command is never sent and a signal may not be permitted
\* (LinuxInput.cpp:393-400, 559-562).
DevicesReturned ==
  \A h \in Helpers :
    (h \in grabbed /\ owner \in {"stopping", "dying", "killed"}) ~> (h \notin grabbed)

\* stop() returns: the initialisation thread it joins looks at the request in every turn
\* of its loop (LinuxInput.cpp:213, 383), also while nobody answers pkexec's question.
StopReturns == (owner \in {"stopping", "dying"}) ~> (owner \in {"idle", "destroyed", "killed"})
=============================================================================
