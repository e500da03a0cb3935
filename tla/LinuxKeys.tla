----------------------------- MODULE LinuxKeys -----------------------------
(***************************************************************************)
(* Keys and buttons on their way from the keyboard of a Linux host to a    *)
(* Linux receiver: the kernel, the host's helper process                   *)
(* (src/input/LinuxInputHelper.cpp), the socket to the program, pollEvents *)
(* with the pause combination (src/input/LinuxInput.cpp), the session, the *)
(* receiving client (src/network/Client.cpp) and its helper, which presses *)
(* the keys of a virtual keyboard.                                         *)
(*                                                                         *)
(* Events are lost where the kernel overruns, where payloads are joined in *)
(* one read or cut by it and where an end is paused, and made up where the *)
(* rest of a cut payload is taken for a payload; the history variable lost *)
(* keeps the keys this has happened to.  The mouse's motions are not       *)
(* represented: they only decide where a read is cut.                      *)
(***************************************************************************)
EXTENDS Naturals, Sequences

CONSTANTS
  Keys,         \* key codes
  Combos,       \* the pause combinations the user may set
  MaxInFlight   \* bound: events on their way

ASSUME BoundsAssumption ==
  /\ Combos \subseteq (SUBSET Keys) \ {{}} /\ Combos # {}
  /\ MaxInFlight \in Nat \ {0}

VARIABLES
  phys,        \* the keys that are down on the host's keyboard
  kernel,      \* events the helper has not read
  helperDown,  \* g_helper_vk_key_states_bitmask
  chan,        \* the payloads in the helper's socket, one event each
  batch,       \* received_payloads_queue_
  combo,       \* pause_key_combo_
  tracked,     \* m_currently_pressed_vk_codes
  wasActive,   \* m_combo_was_active_last_poll
  paused,      \* input_globally_paused_ of the host, which outlives its manager
  net,         \* input messages on their way to the receiver
  recvPaused,  \* input_globally_paused_ of the receiver
  cmds,        \* SimulateInput commands in the socket of the receiver's helper
  down,        \* the keys that are down on the receiver's virtual keyboard
  lost         \* keys that have lost an event, got one nobody caused or been forgotten
               \* since all last agreed about them

vars == <<phys, kernel, helperDown, chan, batch, combo, tracked, wasActive, paused,
          net, recvPaused, cmds, down, lost>>

pollVars == <<tracked, wasActive, paused>>

Events == [key : Keys, pressed : BOOLEAN]

TypeOK ==
  /\ phys \subseteq Keys /\ helperDown \subseteq Keys /\ tracked \subseteq Keys
  /\ down \subseteq Keys /\ lost \subseteq Keys
  /\ combo \in Combos
  /\ {wasActive, paused, recvPaused} \subseteq BOOLEAN
  /\ \A q \in {kernel, chan, batch, net, cmds} : q \in Seq(Events)

InFlight == kernel \o chan \o batch \o net \o cmds

KeysOf(events) == {events[i].key : i \in DOMAIN events}

\* The keys that are held when the capture starts are not known to anybody.
Init ==
  /\ phys \in SUBSET Keys /\ lost = phys
  /\ helperDown = {} /\ tracked = {} /\ down = {}
  /\ kernel = <<>> /\ chan = <<>> /\ batch = <<>> /\ net = <<>> /\ cmds = <<>>
  /\ combo \in Combos
  /\ wasActive = FALSE
  /\ paused \in BOOLEAN /\ recvPaused \in BOOLEAN

\* A set of keys after an event has been applied to it.
After(keys, e) == IF e.pressed THEN keys \cup {e.key} ELSE keys \ {e.key}

\* Both ends, and all that lies between, agree about the key.
Agreed(k) ==
  /\ k \notin KeysOf(InFlight)
  /\ (k \in helperDown) = (k \in phys)
  /\ (k \in tracked) = (k \in phys)
  /\ (k \in down) = (k \in phys)

\* The last conjunct of every action: what it has lost.
Note(keys) == lost' = {k \in lost \cup keys : ~ Agreed(k)'}
-----------------------------------------------------------------------------
(* The host's helper *)

\* The user presses or releases a key.
Strike(k) ==
  /\ Len(InFlight) < MaxInFlight
  /\ phys' = IF k \in phys THEN phys \ {k} ELSE phys \cup {k}
  /\ kernel' = Append(kernel, [key |-> k, pressed |-> k \notin phys])
  /\ UNCHANGED <<helperDown, chan, batch, combo, pollVars, net, recvPaused, cmds, down>>
  /\ Note({})

\* The kernel's autorepeat of a key that is held.
Repeat(k) ==
  /\ k \in phys
  /\ Len(InFlight) < MaxInFlight
  /\ kernel' = Append(kernel, [key |-> k, pressed |-> TRUE])
  /\ UNCHANGED <<phys, helperDown, chan, batch, combo, pollVars, net, recvPaused, cmds,
                 down>>
  /\ Note({})

\* An event is passed on only when it sets a bit.
Sets(keys, e) == e.pressed /\ e.key \notin keys

\* An event that changes nothing in the bitmask is not passed on.
Changes(keys, e) == (e.key \in keys) # e.pressed

\* update_helper_vk_key_state() without its test for a code that has no virtual key.
UpdateUnmapped(keys, e) == After(keys, e) \cup {"none"}

\* update_helper_vk_key_state().
UpdateKeyState(keys, e) == After(keys, e)

\* SYN_REPORT: the report's events are written to the socket.
WriteReport(e) == chan' = Append(chan, e)

\* poll_events_once_and_send() up to the end of one report.
HelperPolls ==
  /\ kernel # <<>>
  /\ kernel' = Tail(kernel)
  /\ LET e == Head(kernel) IN
     IF Changes(helperDown, e)
     THEN helperDown' = UpdateKeyState(helperDown, e) /\ WriteReport(e)
     ELSE UNCHANGED <<helperDown, chan>>
  /\ UNCHANGED <<phys, batch, combo, pollVars, net, recvPaused, cmds, down>>
  /\ Note({})
\* SYN_DROPPED: the device's buffer overran.  poll_events_once_and_send() ignores
\* LIBEVDEV_READ_STATUS_SYNC, and libevdev then forgets what it could have told.  What
\* came before it in an unfinished report is in the bitmask and goes no further.
Overrun ==
  /\ kernel # <<>>
  /\ kernel' = <<>>
  /\ helperDown' \in {helperDown, UpdateKeyState(helperDown, Head(kernel))}
  /\ UNCHANGED <<phys, chan, batch, combo, pollVars, net, recvPaused, cmds, down>>
  /\ Note(KeysOf(kernel))
-----------------------------------------------------------------------------
(* The host's program *)

\* What the rest of a payload whose beginning went with the read before is taken for:
\* nothing when it cannot be decoded, or else whatever its bytes say.
Rests == {<<>>} \cup {<<e>> : e \in Events}

\* The callback of readFromHelperLoop(): one read may return several payloads, and
\* only the first is decoded.
ReadFromHelper(n) ==
  /\ n <= Len(chan)
  /\ batch' = Append(batch, Head(chan))
  /\ chan' = SubSeq(chan, n + 1, Len(chan))
  /\ UNCHANGED <<phys, kernel, helperDown, combo, pollVars, net, recvPaused, cmds, down>>
  /\ Note(KeysOf(SubSeq(chan, 2, n)))

\* A read that begins inside a payload, which the 2048 bytes of the read before have cut:
\* the n whole payloads after the rest are thrown away with it.
ReadCutOff(n, rest) ==
  /\ n <= Len(chan)
  /\ Len(InFlight) + Len(rest) <= MaxInFlight + n
  /\ batch' = batch \o rest
  /\ chan' = SubSeq(chan, n + 1, Len(chan))
  /\ UNCHANGED <<phys, kernel, helperDown, combo, pollVars, net, recvPaused, cmds, down>>
  /\ Note(KeysOf(SubSeq(chan, 1, n) \o rest))

\* checkAndTogglePauseCombo(), on the keys that are tracked by then.
TogglePauseCombo(keys) ==
  /\ paused' = IF combo \subseteq keys /\ ~ wasActive THEN ~ paused ELSE paused
  /\ wasActive' = (combo \subseteq keys)

\* The tracking forgets a key only when the batch does not press it as well.
TrackLastly(keys, events) ==
  LET of(pressed) == KeysOf(SelectSeq(events, LAMBDA e : e.pressed = pressed))
  IN  (keys \ of(FALSE)) \cup of(TRUE)

\* The tracking of pollEvents(), event by event.
Track(keys, events) ==
  LET at[i \in 0..Len(events)] == IF i = 0 THEN keys ELSE After(at[i - 1], events[i])
  IN  at[Len(events)]

\* pollEvents() and the sending in Client::inputLoop(): when it leaves the host paused,
\* the whole batch is dropped.
PollEvents ==
  /\ tracked' = Track(tracked, batch)
  /\ TogglePauseCombo(tracked')
  /\ batch' = <<>>
  /\ net' = IF paused' THEN net ELSE net \o batch
  /\ UNCHANGED <<phys, kernel, helperDown, chan, combo, recvPaused, cmds, down>>
  /\ Note(IF paused' THEN KeysOf(batch) ELSE {})

\* setPauseKeyCombo(), called by the controls panel: keys that are held are forgotten.
SetPauseKeyCombo(c) ==
  /\ c # combo
  /\ combo' = c
  /\ tracked' = {}
  /\ wasActive' = FALSE
  /\ UNCHANGED <<phys, kernel, helperDown, chan, batch, paused, net, recvPaused, cmds,
                 down>>
  /\ Note(tracked)
-----------------------------------------------------------------------------
(* The receiver *)

\* The receiver's user gives its own pause combination.
ReceiverToggles ==
  /\ recvPaused' = ~ recvPaused
  /\ UNCHANGED <<phys, kernel, helperDown, chan, batch, combo, pollVars, net, cmds, down>>
  /\ Note({})

\* Client::handleMessage() of an Input message, and LinuxInput::simulateInput().
HandleInput ==
  /\ net # <<>>
  /\ net' = Tail(net)
  /\ cmds' = IF recvPaused THEN cmds ELSE Append(cmds, Head(net))
  /\ UNCHANGED <<phys, kernel, helperDown, chan, batch, combo, pollVars, recvPaused, down>>
  /\ Note(IF recvPaused THEN {Head(net).key} ELSE {})

\* handle_ipc_command() on what one read returned, and simulate_input_event(): only
\* the first command of a read is obeyed.
HelperSimulates(n) ==
  /\ n <= Len(cmds)
  /\ down' = After(down, Head(cmds))
  /\ cmds' = SubSeq(cmds, n + 1, Len(cmds))
  /\ UNCHANGED <<phys, kernel, helperDown, chan, batch, combo, pollVars, net, recvPaused>>
  /\ Note(KeysOf(SubSeq(cmds, 2, n)))

\* As ReadCutOff(), of the commands.
SimulatesCutOff(n, rest) ==
  /\ n <= Len(cmds)
  /\ down' = IF rest = <<>> THEN down ELSE After(down, Head(rest))
  /\ cmds' = SubSeq(cmds, n + 1, Len(cmds))
  /\ UNCHANGED <<phys, kernel, helperDown, chan, batch, combo, pollVars, net, recvPaused>>
  /\ Note(KeysOf(SubSeq(cmds, 1, n) \o rest))
-----------------------------------------------------------------------------
Next ==
  \/ \E k \in Keys : Strike(k) \/ Repeat(k)
  \/ Overrun
  \/ HelperPolls
  \/ \E n \in 1..MaxInFlight : ReadFromHelper(n)
  \/ \E n \in 0..MaxInFlight : \E rest \in Rests : ReadCutOff(n, rest)
  \/ PollEvents
  \/ \E c \in Combos : SetPauseKeyCombo(c)
  \/ ReceiverToggles
  \/ HandleInput
  \/ \E n \in 1..MaxInFlight : HelperSimulates(n)
  \/ \E n \in 0..MaxInFlight : \E rest \in Rests : SimulatesCutOff(n, rest)

Spec == Init /\ [][Next]_vars

\* The threads of both programs and the helpers keep running, and read what is written.
FairSpec ==
  /\ Spec
  /\ WF_vars(HelperPolls)
  /\ WF_vars(\E n \in 1..MaxInFlight :
               ReadFromHelper(n) \/ \E rest \in Rests : ReadCutOff(n, rest))
  /\ WF_vars(PollEvents)
  /\ WF_vars(HandleInput)
  /\ WF_vars(\E n \in 1..MaxInFlight :
               HelperSimulates(n) \/ \E rest \in Rests : SimulatesCutOff(n, rest))
-----------------------------------------------------------------------------
(* Properties *)

\* With nothing on its way, the two ends differ only about keys of which an event was
\* lost or made up, or which were held when the capture started, and the host counts just
\* the other held keys towards its pause combination (LinuxInputHelper.cpp:591,
\* LinuxInput.cpp:434, :526).
KeysAgree ==
  \A k \in Keys \ lost :
     k \notin KeysOf(InFlight) =>
       /\ (k \in down) = (k \in phys)
       /\ (k \in tracked) = (k \in phys)

\* A key that is released comes up at the receiver, unless it is pressed again or an
\* event of it is lost (LinuxInput.cpp:521, LinuxInputHelper.cpp:842); and a combination
\* that is held is noticed, unless the user lets go, sets another or an event of it is
\* lost (LinuxInput.cpp:461).
ChangesAreNoticed ==
  /\ \A k \in Keys : (k \notin phys) ~> (k \notin down \/ k \in phys \/ k \in lost)
  /\ \A c \in Combos :
       (combo = c /\ c \subseteq phys) ~>
         (wasActive \/ combo # c \/ ~ (c \subseteq phys) \/ c \cap lost # {})
=============================================================================
