---------------------------- MODULE WindowsKeys ----------------------------
(***************************************************************************)
(* Keys and buttons on their way from a Windows host to a Windows receiver *)
(* (src/input/WindowsInput.cpp): the low level hooks of the host, its      *)
(* pause combination with the explicit releases it sends, the queue that   *)
(* pollEvents drains, the session, and the receiver, which injects the     *)
(* events and, polling the state of all keys for its own combination, sees *)
(* what it has injected.                                                   *)
(***************************************************************************)
EXTENDS Naturals, Sequences, TLC

CONSTANTS
  Ctrls,        \* VK_LCONTROL and VK_RCONTROL
  Others,       \* other keys
  Zero,         \* the one of them in the default combination
  Buttons,      \* mouse buttons
  MaxInFlight   \* bound: payloads on their way

ASSUME BoundsAssumption == Zero \in Others /\ MaxInFlight \in Nat \ {0}

Keys == Ctrls \cup Others
Codes == Keys \cup Buttons

\* A button is not a key: m_hook_pressed_keys holds virtual keys, the button mask bits.
ASSUME CodesAssumption == Keys \cap Buttons = {}

\* VK_CONTROL in a combination stands for either of the two keys.
Control == "VK_CONTROL"

\* The combinations the controls panel makes: a key, with or without Ctrl.
Combos == {{k} : k \in Others} \cup {{Control, k} : k \in Others}

\* The combination of loadAndSetPauseCombo(); the receiver keeps it.
DefaultCombo == {Control, Zero}

VARIABLES
  phys,        \* what is down on the host's keyboard and mouse
  hookKeys,    \* m_hook_pressed_keys
  buttons,     \* m_lastSentMouseButtons_polling
  combo,       \* pause_key_combo_ of the host
  comboActive, \* m_hook_combo_was_active_last_check
  paused,      \* input_globally_paused_ of the host, which outlives its manager
  hook,        \* the hook thread: "idle", or in CheckPauseComboFromHook() after a "pause"
  queue,       \* m_received_payloads_queue
  net,         \* input messages on their way
  down,        \* what GetAsyncKeyState() calls down on the receiver
  recvHeld,    \* m_previous_combo_held_polling of the receiver
  recvPaused,  \* input_globally_paused_ of the receiver
  pausedBy,    \* history: the keys of the combination that paused the host, less those of
               \* which a paused receiver has ignored an event
  lost         \* history: codes that have lost an event since both ends last agreed

vars == <<phys, hookKeys, buttons, combo, comboActive, paused, hook, queue, net, down,
          recvHeld, recvPaused, pausedBy, lost>>

recvVars == <<down, recvHeld, recvPaused>>

Payloads == [codes : SUBSET Codes, pressed : BOOLEAN]

TypeOK ==
  /\ phys \subseteq Codes /\ hookKeys \subseteq Keys /\ buttons \subseteq Buttons
  /\ combo \in Combos
  /\ {comboActive, paused, recvHeld, recvPaused} \subseteq BOOLEAN
  /\ hook \in {"idle", "pause"}
  /\ queue \in Seq(Payloads) /\ net \in Seq(Payloads)
  /\ down \subseteq Codes /\ pausedBy \subseteq Keys /\ lost \subseteq Codes

InFlight == queue \o net

\* The keys a key of a combination stands for, and a combination that is held.
Meant(k) == IF k = Control THEN Ctrls ELSE {k}
Held(c, keys) == \A k \in c : Meant(k) \cap keys # {}
AllMeant(c) == UNION {Meant(k) : k \in c}

\* start() in host mode: keys that are held have been pressed without a hook.
Init ==
  /\ phys \in SUBSET Codes
  /\ hookKeys = {} /\ buttons = {} /\ comboActive = FALSE
  /\ combo \in Combos
  /\ paused \in BOOLEAN /\ hook = "idle"
  /\ queue = <<>> /\ net = <<>>
  /\ down = {} /\ recvHeld = FALSE /\ recvPaused = FALSE
  /\ pausedBy = {} /\ lost = phys

Agreed(k) ==
  /\ \A i \in DOMAIN InFlight : k \notin InFlight[i].codes
  /\ (k \in hookKeys \cup buttons) = (k \in phys)
  /\ (k \in down) = (k \in phys)

\* The last conjunct of every action: the codes it has lost an event of.
Note(codes) == lost' = {k \in lost \cup codes : ~ Agreed(k)'}
-----------------------------------------------------------------------------
(* The host's hooks *)

Enqueue(codes, pressed) == queue' = Append(queue, [codes |-> codes, pressed |-> pressed])

Changed(codes, k, pressed) == IF pressed THEN codes \cup {k} ELSE codes \ {k}

\* m_hook_pressed_keys and the button mask are kept while paused as well.
State(codes, k, pressed) == Changed(codes, k, pressed)

\* The change is looked for after the state has been updated.
QueueAfterUpdate(codes, k, pressed) ==
  IF ~ paused /\ (k \in State(codes, k, pressed)) # pressed
  THEN Enqueue({k}, pressed)
  ELSE UNCHANGED queue

\* ProcessKeyFromHook() and the buttons of ProcessMouseFromHook(): what changes the
\* state is queued, unless the host is paused.
QueueEvent(codes, k, pressed) ==
  IF ~ paused /\ (k \in codes) # pressed
  THEN Enqueue({k}, pressed)
  ELSE UNCHANGED queue

\* CheckPauseComboFromHook() up to the explicit releases.
ToggleFromHook(keys) ==
  /\ comboActive' = Held(combo, keys)
  /\ IF comboActive' /\ ~ comboActive
     THEN /\ paused' = ~ paused
          /\ hook' = IF paused THEN "idle" ELSE "pause"
          /\ pausedBy' = IF paused THEN {} ELSE AllMeant(combo)
     ELSE UNCHANGED <<paused, hook, pausedBy>>

\* LowLevelKeyboardProc(): a key goes down, repeats or comes up.
KeyFromHook(k, pressed) ==
  /\ hook = "idle" /\ Len(InFlight) < MaxInFlight
  /\ k \in phys \/ pressed
  /\ phys' = Changed(phys, k, pressed)
  /\ hookKeys' = State(hookKeys, k, pressed)
  /\ QueueEvent(hookKeys, k, pressed)
  /\ ToggleFromHook(hookKeys')
  /\ UNCHANGED <<buttons, combo, net, recvVars>>
  /\ Note(IF paused THEN {k} ELSE {})

\* LowLevelMouseProc(): a button.
ButtonFromHook(b) ==
  /\ hook = "idle" /\ Len(InFlight) < MaxInFlight
  /\ phys' = Changed(phys, b, b \notin phys)
  /\ buttons' = State(buttons, b, b \notin phys)
  /\ QueueEvent(buttons, b, b \notin phys)
  /\ UNCHANGED <<hookKeys, combo, comboActive, paused, hook, net, recvVars, pausedBy>>
  /\ Note(IF paused THEN {b} ELSE {})

\* The system passes over a hook that is too slow.
HookBypassed(k) ==
  /\ phys' = Changed(phys, k, k \notin phys)
  /\ UNCHANGED <<hookKeys, buttons, combo, comboActive, paused, hook, queue, net,
                 recvVars, pausedBy>>
  /\ Note({k})

\* Only what stands in the combination itself is released.
ReleaseAsWritten(c) == c \cap Codes

\* Nothing is done about VK_CONTROL.
ReleaseUnexpanded(c) == c

\* The codes of explicit_release_payload.
ReleaseOf(c) == AllMeant(c)

\* The rest of CheckPauseComboFromHook(), which reads the combination again.
ReleaseCombo ==
  /\ hook = "pause"
  /\ hook' = "idle"
  /\ Enqueue(ReleaseOf(combo), FALSE)
  /\ UNCHANGED <<phys, hookKeys, buttons, combo, comboActive, paused, net, recvVars,
                 pausedBy>>
  /\ Note(AllMeant(combo))

\* setPauseKeyCombo() by the UI thread.  The panel never sets an empty combination.  If
\* it comes before ReleaseCombo, what paused the host is not what is released.
SetPauseKeyCombo(c) ==
  /\ c # combo
  /\ combo' = c
  /\ comboActive' = FALSE
  /\ pausedBy' = IF hook = "pause" THEN {} ELSE pausedBy
  /\ UNCHANGED <<phys, hookKeys, buttons, paused, hook, queue, net, recvVars>>
  /\ Note({})

\* pollEvents() and the sending in Client::inputLoop().
HostPolls ==
  /\ queue # <<>>
  /\ net' = net \o queue
  /\ queue' = <<>>
  /\ UNCHANGED <<phys, hookKeys, buttons, combo, comboActive, paused, hook, recvVars,
                 pausedBy>>
  /\ Note({})
-----------------------------------------------------------------------------
(* The receiver *)

\* SendInput() for the key events of a payload.
Inject(p) == IF p.pressed THEN down \cup p.codes ELSE down \ p.codes

\* Client::handleMessage() of an Input message, and simulateInput().
SimulateInput ==
  /\ net # <<>>
  /\ net' = Tail(net)
  /\ down' = IF recvPaused THEN down ELSE Inject(Head(net))
  /\ pausedBy' = IF recvPaused THEN pausedBy \ Head(net).codes ELSE pausedBy
  /\ UNCHANGED <<phys, hookKeys, buttons, combo, comboActive, paused, hook, queue,
                 recvHeld, recvPaused>>
  /\ Note(IF recvPaused THEN Head(net).codes ELSE {})

\* pollEvents() in client mode: what it finds is not sent, but the combination counts,
\* whoever holds it, the receiver's own user or the host.
ReceiverPolls(own) ==
  /\ recvHeld' = (own \/ Held(DefaultCombo, down))
  /\ recvPaused' = IF recvHeld' /\ ~ recvHeld THEN ~ recvPaused ELSE recvPaused
  /\ UNCHANGED <<phys, hookKeys, buttons, combo, comboActive, paused, hook, queue, net,
                 down, pausedBy, lost>>
-----------------------------------------------------------------------------
Next ==
  \/ \E k \in Keys, pressed \in BOOLEAN : KeyFromHook(k, pressed)
  \/ \E b \in Buttons : ButtonFromHook(b)
  \/ \E k \in Keys : HookBypassed(k)
  \/ ReleaseCombo
  \/ \E c \in Combos : SetPauseKeyCombo(c)
  \/ HostPolls
  \/ SimulateInput
  \/ \E own \in BOOLEAN : ReceiverPolls(own)

Spec == Init /\ [][Next]_vars

\* The two Ctrl keys may be exchanged.
Symmetry == Permutations(Ctrls)
-----------------------------------------------------------------------------
(* Properties *)

Quiet == hook = "idle" /\ InFlight = <<>>

\* While the host is paused, a receiver that has heard everything holds down no key of
\* the combination that paused it, unless the receiver was paused itself or the
\* combination was set anew between the pause and the release (WindowsInput.cpp:713).
PauseReleasesCombo == paused /\ Quiet => down \cap pausedBy = {}

\* With nothing on its way, the two ends differ only about codes of which an event was
\* lost: bypassed by the system, struck while the host or the receiver was paused, or
\* released for the pause (WindowsInput.cpp:498, :575).
KeysAgree ==
  Quiet => \A k \in Codes \ lost : (k \in down) = (k \in phys)
=============================================================================
