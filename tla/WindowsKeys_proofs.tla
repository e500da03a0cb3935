------------------------- MODULE WindowsKeys_proofs -------------------------
(***************************************************************************)
(* Proofs about the keys and buttons of WindowsKeys, for any keys, buttons *)
(* and combinations and any number of payloads on their way: types, that   *)
(* both ends agree about what has not lost an event, and that a pause      *)
(* releases the combination it was made with.                              *)
(***************************************************************************)
EXTENDS WindowsKeys, SequenceTheorems, TLAPS

-----------------------------------------------------------------------------
(* What payloads on their way will have done *)

\* When the payloads of q have been injected into D, is k down iff it is in S?
Becomes(k, q, D, S) ==
  \/ (\A i \in 1..Len(q) : k \notin q[i].codes) /\ (k \in D <=> k \in S)
  \/ \E i \in 1..Len(q) : /\ k \in q[i].codes
                          /\ \A j \in (i + 1)..Len(q) : k \notin q[j].codes
                          /\ q[i].pressed <=> k \in S

Payload(codes, pressed) == [codes |-> codes, pressed |-> pressed]

LEMMA PayloadType ==
  ASSUME NEW codes \in SUBSET Codes, NEW pressed \in BOOLEAN
  PROVE  Payload(codes, pressed) \in Payloads
  BY DEF Payload, Payloads

\* A payload that is about k decides about k.
LEMMA BecomesDecided ==
  ASSUME NEW k, NEW q \in Seq(Payloads), NEW e \in Payloads, NEW D, NEW S,
         k \in e.codes, e.pressed <=> k \in S
  PROVE  Becomes(k, Append(q, e), D, S)
<1> DEFINE n == Len(q)
           r == Append(q, e)
<1>1. n \in Nat /\ Len(r) = n + 1 /\ r[n + 1] = e
  BY LenProperties, AppendProperties
<1> HIDE DEF n, r
<1>2. n + 1 \in 1..Len(r) /\ \A j \in ((n + 1) + 1)..Len(r) : k \notin r[j].codes
  BY <1>1
<1>3. k \in r[n + 1].codes /\ (r[n + 1].pressed <=> k \in S)
  BY <1>1
<1>4. Becomes(k, r, D, S)
  BY <1>2, <1>3 DEF Becomes
<1>5. QED
  BY <1>4 DEF r

\* One that is not changes nothing about it.
LEMMA BecomesStill ==
  ASSUME NEW k, NEW q \in Seq(Payloads), NEW e \in Payloads, NEW D, NEW S,
         k \notin e.codes, Becomes(k, q, D, S)
  PROVE  Becomes(k, Append(q, e), D, S)
<1> DEFINE n == Len(q)
           r == Append(q, e)
<1>1. /\ n \in Nat /\ Len(r) = n + 1 /\ r[n + 1] = e
      /\ \A i \in 1..n : r[i] = q[i]
  BY LenProperties, AppendProperties
<1>2. CASE (\A i \in 1..n : k \notin q[i].codes) /\ (k \in D <=> k \in S)
  <2> HIDE DEF n, r
  <2>1. \A i \in 1..Len(r) : i \in 1..n \/ i = n + 1
    BY <1>1
  <2>2. \A i \in 1..Len(r) : k \notin r[i].codes
    BY <1>1, <1>2, <2>1
  <2>3. Becomes(k, r, D, S)
    BY <1>2, <2>2 DEF Becomes
  <2>4. QED
    BY <2>3 DEF r
<1>3. ASSUME NEW i \in 1..n, k \in q[i].codes, q[i].pressed <=> k \in S,
             \A j \in (i + 1)..n : k \notin q[j].codes
      PROVE  Becomes(k, r, D, S)
  <2> HIDE DEF n, r
  <2>1. i \in 1..Len(r) /\ r[i] = q[i]
    BY <1>1
  <2>2. \A j \in (i + 1)..Len(r) : (j \in (i + 1)..n /\ j \in 1..n) \/ j = n + 1
    BY <1>1
  <2>3. \A j \in (i + 1)..Len(r) : k \notin r[j].codes
    BY <1>1, <1>3, <2>2
  <2>4. QED
    BY <1>3, <2>1, <2>3 DEF Becomes
<1>4. QED
  BY <1>2, <1>3 DEF Becomes

\* The first payload is injected.
LEMMA BecomesInjected ==
  ASSUME NEW k, NEW q \in Seq(Payloads), q # <<>>, NEW D, NEW E, NEW S,
         Becomes(k, q, D, S),
         k \notin Head(q).codes => (k \in E <=> k \in D),
         k \in Head(q).codes => (k \in E <=> Head(q).pressed)
  PROVE  Becomes(k, Tail(q), E, S)
<1> DEFINE n == Len(q)
           r == Tail(q)
<1>1. /\ n \in Nat \ {0} /\ Len(r) = n - 1 /\ Head(q) = q[1]
      /\ \A i \in 1..(n - 1) : r[i] = q[i + 1]
  BY LenProperties, HeadTailProperties
<1>2. CASE (\A i \in 1..n : k \notin q[i].codes) /\ (k \in D <=> k \in S)
  <2> HIDE DEF n, r
  <2>1. 1 \in 1..n /\ \A i \in 1..Len(r) : i + 1 \in 1..n
    BY <1>1
  <2>2. \A i \in 1..Len(r) : k \notin r[i].codes
    BY <1>1, <1>2, <2>1
  <2>3. k \notin Head(q).codes
    BY <1>1, <1>2, <2>1
  <2>4. k \in E <=> k \in S
    BY <1>2, <2>3
  <2>5. Becomes(k, r, E, S)
    BY <2>2, <2>4 DEF Becomes
  <2>6. QED
    BY <2>5 DEF r
<1>3. ASSUME NEW i \in 1..n, k \in q[i].codes, q[i].pressed <=> k \in S,
             \A j \in (i + 1)..n : k \notin q[j].codes
      PROVE  Becomes(k, r, E, S)
  <2> HIDE DEF n, r
  <2>1. CASE i = 1
    <3>1. k \in E <=> k \in S
      BY <1>1, <1>3, <2>1
    <3>2. \A j \in 1..Len(r) : r[j] = q[j + 1] /\ j + 1 \in (i + 1)..n
      BY <1>1, <2>1
    <3>3. \A j \in 1..Len(r) : k \notin r[j].codes
      BY <1>3, <3>2
    <3>4. QED
      BY <3>1, <3>3 DEF Becomes
  <2>2. CASE i # 1
    <3>1. PICK h \in 1..Len(r) : h + 1 = i
      <4>1. i - 1 \in 1..Len(r) /\ (i - 1) + 1 = i
        BY <1>1, <2>2
      <4>2. QED
        BY <4>1
    <3>2. r[h] = q[i]
      BY <1>1, <3>1
    <3>3. \A j \in (h + 1)..Len(r) : r[j] = q[j + 1] /\ j + 1 \in (i + 1)..n
      BY <1>1, <3>1
    <3>4. \A j \in (h + 1)..Len(r) : k \notin r[j].codes
      BY <1>3, <3>3
    <3>5. QED
      BY <1>3, <3>2, <3>4 DEF Becomes
  <2>3. QED
    BY <2>1, <2>2
<1>4. QED
  BY <1>2, <1>3 DEF Becomes

\* Nothing on its way: it is so already.
LEMMA BecomesNow == ASSUME NEW k, NEW D, NEW S
                    PROVE  Becomes(k, <<>>, D, S) <=> (k \in D <=> k \in S)
  BY DEF Becomes
-----------------------------------------------------------------------------
(* The payloads in the order they will arrive *)

InOrder == net \o queue

LEMMA InOrderType == ASSUME TypeOK PROVE InOrder \in Seq(Payloads)
  BY ConcatProperties DEF TypeOK, InOrder

LEMMA OrderAppend ==
  ASSUME TypeOK, NEW e \in Payloads, queue' = Append(queue, e), net' = net
  PROVE  InOrder' = Append(InOrder, e)
<1>1. ASSUME NEW p \in Seq(Payloads), NEW q \in Seq(Payloads)
      PROVE  p \o Append(q, e) = Append(p \o q, e)
  OBVIOUS
<1>2. QED
  BY <1>1 DEF InOrder, TypeOK

LEMMA OrderPolled ==
  ASSUME TypeOK, net' = net \o queue, queue' = <<>>
  PROVE  InOrder' = InOrder
<1>1. ASSUME NEW p \in Seq(Payloads)
      PROVE  p \o <<>> = p
  OBVIOUS
<1>2. QED
  BY <1>1, InOrderType DEF InOrder

LEMMA OrderTail ==
  ASSUME TypeOK, net # <<>>, net' = Tail(net), queue' = queue
  PROVE  InOrder # <<>> /\ InOrder' = Tail(InOrder) /\ Head(InOrder) = Head(net)
<1>1. ASSUME NEW p \in Seq(Payloads), NEW q \in Seq(Payloads), p # <<>>
      PROVE  p \o q # <<>> /\ Tail(p) \o q = Tail(p \o q) /\ Head(p \o q) = Head(p)
  <2>1. /\ Len(p) \in Nat \ {0} /\ Len(q) \in Nat /\ p \o q \in Seq(Payloads)
        /\ Len(p \o q) = Len(p) + Len(q) /\ Head(p) = p[1] /\ (p \o q)[1] = p[1]
    BY <1>1, LenProperties, ConcatProperties, HeadTailProperties, EmptySeq
  <2>2. p \o q # <<>> /\ Head(p \o q) = Head(p)
    BY <2>1, HeadTailProperties, EmptySeq
  <2>3. Tail(p) \in Seq(Payloads) /\ Len(Tail(p)) = Len(p) - 1
        /\ \A i \in 1..(Len(p) - 1) : Tail(p)[i] = p[i + 1]
    BY <1>1, HeadTailProperties
  <2>4. PICK t \in Seq(Payloads) : t = Tail(p)
    BY <2>3
  <2>5. Tail(p \o q) \in Seq(Payloads) /\ t \o q \in Seq(Payloads)
        /\ Len(Tail(p \o q)) = Len(p) + Len(q) - 1 /\ Len(t \o q) = Len(p) + Len(q) - 1
    BY <2>1, <2>2, <2>3, <2>4, HeadTailProperties, ConcatProperties
  <2>6. \A i \in 1..(Len(p) + Len(q) - 1) : Tail(p \o q)[i] = (t \o q)[i]
    BY <2>1, <2>2, <2>3, <2>4
  <2>7. Tail(p \o q) = t \o q
    BY <2>5, <2>6, SeqEqual
  <2>8. QED
    BY <2>2, <2>4, <2>7
<1>2. QED
  BY <1>1 DEF InOrder, TypeOK
-----------------------------------------------------------------------------
(* Types *)

LEMMA MeantType == ASSUME NEW c \in Combos, BoundsAssumption PROVE AllMeant(c) \subseteq Keys
  BY DEF Combos, AllMeant, Meant, Keys, BoundsAssumption

Switches == /\ comboActive \in BOOLEAN /\ paused \in BOOLEAN
            /\ recvHeld \in BOOLEAN /\ recvPaused \in BOOLEAN

CodeSets == /\ phys \subseteq Codes /\ hookKeys \subseteq Keys /\ buttons \subseteq Buttons
            /\ down \subseteq Codes /\ pausedBy \subseteq Keys /\ lost \subseteq Codes

Rest == /\ combo \in Combos /\ hook \in {"idle", "pause"}
        /\ queue \in Seq(Payloads) /\ net \in Seq(Payloads)

LEMMA TypeParts == /\ TypeOK <=> Switches /\ CodeSets /\ Rest
                   /\ TypeOK' <=> Switches' /\ CodeSets' /\ Rest'
  BY DEF TypeOK, Switches, CodeSets, Rest

\* What the hook queues is a payload about the one code.
LEMMA QueuesOne ==
  ASSUME TypeOK, NEW codes, NEW k \in Codes, NEW pressed \in BOOLEAN,
         QueueEvent(codes, k, pressed)
  PROVE  /\ queue' \in {queue, Append(queue, Payload({k}, pressed))}
         /\ queue' \in Seq(Payloads)
         /\ paused => queue' = queue
         /\ ~paused /\ (k \in codes <=> pressed) => queue' = queue
         /\ ~paused /\ ~(k \in codes <=> pressed) =>
              queue' = Append(queue, Payload({k}, pressed))
<1>1. Payload({k}, pressed) \in Payloads
  BY PayloadType
<1>2. queue' \in {queue, Append(queue, Payload({k}, pressed))}
  BY DEF QueueEvent, Enqueue, Payload
<1>3. queue' \in Seq(Payloads)
  BY <1>1, <1>2, AppendProperties DEF TypeOK
<1>4. QED
  BY <1>2, <1>3 DEF QueueEvent, Enqueue, Payload

LEMMA LostType == ASSUME NEW S, Note(S), lost \subseteq Codes, S \subseteq Codes
                  PROVE  lost' \subseteq Codes
  BY DEF Note

LEMMA TypeKey ==
  ASSUME BoundsAssumption, TypeOK, NEW k \in Keys, NEW pressed \in BOOLEAN,
         KeyFromHook(k, pressed)
  PROVE  TypeOK'
<1>1. Switches /\ CodeSets /\ Rest /\ k \in Codes
  BY TypeParts DEF Codes
<1>2. Switches'
  <2>1. comboActive' \in BOOLEAN
    BY DEF KeyFromHook, ToggleFromHook, Held
  <2>2. paused' \in {paused, ~paused}
    BY DEF KeyFromHook, ToggleFromHook
  <2>3. paused' \in BOOLEAN
    BY <1>1, <2>2 DEF Switches
  <2>4. QED
    BY <1>1, <2>1, <2>3 DEF Switches, KeyFromHook, recvVars
<1>3. Rest'
  BY <1>1, QueuesOne DEF Rest, KeyFromHook, ToggleFromHook
<1>4. pausedBy' \subseteq Keys
  BY <1>1, MeantType DEF Rest, CodeSets, KeyFromHook, ToggleFromHook
<1>5. lost' \subseteq Codes
  <2>1. (IF paused THEN {k} ELSE {}) \subseteq Codes
    BY <1>1
  <2>2. QED
    BY <1>1, <2>1, LostType DEF CodeSets, KeyFromHook
<1>6. CodeSets'
  BY <1>1, <1>4, <1>5 DEF CodeSets, KeyFromHook, State, Changed, recvVars
<1>7. QED
  BY <1>2, <1>3, <1>6, TypeParts

LEMMA TypeButton ==
  ASSUME TypeOK, NEW b \in Buttons, ButtonFromHook(b)
  PROVE  TypeOK'
<1>1. Switches /\ CodeSets /\ Rest /\ b \in Codes /\ (b \notin phys) \in BOOLEAN
  BY TypeParts DEF Codes
<1>2. Switches'
  BY <1>1 DEF Switches, ButtonFromHook, recvVars
<1>3. Rest'
  BY <1>1, QueuesOne DEF Rest, ButtonFromHook
<1>4. lost' \subseteq Codes
  <2>1. (IF paused THEN {b} ELSE {}) \subseteq Codes
    BY <1>1
  <2>2. QED
    BY <1>1, <2>1, LostType DEF CodeSets, ButtonFromHook
<1>5. CodeSets'
  BY <1>1, <1>4 DEF CodeSets, ButtonFromHook, State, Changed, recvVars
<1>6. QED
  BY <1>2, <1>3, <1>5, TypeParts

LEMMA ReleaseType ==
  ASSUME BoundsAssumption, TypeOK
  PROVE  AllMeant(combo) \subseteq Codes /\ Payload(AllMeant(combo), FALSE) \in Payloads
  BY MeantType, PayloadType DEF TypeOK, Codes

LEMMA TypeOthers ==
  ASSUME BoundsAssumption, TypeOK,
         \/ \E k \in Keys : HookBypassed(k)
         \/ ReleaseCombo
         \/ \E c \in Combos : SetPauseKeyCombo(c)
         \/ HostPolls
         \/ SimulateInput
         \/ \E own \in BOOLEAN : ReceiverPolls(own)
  PROVE  TypeOK'
<1>1. Switches /\ CodeSets /\ Rest
  BY TypeParts
<1>2. ASSUME NEW k \in Keys, HookBypassed(k) PROVE TypeOK'
  <2>1. lost' \subseteq Codes /\ phys' \subseteq Codes
    BY <1>1, <1>2, LostType DEF CodeSets, HookBypassed, Changed, Codes
  <2>2. QED
    BY <1>1, <1>2, <2>1, TypeParts DEF HookBypassed, Switches, CodeSets, Rest, recvVars
<1>3. CASE ReleaseCombo
  <2>1. queue' = Append(queue, Payload(AllMeant(combo), FALSE))
    BY <1>3 DEF ReleaseCombo, Enqueue, ReleaseOf, Payload
  <2>2. queue' \in Seq(Payloads)
    BY <1>1, <2>1, ReleaseType, AppendProperties DEF Rest
  <2>3. lost' \subseteq Codes
    BY <1>1, <1>3, ReleaseType, LostType DEF CodeSets, ReleaseCombo
  <2>4. QED
    BY <1>1, <1>3, <2>2, <2>3, TypeParts DEF ReleaseCombo, Switches, CodeSets, Rest, recvVars
<1>4. ASSUME NEW c \in Combos, SetPauseKeyCombo(c) PROVE TypeOK'
  <2>1. lost' \subseteq Codes
    BY <1>1, <1>4, LostType DEF CodeSets, SetPauseKeyCombo
  <2>2. QED
    BY <1>1, <1>4, <2>1, TypeParts DEF SetPauseKeyCombo, Switches, CodeSets, Rest, recvVars
<1>5. CASE HostPolls
  <2>1. net' \in Seq(Payloads) /\ queue' \in Seq(Payloads)
    BY <1>1, <1>5, ConcatProperties, EmptySeq DEF HostPolls, Rest
  <2>2. lost' \subseteq Codes
    BY <1>1, <1>5, LostType DEF CodeSets, HostPolls
  <2>3. QED
    BY <1>1, <1>5, <2>1, <2>2, TypeParts DEF HostPolls, Switches, CodeSets, Rest, recvVars
<1>6. CASE SimulateInput
  <2>1. net' \in Seq(Payloads) /\ Head(net) \in Payloads
    BY <1>1, <1>6, HeadTailProperties DEF SimulateInput, Rest
  <2>2. Head(net).codes \subseteq Codes
    BY <2>1 DEF Payloads
  <2>3. (IF recvPaused THEN Head(net).codes ELSE {}) \subseteq Codes
    BY <2>2
  <2>4. lost' \subseteq Codes
    BY <1>1, <1>6, <2>3, LostType DEF CodeSets, SimulateInput
  <2>5. CodeSets'
    BY <1>1, <1>6, <2>2, <2>4 DEF SimulateInput, CodeSets, Inject
  <2>6. QED
    BY <1>1, <1>6, <2>1, <2>5, TypeParts DEF SimulateInput, Switches, Rest
<1>7. ASSUME NEW own \in BOOLEAN, ReceiverPolls(own) PROVE TypeOK'
  <2>1. recvHeld' \in BOOLEAN /\ recvPaused' \in BOOLEAN
    BY <1>1, <1>7 DEF ReceiverPolls, Switches, Held
  <2>2. QED
    BY <1>1, <1>7, <2>1, TypeParts DEF ReceiverPolls, Switches, CodeSets, Rest
<1>8. QED
  BY <1>2, <1>3, <1>4, <1>5, <1>6, <1>7

LEMMA TypeStep == ASSUME BoundsAssumption, TypeOK, [Next]_vars PROVE TypeOK'
<1>1. CASE UNCHANGED vars
  BY <1>1 DEF vars, recvVars, TypeOK
<1>2. CASE Next
  BY <1>2, TypeKey, TypeButton, TypeOthers DEF Next
<1>3. QED
  BY <1>1, <1>2

\* The variables stay in their types: payloads are about codes, and only keys of a
\* combination pause.
THEOREM TypeCorrect == Spec => []TypeOK
<1>1. Init => TypeOK
  <2> SUFFICES ASSUME Init PROVE TypeOK
    OBVIOUS
  <2>1. <<>> \in Seq(Payloads)
    BY EmptySeq
  <2>2. QED
    BY <2>1 DEF Init, TypeOK
<1>2. TypeOK /\ [Next]_vars => TypeOK'
  BY BoundsAssumption, TypeStep
<1>3. QED
  BY <1>1, <1>2, PTL DEF Spec
-----------------------------------------------------------------------------
(* What has lost no event *)

\* The host believes of k what is so, and the receiver will.
Follows(k) ==
  /\ Becomes(k, InOrder, down, phys)
  /\ k \in hookKeys \cup buttons <=> k \in phys

Tracked == \A k \in Codes \ lost : Follows(k)

\* Payloads that are not about k are not, in whichever order.
LEMMA NothingAbout ==
  ASSUME NEW p \in Seq(Payloads), NEW q \in Seq(Payloads), NEW k,
         \A i \in DOMAIN (p \o q) : k \notin (p \o q)[i].codes
  PROVE  \A i \in 1..Len(q \o p) : k \notin (q \o p)[i].codes
<1>1. Len(p) \in Nat /\ Len(q) \in Nat /\ DOMAIN (p \o q) = 1..(Len(p) + Len(q))
  BY LenProperties
<1>2. \A i \in 1..Len(p) : (p \o q)[i] = p[i] /\ i \in DOMAIN (p \o q)
  BY <1>1
<1>3. \A i \in 1..Len(q) : (p \o q)[Len(p) + i] = q[i] /\ Len(p) + i \in DOMAIN (p \o q)
  BY <1>1
<1>4. (\A i \in 1..Len(p) : k \notin p[i].codes) /\ (\A i \in 1..Len(q) : k \notin q[i].codes)
  BY <1>2, <1>3
<1>5. /\ Len(q \o p) = Len(q) + Len(p)
      /\ \A i \in 1..Len(q) : (q \o p)[i] = q[i]
      /\ \A i \in (Len(q) + 1)..(Len(q) + Len(p)) : (q \o p)[i] = p[i - Len(q)]
  BY ConcatProperties
<1>6. \A i \in 1..Len(q \o p) :
        \/ i \in 1..Len(q)
        \/ i \in (Len(q) + 1)..(Len(q) + Len(p)) /\ i - Len(q) \in 1..Len(p)
  BY <1>1, <1>5
<1>7. QED
  BY <1>4, <1>5, <1>6

\* A step is good if it follows on those that lose no event in it.
LEMMA TrackedBy ==
  ASSUME TypeOK', Tracked, NEW S, Note(S),
         \A k \in Codes : k \notin lost \cup S /\ Follows(k) => Follows(k)'
  PROVE  Tracked'
<1>1. ASSUME NEW k \in Codes, k \notin lost' PROVE Follows(k)'
  <2>1. k \notin lost \cup S \/ Agreed(k)'
    BY <1>1 DEF Note
  <2>2. CASE Agreed(k)'
    <3>1. \A i \in DOMAIN (queue' \o net') : k \notin (queue' \o net')[i].codes
      BY <2>2 DEF Agreed, InFlight
    <3>2. \A i \in 1..Len(InOrder') : k \notin InOrder'[i].codes
      BY <3>1, NothingAbout DEF TypeOK, InOrder
    <3>3. (k \in down' <=> k \in phys') /\ (k \in hookKeys' \cup buttons' <=> k \in phys')
      BY <2>2 DEF Agreed
    <3>4. QED
      BY <3>2, <3>3 DEF Follows, Becomes
  <2>3. CASE k \notin lost \cup S
    BY <2>3 DEF Tracked
  <2>4. QED
    BY <2>1, <2>2, <2>3
<1>2. QED
  BY <1>1 DEF Tracked

\* A queue is not what it was with a payload more.
LEMMA QueueGrows ==
  ASSUME NEW q \in Seq(Payloads), NEW e \in Payloads
  PROVE  Append(q, e) # q
<1>1. Len(Append(q, e)) = Len(q) + 1 /\ Len(q) \in Nat
  BY AppendProperties, LenProperties
<1>2. QED
  BY <1>1

\* The hook hears of a key or a button k: codes is what it noted of that kind.
LEMMA FollowsQueued ==
  ASSUME TypeOK, NEW codes, NEW k \in Codes, NEW pressed \in BOOLEAN, net' = net, down' = down,
         QueueEvent(codes, k, pressed), phys' = Changed(phys, k, pressed),
         NEW j \in Codes, Becomes(j, InOrder, down, phys),
         j = k => ~paused /\ (k \in codes <=> k \in phys)
  PROVE  Becomes(j, InOrder, down, phys)'
<1>1. /\ (j = k => (j \in phys' <=> pressed)) /\ (j # k => (j \in phys' <=> j \in phys))
  BY DEF Changed
<1>2. InOrder \in Seq(Payloads)
  BY InOrderType
<1>3. CASE queue' = queue
  <2>1. queue # Append(queue, Payload({k}, pressed))
    BY PayloadType, QueueGrows DEF TypeOK
  <2>4. ASSUME j = k PROVE j \in phys <=> pressed
    BY <1>3, <2>1, <2>4, QueuesOne
  <2>5. j \in phys' <=> j \in phys
    BY <1>1, <2>4
  <2>2. InOrder' = InOrder
    BY <1>3 DEF InOrder
  <2>3. QED
    BY <2>2, <2>5 DEF Becomes
<1>4. CASE queue' = Append(queue, Payload({k}, pressed))
  <2>1. PICK e \in Payloads : e = Payload({k}, pressed)
    BY PayloadType
  <2>2. InOrder' = Append(InOrder, e)
    BY <1>4, <2>1, OrderAppend
  <2>3. e.codes = {k} /\ e.pressed = pressed
    BY <2>1 DEF Payload
  <2>4. CASE j = k
    BY <1>1, <1>2, <2>2, <2>3, <2>4, BecomesDecided
  <2>5. CASE j # k
    <3>1. Becomes(j, Append(InOrder, e), down, phys)
      BY <1>2, <2>3, <2>5, BecomesStill
    <3>2. Becomes(j, Append(InOrder, e), down, phys')
      BY <1>1, <2>5, <3>1 DEF Becomes
    <3>3. QED
      BY <2>2, <3>2
  <2>6. QED
    BY <2>4, <2>5
<1>5. QED
  BY <1>3, <1>4, QueuesOne

LEMMA TrackedKey ==
  ASSUME CodesAssumption, TypeOK, TypeOK', Tracked, NEW k \in Keys, NEW pressed \in BOOLEAN,
         KeyFromHook(k, pressed)
  PROVE  Tracked'
<1>1. /\ phys' = Changed(phys, k, pressed) /\ hookKeys' = Changed(hookKeys, k, pressed)
      /\ QueueEvent(hookKeys, k, pressed)
      /\ UNCHANGED <<buttons, net, down>>
      /\ Note(IF paused THEN {k} ELSE {})
  BY DEF KeyFromHook, State, recvVars
<1>2. k \in Codes /\ k \notin buttons
  BY DEF CodesAssumption, Codes, TypeOK
<1>3. ASSUME NEW j \in Codes, j \notin lost \cup (IF paused THEN {k} ELSE {}), Follows(j)
      PROVE  Follows(j)'
  <2>1. j = k => ~paused /\ (k \in hookKeys <=> k \in phys)
    BY <1>2, <1>3 DEF Follows
  <2>2. Becomes(j, InOrder, down, phys)'
    BY <1>1, <1>2, <1>3, <2>1, FollowsQueued DEF Follows
  <2>3. j \in hookKeys' \cup buttons' <=> j \in phys'
    BY <1>1, <1>2, <1>3 DEF Follows, Changed
  <2>4. QED
    BY <2>2, <2>3 DEF Follows
<1>4. QED
  BY <1>1, <1>3, TrackedBy

LEMMA TrackedButton ==
  ASSUME CodesAssumption, TypeOK, TypeOK', Tracked, NEW b \in Buttons, ButtonFromHook(b)
  PROVE  Tracked'
<1>1. PICK pressed \in BOOLEAN : pressed <=> b \notin phys
  OBVIOUS
<1>2. /\ phys' = Changed(phys, b, pressed) /\ buttons' = Changed(buttons, b, pressed)
      /\ QueueEvent(buttons, b, pressed)
      /\ UNCHANGED <<hookKeys, net, down>>
      /\ Note(IF paused THEN {b} ELSE {})
  BY <1>1 DEF ButtonFromHook, State, Changed, QueueEvent, Enqueue, recvVars
<1>3. b \in Codes /\ b \notin hookKeys
  BY DEF CodesAssumption, Codes, TypeOK
<1>4. ASSUME NEW j \in Codes, j \notin lost \cup (IF paused THEN {b} ELSE {}), Follows(j)
      PROVE  Follows(j)'
  <2>1. j = b => ~paused /\ (b \in buttons <=> b \in phys)
    BY <1>3, <1>4 DEF Follows
  <2>2. Becomes(j, InOrder, down, phys)'
    BY <1>2, <1>3, <1>4, <2>1, FollowsQueued DEF Follows
  <2>3. j \in hookKeys' \cup buttons' <=> j \in phys'
    BY <1>2, <1>3, <1>4 DEF Follows, Changed
  <2>4. QED
    BY <2>2, <2>3 DEF Follows
<1>5. QED
  BY <1>2, <1>4, TrackedBy

LEMMA TrackedOthers ==
  ASSUME BoundsAssumption, TypeOK, TypeOK', Tracked,
         \/ \E k \in Keys : HookBypassed(k)
         \/ ReleaseCombo
         \/ \E c \in Combos : SetPauseKeyCombo(c)
         \/ HostPolls
         \/ SimulateInput
         \/ \E own \in BOOLEAN : ReceiverPolls(own)
  PROVE  Tracked'
<1>1. ASSUME NEW k \in Keys, HookBypassed(k) PROVE Tracked'
  <2>1. Note({k}) /\ phys' = Changed(phys, k, k \notin phys)
        /\ UNCHANGED <<hookKeys, buttons, queue, net, down>>
    BY <1>1 DEF HookBypassed, recvVars
  <2>2. \A j \in Codes : j \notin lost \cup {k} /\ Follows(j) => Follows(j)'
    BY <2>1 DEF Follows, Becomes, InOrder, Changed
  <2>3. QED
    BY <2>1, <2>2, TrackedBy
<1>2. CASE ReleaseCombo
  <2>1. PICK e \in Payloads : e = Payload(AllMeant(combo), FALSE)
    BY ReleaseType
  <2>2. /\ queue' = Append(queue, e) /\ net' = net
        /\ UNCHANGED <<phys, hookKeys, buttons, down>>
        /\ Note(AllMeant(combo)) /\ e.codes = AllMeant(combo)
    BY <1>2, <2>1 DEF ReleaseCombo, Enqueue, ReleaseOf, Payload, recvVars
  <2>3. InOrder' = Append(InOrder, e) /\ InOrder \in Seq(Payloads)
    BY <2>2, OrderAppend, InOrderType
  <2>4. ASSUME NEW j \in Codes, j \notin lost \cup AllMeant(combo), Follows(j)
        PROVE  Follows(j)'
    BY <2>2, <2>3, <2>4, BecomesStill DEF Follows
  <2>5. QED
    BY <2>2, <2>4, TrackedBy
<1>3. ASSUME NEW c \in Combos, SetPauseKeyCombo(c) PROVE Tracked'
  <2>1. Note({}) /\ UNCHANGED <<phys, hookKeys, buttons, queue, net, down>>
    BY <1>3 DEF SetPauseKeyCombo, recvVars
  <2>2. \A j \in Codes : Follows(j) => Follows(j)'
    BY <2>1 DEF Follows, InOrder
  <2>3. QED
    BY <2>1, <2>2, TrackedBy
<1>4. CASE HostPolls
  <2>1. Note({}) /\ UNCHANGED <<phys, hookKeys, buttons, down>>
    BY <1>4 DEF HostPolls, recvVars
  <2>2. InOrder' = InOrder
    BY <1>4, OrderPolled DEF HostPolls
  <2>3. \A j \in Codes : Follows(j) => Follows(j)'
    BY <2>1, <2>2 DEF Follows
  <2>4. QED
    BY <2>1, <2>3, TrackedBy
<1>5. CASE SimulateInput
  <2>1. /\ net # <<>> /\ net' = Tail(net)
        /\ UNCHANGED <<queue, phys, hookKeys, buttons>>
        /\ down' = IF recvPaused THEN down ELSE Inject(Head(net))
        /\ Note(IF recvPaused THEN Head(net).codes ELSE {})
    BY <1>5 DEF SimulateInput
  <2>2. /\ InOrder \in Seq(Payloads) /\ InOrder # <<>> /\ InOrder' = Tail(InOrder)
        /\ Head(InOrder) = Head(net)
    BY <2>1, OrderTail, InOrderType
  <2>3. ASSUME NEW j \in Codes, j \notin lost \cup (IF recvPaused THEN Head(net).codes ELSE {}),
               Follows(j)
        PROVE  Follows(j)'
    <3>1. j \notin Head(net).codes => (j \in down' <=> j \in down)
      BY <2>1 DEF Inject
    <3>2. j \in Head(net).codes => (j \in down' <=> Head(net).pressed)
      BY <2>1, <2>3 DEF Inject
    <3>3. Becomes(j, Tail(InOrder), down', phys)
      BY <2>2, <2>3, <3>1, <3>2, BecomesInjected DEF Follows
    <3>4. QED
      BY <2>1, <2>2, <2>3, <3>3 DEF Follows
  <2>4. QED
    BY <2>1, <2>3, TrackedBy
<1>6. ASSUME NEW own \in BOOLEAN, ReceiverPolls(own) PROVE Tracked'
  <2>1. UNCHANGED <<phys, hookKeys, buttons, queue, net, down, lost>>
    BY <1>6 DEF ReceiverPolls
  <2>2. QED
    BY <2>1 DEF Tracked, Follows, InOrder
<1>7. QED
  BY <1>1, <1>2, <1>3, <1>4, <1>5, <1>6

LEMMA TrackedStep ==
  ASSUME BoundsAssumption, CodesAssumption, TypeOK, TypeOK', Tracked, [Next]_vars
  PROVE  Tracked'
<1>1. CASE UNCHANGED vars
  BY <1>1 DEF vars, recvVars, Tracked, Follows, InOrder
<1>2. CASE Next
  BY <1>2, TrackedKey, TrackedButton, TrackedOthers DEF Next
<1>3. QED
  BY <1>1, <1>2

LEMMA TrackedInit == Init => Tracked
<1> SUFFICES ASSUME Init PROVE Tracked
  OBVIOUS
<1>1. InOrder = <<>>
  BY DEF Init, InOrder
<1>2. \A k \in Codes \ lost : k \notin phys /\ k \notin down /\ k \notin hookKeys \cup buttons
  BY DEF Init
<1>3. QED
  BY <1>1, <1>2, BecomesNow DEF Tracked, Follows

LEMMA NothingInOrder == ASSUME TypeOK, InFlight = <<>> PROVE InOrder = <<>>
<1>1. ASSUME NEW p \in Seq(Payloads), NEW q \in Seq(Payloads), p \o q = <<>>
      PROVE  q \o p = <<>>
  <2>1. Len(p) \in Nat /\ Len(q) \in Nat /\ Len(p) + Len(q) = 0
    BY <1>1, LenProperties, ConcatProperties, EmptySeq
  <2>2. p = <<>> /\ q = <<>>
    BY <2>1, EmptySeq
  <2>3. QED
    BY <1>1, <2>2
<1>2. QED
  BY <1>1 DEF InFlight, InOrder, TypeOK

LEMMA TrackedAgree == TypeOK /\ Tracked => KeysAgree
<1> SUFFICES ASSUME TypeOK, Tracked, Quiet, NEW k \in Codes \ lost
             PROVE  k \in down <=> k \in phys
  BY DEF KeysAgree
<1>1. InOrder = <<>>
  BY NothingInOrder DEF Quiet
<1>2. QED
  BY <1>1, BecomesNow DEF Tracked, Follows

\* Once everything has arrived, the receiver holds down exactly what the host's user
\* does, among the codes of which no event was lost, and what an event was lost of is
\* counted again as soon as both ends agree about it (ProcessKeyFromHook(),
\* ProcessMouseFromHook(), simulateInput()).
THEOREM EndsAgree == Spec => []KeysAgree
<1>1. Init => Tracked
  BY TrackedInit
<1>2. TypeOK /\ TypeOK' /\ Tracked /\ [Next]_vars => Tracked'
  BY BoundsAssumption, CodesAssumption, TrackedStep
<1>3. QED
  BY <1>1, <1>2, TypeCorrect, TrackedAgree, PTL DEF Spec
-----------------------------------------------------------------------------
(* The release for the pause *)

\* While the hook thread is between the toggle and the release, the combination to be
\* released is the one that paused; after it, the last word about its keys is a release.
Released ==
  /\ hook = "pause" => paused /\ pausedBy \subseteq AllMeant(combo)
  /\ paused /\ hook = "idle" => \A k \in pausedBy : Becomes(k, InOrder, down, {})

LEMMA ReleasedKey ==
  ASSUME TypeOK, Released, NEW k, NEW pressed \in BOOLEAN, KeyFromHook(k, pressed)
  PROVE  Released'
<1>1. hook = "idle" /\ UNCHANGED <<combo, net, down>>
  BY DEF KeyFromHook, recvVars
<1>2. CASE UNCHANGED <<paused, hook, pausedBy>>
  <2>1. paused => queue' = queue
    BY DEF KeyFromHook, QueueEvent
  <2>2. QED
    BY <1>1, <1>2, <2>1 DEF Released, InOrder
<1>3. CASE paused' = ~paused /\ hook' = (IF paused THEN "idle" ELSE "pause")
           /\ pausedBy' = IF paused THEN {} ELSE AllMeant(combo)
  BY <1>1, <1>3 DEF Released
<1>4. QED
  BY <1>2, <1>3 DEF KeyFromHook, ToggleFromHook

LEMMA ReleasedStep ==
  ASSUME BoundsAssumption, TypeOK, Released, [Next]_vars
  PROVE  Released'
<1>1. ASSUME NEW k, NEW pressed \in BOOLEAN, KeyFromHook(k, pressed) PROVE Released'
  BY <1>1, ReleasedKey
<1>2. ASSUME NEW b, ButtonFromHook(b) PROVE Released'
  <2>1. UNCHANGED <<combo, paused, hook, net, down, pausedBy>> /\ (paused => queue' = queue)
    BY <1>2 DEF ButtonFromHook, QueueEvent, recvVars
  <2>2. QED
    BY <2>1 DEF Released, InOrder
<1>3. CASE \/ \E k \in Keys : HookBypassed(k)
           \/ \E own \in BOOLEAN : ReceiverPolls(own)
           \/ UNCHANGED vars
  <2>1. UNCHANGED <<combo, paused, hook, queue, net, down, pausedBy>>
    BY <1>3 DEF HookBypassed, ReceiverPolls, vars, recvVars
  <2>2. QED
    BY <2>1 DEF Released, InOrder
<1>4. CASE ReleaseCombo
  <2>1. PICK e \in Payloads : e = Payload(AllMeant(combo), FALSE)
    BY ReleaseType
  <2>2. /\ hook = "pause" /\ hook' = "idle" /\ queue' = Append(queue, e) /\ net' = net
        /\ UNCHANGED <<paused, pausedBy, down>>
        /\ e.codes = AllMeant(combo) /\ ~e.pressed
    BY <1>4, <2>1 DEF ReleaseCombo, Enqueue, ReleaseOf, Payload, recvVars
  <2>3. InOrder' = Append(InOrder, e) /\ InOrder \in Seq(Payloads)
    BY <2>2, OrderAppend, InOrderType
  <2>4. ASSUME NEW k \in pausedBy' PROVE Becomes(k, InOrder', down', {})
    BY <2>2, <2>3, <2>4, BecomesDecided DEF Released
  <2>5. QED
    BY <2>2, <2>4 DEF Released
<1>5. ASSUME NEW c, SetPauseKeyCombo(c) PROVE Released'
  <2>1. /\ UNCHANGED <<paused, hook, queue, net, down>>
        /\ pausedBy' = IF hook = "pause" THEN {} ELSE pausedBy
    BY <1>5 DEF SetPauseKeyCombo, recvVars
  <2>2. QED
    BY <2>1 DEF Released, InOrder
<1>6. CASE HostPolls
  <2>1. UNCHANGED <<combo, paused, hook, down, pausedBy>> /\ InOrder' = InOrder
    BY <1>6, OrderPolled DEF HostPolls, recvVars
  <2>2. QED
    BY <2>1 DEF Released
<1>7. CASE SimulateInput
  <2>1. /\ net # <<>> /\ net' = Tail(net)
        /\ UNCHANGED <<queue, combo, paused, hook>>
        /\ down' = IF recvPaused THEN down ELSE Inject(Head(net))
        /\ pausedBy' = IF recvPaused THEN pausedBy \ Head(net).codes ELSE pausedBy
    BY <1>7 DEF SimulateInput
  <2>2. /\ InOrder \in Seq(Payloads) /\ InOrder # <<>> /\ InOrder' = Tail(InOrder)
        /\ Head(InOrder) = Head(net)
    BY <2>1, OrderTail, InOrderType
  <2>3. ASSUME paused, hook = "idle", NEW k \in pausedBy' PROVE Becomes(k, InOrder', down', {})
    <3>1. k \in pausedBy /\ (recvPaused => k \notin Head(net).codes)
      BY <2>1, <2>3
    <3>2. k \notin Head(net).codes => (k \in down' <=> k \in down)
      BY <2>1 DEF Inject
    <3>3. k \in Head(net).codes => (k \in down' <=> Head(net).pressed)
      BY <2>1, <3>1 DEF Inject
    <3>4. Becomes(k, InOrder, down, {})
      BY <2>3, <3>1 DEF Released
    <3>5. QED
      BY <2>2, <3>2, <3>3, <3>4, BecomesInjected
  <2>4. QED
    BY <2>1, <2>3 DEF Released
<1>8. QED
  BY <1>1, <1>2, <1>3, <1>4, <1>5, <1>6, <1>7 DEF Next

LEMMA ReleasedFree == TypeOK /\ Released => PauseReleasesCombo
<1> SUFFICES ASSUME TypeOK, Released, paused, Quiet, NEW k \in pausedBy
             PROVE  k \notin down
  BY DEF PauseReleasesCombo
<1>1. Becomes(k, InOrder, down, {})
  BY DEF Released, Quiet
<1>2. InOrder = <<>>
  BY NothingInOrder DEF Quiet
<1>3. QED
  BY <1>1, <1>2, BecomesNow

\* A pause leaves no key of its combination down on a receiver that listens: the explicit
\* release comes after every press that was queued, and nothing is queued while paused
\* (CheckPauseComboFromHook()).
THEOREM PauseReleases == Spec => []PauseReleasesCombo
<1>1. Init => Released
  BY DEF Init, Released
<1>2. TypeOK /\ Released /\ [Next]_vars => Released'
  BY BoundsAssumption, ReleasedStep
<1>3. QED
  BY <1>1, <1>2, TypeCorrect, ReleasedFree, PTL DEF Spec
=============================================================================
