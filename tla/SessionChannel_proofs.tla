------------------------ MODULE SessionChannel_proofs ------------------------
(***************************************************************************)
(* Proofs about SessionChannel: type correctness, the invariants of the    *)
(* write path for any number of senders and calls, that no close is lost,  *)
(* and that the channel implements the FIFO pipe.                          *)
(***************************************************************************)
EXTENDS SessionChannel, SequenceTheorems, TLAPS

\* The provers do not see by themselves that the empty sequence has a type.
LEMMA EmptyQueues == <<>> \in Seq(Nat) /\ <<>> \in Seq({"send", "close"})
  BY EmptySeq

\* A sequence is empty exactly when its length is 0.
LEMMA EmptyIff == ASSUME NEW S, NEW s \in Seq(S)
                  PROVE  Len(s) \in Nat /\ (s = <<>> <=> Len(s) = 0)
<1>1. s # <<>> => Len(s) # 0
  <2>1. s # <<>> => Len(s) \in Nat \ {0}
    BY EmptySeq
  <2>2. QED
    BY <2>1
<1>2. s = <<>> => Len(s) = 0
  OBVIOUS
<1>3. QED
  BY <1>1, <1>2

\* Adding an element at the end of one of the FIFO sequences.
LEMMA AppendTo == ASSUME NEW S, NEW s \in Seq(S), NEW e \in S
                  PROVE  /\ Append(s, e) \in Seq(S)
                         /\ Append(s, e) # <<>>
                         /\ Len(Append(s, e)) = Len(s) + 1
                         /\ \A i \in 1..Len(s) : Append(s, e)[i] = s[i]
                         /\ Append(s, e)[Len(s) + 1] = e
  BY AppendProperties

\* Taking the front off one of the FIFO sequences.
LEMMA TailOf == ASSUME NEW S, NEW s \in Seq(S), s # <<>>
                PROVE  /\ Head(s) \in S
                       /\ Head(s) = s[1]
                       /\ Tail(s) \in Seq(S)
                       /\ Len(Tail(s)) = Len(s) - 1
                       /\ \A i \in 1..Len(Tail(s)) : Tail(s)[i] = s[i+1]
<1>1. /\ Head(s) \in S
      /\ Tail(s) \in Seq(S)
      /\ Len(Tail(s)) = Len(s) - 1
      /\ \A i \in 1..Len(Tail(s)) : Tail(s)[i] = s[i+1]
  BY HeadTailProperties
<1>2. Head(s) = s[1]
  OBVIOUS
<1>3. QED
  BY <1>1, <1>2

\* What is left of a bound of 1 on a number that is not 0.
LEMMA OneLeft == ASSUME NEW n \in Nat, n # 0, n <= 1
                 PROVE  n = 1
  OBVIOUS

\* The send closure's push.
LEMMA PushTyped == ASSUME queue \in Seq(Nat), pushed \in Nat
                   PROVE  /\ Append(queue, pushed + 1) \in Seq(Nat)
                          /\ Append(queue, pushed + 1) # <<>>
<1> DEFINE n == pushed + 1
<1>1. n \in Nat
  OBVIOUS
<1> HIDE DEF n
<1>2. Append(queue, n) \in Seq(Nat) /\ Append(queue, n) # <<>>
  BY <1>1, AppendTo, ZenonT(30)
<1>3. QED
  BY <1>2 DEF n

LEMMA TypeInit == Init => TypeOK
<1> SUFFICES ASSUME Init
             PROVE  TypeOK
  OBVIOUS
<1>1. /\ posts \in Seq({"send", "close"})
      /\ queue \in Seq(Nat) /\ inflight \in Seq(Nat) /\ wire \in Seq(Nat)
  BY EmptyQueues DEF Init
<1>2. /\ sends \in 0..MaxSends /\ closes \in 0..MaxCloses
      /\ pushed \in Nat /\ notified \in Nat
  BY BoundsAssumption DEF Init
<1>3. /\ caller \in [Senders -> {"idle", "checked"}]
      /\ state \in {"new", "started", "up", "shutting", "closed"}
      /\ writing \in BOOLEAN /\ silent \in BOOLEAN
  BY DEF Init
<1>4. QED
  BY <1>1, <1>2, <1>3 DEF TypeOK

\* doClose() preserves the types of what it assigns.
LEMMA TypeDoClose ==
  ASSUME TypeOK, DoClose
  PROVE  /\ state' \in {"new", "started", "up", "shutting", "closed"}
         /\ notified' \in Nat
         /\ queue' \in Seq(Nat)
         /\ writing' \in BOOLEAN
<1>1. state' \in {"new", "started", "up", "shutting", "closed"} /\ notified' \in Nat
  BY DEF TypeOK, DoClose, CloseSocket
<1>2. queue' \in Seq(Nat)
  BY EmptyQueues DEF TypeOK, DoClose
<1>3. writing' \in BOOLEAN
  BY DEF TypeOK, DoClose
<1>4. QED
  BY <1>1, <1>2, <1>3

LEMMA TypeNext == TypeOK /\ [Next]_vars => TypeOK'
<1> SUFFICES ASSUME TypeOK, [Next]_vars
             PROVE  TypeOK'
  OBVIOUS
<1> USE DEF TypeOK, writeVars, closeVars, callVars
<1>1. CASE Start
  BY <1>1 DEF Start
<1>2. ASSUME NEW ok \in BOOLEAN, HandleSslHandshake(ok)
      PROVE  TypeOK'
  <2>1. CASE ok
    BY <1>2, <2>1 DEF HandleSslHandshake
  <2>2. CASE ~ok
    BY <1>2, <2>2, TypeDoClose DEF HandleSslHandshake
  <2>3. QED
    BY <2>1, <2>2
<1>3. ASSUME NEW t \in Senders, SendCheck(t)
      PROVE  TypeOK'
  BY <1>3, BoundsAssumption DEF SendCheck
<1>4. ASSUME NEW t \in Senders, SendPost(t)
      PROVE  TypeOK'
  BY <1>4 DEF SendPost
<1>5. CASE CallClose
  BY <1>5, BoundsAssumption DEF CallClose
<1>6. CASE RunSend
  <2>1. posts' \in Seq({"send", "close"})
    BY <1>6, TailOf DEF RunSend
  <2>2. CASE ~Active
    BY <1>6, <2>1, <2>2 DEF RunSend
  <2>3. CASE Active
    <3>1. queue' = Append(queue, pushed + 1) /\ pushed' = pushed + 1
      BY <1>6, <2>3 DEF RunSend
    <3>2. pushed + 1 \in Nat
      OBVIOUS
    <3>3. queue' \in Seq(Nat) /\ queue' # <<>>
      <4>1. queue \in Seq(Nat)
        OBVIOUS
      <4>2. pushed \in Nat
        OBVIOUS
      <4>3. QED
        BY <3>1, <4>1, <4>2, PushTyped, Zenon
    <3>4. Head(queue') \in Nat
      BY <3>3, TailOf
    <3>5. \/ writing' = TRUE /\ inflight' = Append(inflight, Head(queue'))
          \/ UNCHANGED <<writing, inflight>>
      BY <1>6, <2>3 DEF RunSend, DoWrite, Active
    <3>6. inflight' \in Seq(Nat)
      <4>1. inflight \in Seq(Nat)
        OBVIOUS
      <4>2. CASE inflight' = Append(inflight, Head(queue'))
        BY <3>4, <4>1, <4>2, AppendTo, Zenon
      <4>3. CASE inflight' = inflight
        BY <4>1, <4>3
      <4>4. QED
        BY <3>5, <4>2, <4>3, Zenon
    <3>7. writing' \in BOOLEAN
      BY <3>5
    <3>8. QED
      BY <1>6, <2>1, <3>1, <3>2, <3>3, <3>6, <3>7 DEF RunSend
  <2>4. QED
    BY <2>2, <2>3
<1>7. CASE RunClose
  BY <1>7, TailOf, TypeDoClose DEF RunClose
<1>8. CASE HandleWriteOk
  <2>1. Popped \in Seq(Nat)
    BY TailOf DEF Popped
  <2>2. /\ wire' = Append(wire, Head(inflight)) /\ Head(inflight) \in Nat
        /\ Tail(inflight) \in Seq(Nat)
    BY <1>8, TailOf DEF HandleWriteOk
  <2>3. \/ /\ Popped # <<>>
           /\ writing' = TRUE /\ inflight' = Append(Tail(inflight), Head(Popped))
        \/ writing' = FALSE /\ inflight' = Tail(inflight)
    BY <1>8 DEF HandleWriteOk, DoWrite, MayContinue
  <2>4. writing' \in BOOLEAN
    BY <2>3
  <2>5. Popped # <<>> => Head(Popped) \in Nat
    BY <2>1, TailOf
  <2>6. inflight' \in Seq(Nat)
    <3>1. CASE Popped # <<>> /\ inflight' = Append(Tail(inflight), Head(Popped))
      BY <2>2, <2>5, <3>1, AppendTo, Zenon
    <3>2. CASE inflight' = Tail(inflight)
      BY <2>2, <3>2
    <3>3. QED
      BY <2>3, <3>1, <3>2, Zenon
  <2>7. QED
    BY <1>8, <2>1, <2>2, <2>4, <2>6 DEF HandleWriteOk
<1>9. CASE HandleWriteError
  <2>1. Popped \in Seq(Nat) /\ inflight' \in Seq(Nat)
    BY <1>9, TailOf DEF Popped, HandleWriteError
  <2>2. /\ state' \in {"new", "started", "up", "shutting", "closed"} /\ notified' \in Nat
        /\ queue' \in Seq(Nat) /\ writing' \in BOOLEAN
    BY <1>9, <2>1, TypeDoClose DEF HandleWriteError
  <2>3. QED
    BY <1>9, <2>1, <2>2 DEF HandleWriteError
<1>10. CASE ReadFails
  BY <1>10, TypeDoClose DEF ReadFails
<1>11. CASE ShutdownDone
  BY <1>11 DEF ShutdownDone
<1>12. CASE PeerFallsSilent
  BY <1>12 DEF PeerFallsSilent, channelVars
<1>13. CASE UNCHANGED vars
  BY <1>13 DEF vars, channelVars
<1>14. QED
  BY <1>1, <1>2, <1>3, <1>4, <1>5, <1>6, <1>7, <1>8, <1>9, <1>10, <1>11, <1>12, <1>13
     DEF Next

\* Every variable of a session keeps its type, for any senders and any bounds.
THEOREM TypeCorrect == Spec => []TypeOK
  BY TypeInit, TypeNext, PTL DEF Spec
-----------------------------------------------------------------------------
(* The inductive invariant.  The properties the runs check do not survive a     *)
(* step by themselves: that the message being written is the right one depends  *)
(* on the numbering of the queue, and that on how many messages have left it.   *)

\* While the session is active the queue holds the messages pushed and not yet
\* written, in order, and its front is the one being written.
QueueNumbered ==
  Active => /\ pushed = Len(wire) + Len(queue)
            /\ \A i \in 1..Len(queue) : queue[i] = Len(wire) + i
            /\ Len(inflight) = IF Len(queue) = 0 THEN 0 ELSE 1
            /\ writing <=> Len(queue) # 0

\* Once it is inactive the queue is empty and stays so.
QueueDropped == ~Active => Len(queue) = 0 /\ ~writing

\* The message being written is the one after those already written.
NextOnWire ==
  /\ Len(inflight) <= 1
  /\ Len(inflight) = 1 => inflight[1] = Len(wire) + 1

\* Nothing has happened to a session that has not started.
FreshWhenNew ==
  state = "new" => Len(wire) = 0 /\ Len(inflight) = 0 /\ pushed = 0

ChannelInv ==
  /\ TypeOK
  /\ QueueNumbered
  /\ QueueDropped
  /\ NextOnWire
  /\ WireInOrder
  /\ DisconnectReportedOnce
  /\ FreshWhenNew

LEMMA InvInit == Init => ChannelInv
<1> SUFFICES ASSUME Init
             PROVE  ChannelInv
  OBVIOUS
<1>1. Len(queue) = 0 /\ Len(inflight) = 0 /\ Len(wire) = 0
  BY DEF Init
<1>2. /\ state = "new" /\ ~writing /\ notified = 0 /\ pushed = 0
  BY DEF Init
<1>3. QED
  BY <1>1, <1>2, TypeInit DEF ChannelInv, QueueNumbered, QueueDropped, NextOnWire,
     WireInOrder, DisconnectReportedOnce, FreshWhenNew, Active

\* What the parts of the invariant are about does not change.
LEMMA InvFrame ==
  ASSUME ChannelInv, TypeOK', UNCHANGED <<state, notified, writeVars>>
  PROVE  ChannelInv'
  BY DEF ChannelInv, QueueNumbered, QueueDropped, NextOnWire, WireInOrder,
     DisconnectReportedOnce, FreshWhenNew, Active, writeVars

\* doClose() preserves the invariant, whether the outstanding write goes on or has
\* just failed.
LEMMA InvDoClose ==
  ASSUME ChannelInv, TypeOK', DoClose, state # "new", UNCHANGED <<wire, pushed>>,
         inflight' = inflight \/ (Active /\ Len(inflight') = 0)
  PROVE  ChannelInv'
<1>1. CASE ~Active
  BY <1>1 DEF DoClose, ChannelInv, QueueNumbered, QueueDropped, NextOnWire,
     WireInOrder, DisconnectReportedOnce, FreshWhenNew, Active
<1>2. CASE Active
  <2>1. Len(queue') = 0 /\ ~writing'
    BY <1>2 DEF DoClose
  <2>2. /\ state' \in {"shutting", "closed"}
        /\ notified' = IF state' = "closed" THEN notified + 1 ELSE notified
    BY <1>2 DEF DoClose, CloseSocket, Active
  <2>3. notified = 0
    BY <1>2 DEF ChannelInv, DisconnectReportedOnce, Active
  <2>4. ~Active' /\ state' # "new"
    BY <2>2 DEF Active
  <2>5. NextOnWire'
    BY DEF ChannelInv, NextOnWire
  <2>6. DisconnectReportedOnce'
    BY <2>2, <2>3 DEF DisconnectReportedOnce
  <2>7. QueueNumbered' /\ QueueDropped' /\ FreshWhenNew'
    BY <2>1, <2>4 DEF QueueNumbered, QueueDropped, FreshWhenNew
  <2>8. WireInOrder'
    BY DEF ChannelInv, WireInOrder
  <2>9. QED
    BY <2>5, <2>6, <2>7, <2>8 DEF ChannelInv
<1>3. QED
  BY <1>1, <1>2

\* What the push of a message does to the queue.
LEMMA QueueAfterPush ==
  ASSUME queue \in Seq(Nat), pushed \in Nat, queue' = Append(queue, pushed + 1)
  PROVE  /\ queue' \in Seq(Nat) /\ queue' # <<>>
         /\ Len(queue') = Len(queue) + 1
         /\ \A i \in 1..Len(queue) : queue'[i] = queue[i]
         /\ queue'[Len(queue) + 1] = pushed + 1
<1> DEFINE n == pushed + 1
<1>1. n \in Nat
  OBVIOUS
<1>2. queue' = Append(queue, n)
  OBVIOUS
<1> HIDE DEF n
<1>3. /\ Append(queue, n) \in Seq(Nat) /\ Append(queue, n) # <<>>
      /\ Len(Append(queue, n)) = Len(queue) + 1
      /\ \A i \in 1..Len(queue) : Append(queue, n)[i] = queue[i]
      /\ Append(queue, n)[Len(queue) + 1] = n
  <2>1. queue \in Seq(Nat)
    OBVIOUS
  <2>2. QED
    BY <1>1, <2>1, AppendTo
<1>4. QED
  BY <1>2, <1>3, Zenon DEF n

LEMMA InvRunSend == ASSUME ChannelInv, TypeOK', RunSend
                    PROVE  ChannelInv'
<1>1. /\ state \in {"started", "up", "shutting", "closed"}
      /\ UNCHANGED <<wire, state, notified>>
  BY DEF RunSend, ChannelInv, TypeOK, closeVars
<1>2. CASE ~Active
  BY <1>1, <1>2 DEF RunSend, ChannelInv, QueueNumbered, QueueDropped, NextOnWire,
     WireInOrder, DisconnectReportedOnce, FreshWhenNew, Active
<1>3. CASE Active
  <2>1. /\ queue \in Seq(Nat) /\ inflight \in Seq(Nat) /\ wire \in Seq(Nat)
        /\ pushed \in Nat
    BY DEF ChannelInv, TypeOK
  <2>2. queue' = Append(queue, pushed + 1) /\ pushed' = pushed + 1
    BY <1>3 DEF RunSend
  <2>3. /\ queue' \in Seq(Nat) /\ queue' # <<>>
        /\ Len(queue') = Len(queue) + 1
        /\ \A i \in 1..Len(queue) : queue'[i] = queue[i]
        /\ queue'[Len(queue) + 1] = pushed + 1
    BY <2>1, <2>2, QueueAfterPush
  <2>4. Len(queue) \in Nat /\ Len(wire) \in Nat /\ (queue = <<>> <=> Len(queue) = 0)
    BY <2>1, EmptyIff
  <2>5. /\ pushed = Len(wire) + Len(queue)
        /\ \A i \in 1..Len(queue) : queue[i] = Len(wire) + i
        /\ Len(inflight) = IF Len(queue) = 0 THEN 0 ELSE 1
        /\ writing <=> Len(queue) # 0
    BY <1>3 DEF ChannelInv, QueueNumbered
  <2>6. \A i \in 1..Len(queue') : queue'[i] = Len(wire) + i
    <3>1. \A i \in 1..Len(queue') : i \in 1..Len(queue) \/ i = Len(queue) + 1
      BY <2>3, <2>4
    <3>2. pushed + 1 = Len(wire) + (Len(queue) + 1)
      BY <2>1, <2>4, <2>5
    <3>3. QED
      BY <2>3, <2>5, <3>1, <3>2, Zenon
  <2>7. /\ Len(inflight') = 1 /\ inflight'[1] = Len(wire) + 1
        /\ writing'
    <3>1. CASE Len(queue) = 0
      <4>1. writing' = TRUE /\ inflight' = Append(inflight, Head(queue'))
        BY <1>3, <2>4, <2>5, <3>1 DEF RunSend, ShouldStartWrite, DoWrite
      <4>2. Head(queue') = queue'[1] /\ Head(queue') \in Nat
        BY <2>3, TailOf
      <4>3. Len(inflight') = Len(inflight) + 1 /\ inflight'[Len(inflight) + 1] = Head(queue')
        BY <2>1, <4>1, <4>2, AppendTo
      <4>4. Len(inflight) = 0 /\ Head(queue') = Len(wire) + 1
        BY <2>3, <2>4, <2>5, <2>6, <3>1, <4>2
      <4>5. QED
        BY <4>1, <4>3, <4>4
    <3>2. CASE Len(queue) # 0
      <4>1. writing' = writing /\ inflight' = inflight
        BY <1>3, <2>4, <2>5, <3>2 DEF RunSend, ShouldStartWrite
      <4>2. QED
        BY <2>4, <2>5, <3>2, <4>1 DEF ChannelInv, NextOnWire
    <3>3. QED
      BY <3>1, <3>2
  <2>8. QueueNumbered' /\ NextOnWire'
    <3>1. Len(queue') # 0 /\ pushed' = Len(wire') + Len(queue')
      BY <1>1, <2>2, <2>3, <2>4, <2>5
    <3>2. QED
      BY <1>1, <2>6, <2>7, <3>1 DEF QueueNumbered, NextOnWire
  <2>9. QueueDropped' /\ FreshWhenNew'
    BY <1>1, <1>3 DEF QueueDropped, FreshWhenNew, Active
  <2>10. WireInOrder' /\ DisconnectReportedOnce'
    BY <1>1 DEF ChannelInv, WireInOrder, DisconnectReportedOnce
  <2>11. QED
    BY <2>8, <2>9, <2>10 DEF ChannelInv
<1>4. QED
  BY <1>2, <1>3

\* The message that was being written joins the wire, where its number is its place.
LEMMA WireAfterWrite ==
  ASSUME ChannelInv, HandleWriteOk
  PROVE  /\ Len(inflight) = 1
         /\ Len(wire') = Len(wire) + 1
         /\ WireInOrder'
<1>1. inflight \in Seq(Nat) /\ inflight # <<>> /\ wire \in Seq(Nat)
  BY DEF ChannelInv, TypeOK, HandleWriteOk
<1>2. Len(inflight) = 1
  <2>1. Len(inflight) \in Nat /\ Len(inflight) # 0
    BY <1>1, EmptyIff
  <2>2. Len(inflight) <= 1
    BY DEF ChannelInv, NextOnWire
  <2>3. QED
    BY <2>1, <2>2, OneLeft, Zenon
<1>3. Head(inflight) = Len(wire) + 1 /\ Head(inflight) \in Nat
  BY <1>1, <1>2, TailOf DEF ChannelInv, NextOnWire
<1>4. wire' = Append(wire, Head(inflight))
  BY DEF HandleWriteOk
<1>5. /\ Len(wire') = Len(wire) + 1
      /\ \A i \in 1..Len(wire) : wire'[i] = wire[i]
      /\ wire'[Len(wire) + 1] = Head(inflight)
  BY <1>1, <1>3, <1>4, AppendTo
<1>6. Len(wire) \in Nat
  BY <1>1, EmptyIff
<1>7. ASSUME NEW i \in 1..Len(wire')
      PROVE  wire'[i] = i
  <2>1. i \in 1..Len(wire) \/ i = Len(wire) + 1
    BY <1>5, <1>6
  <2>2. QED
    BY <1>3, <1>5, <2>1 DEF ChannelInv, WireInOrder
<1>8. QED
  BY <1>2, <1>5, <1>7 DEF WireInOrder

LEMMA InvHandleWriteOk == ASSUME ChannelInv, TypeOK', HandleWriteOk
                          PROVE  ChannelInv'
<1>1. /\ Len(inflight) = 1
      /\ Len(wire') = Len(wire) + 1
      /\ WireInOrder'
  BY WireAfterWrite
<1>2. UNCHANGED <<state, notified, pushed>>
  BY DEF HandleWriteOk, closeVars
<1>3. DisconnectReportedOnce'
  BY <1>2 DEF ChannelInv, DisconnectReportedOnce
<1>4. state # "new"
  BY <1>1 DEF ChannelInv, FreshWhenNew
<1>5. /\ queue \in Seq(Nat) /\ inflight \in Seq(Nat) /\ inflight # <<>>
      /\ Len(queue) \in Nat /\ Len(wire) \in Nat
      /\ queue = <<>> <=> Len(queue) = 0
  BY EmptyIff DEF ChannelInv, TypeOK, HandleWriteOk
<1>6. Tail(inflight) \in Seq(Nat) /\ Len(Tail(inflight)) = 0
  BY <1>1, <1>5, TailOf
<1>7. CASE ~Active
  <2>1. queue = <<>>
    BY <1>5, <1>7 DEF ChannelInv, QueueDropped
  <2>2. Len(queue') = 0 /\ ~writing' /\ Len(inflight') = 0
    BY <1>6, <1>7, <2>1 DEF HandleWriteOk, Popped, MayContinue
  <2>3. QED
    BY <1>1, <1>2, <1>3, <1>4, <1>7, <2>2 DEF ChannelInv, QueueNumbered, QueueDropped,
       NextOnWire, FreshWhenNew, Active
<1>8. CASE Active
  <2>1. /\ pushed = Len(wire) + Len(queue)
        /\ \A i \in 1..Len(queue) : queue[i] = Len(wire) + i
        /\ Len(queue) # 0
    BY <1>1, <1>8 DEF ChannelInv, QueueNumbered
  <2>2. queue # <<>> /\ queue' = Tail(queue)
    BY <1>5, <2>1 DEF HandleWriteOk, Popped
  <2>3. /\ queue' \in Seq(Nat) /\ Len(queue') = Len(queue) - 1
        /\ \A i \in 1..Len(queue') : queue'[i] = queue[i+1]
    BY <1>5, <2>2, TailOf
  <2>4. \A i \in 1..Len(queue') : queue'[i] = Len(wire') + i
    <3>1. ASSUME NEW i \in 1..Len(queue')
          PROVE  queue'[i] = Len(wire') + i
      <4>1. i + 1 \in 1..Len(queue)
        BY <1>5, <2>3
      <4>2. queue'[i] = Len(wire) + (i + 1)
        BY <2>1, <2>3, <4>1
      <4>3. QED
        BY <1>1, <1>5, <4>2
    <3>2. QED
      BY <3>1
  <2>5. pushed' = Len(wire') + Len(queue')
    BY <1>1, <1>2, <1>5, <2>1, <2>3
  <2>6. CASE queue' # <<>>
    <3>1. writing' = TRUE /\ inflight' = Append(Tail(inflight), Head(queue'))
      BY <1>8, <2>2, <2>6 DEF HandleWriteOk, Popped, MayContinue, DoWrite
    <3>2. Head(queue') = queue'[1] /\ Head(queue') \in Nat /\ Len(queue') # 0
      BY <2>3, <2>6, TailOf, EmptyIff
    <3>3. Head(queue') = Len(wire') + 1
      BY <1>5, <2>3, <2>4, <3>2
    <3>4. Len(inflight') = 1 /\ inflight'[1] = Head(queue')
      <4>1. /\ Len(inflight') = Len(Tail(inflight)) + 1
            /\ inflight'[Len(Tail(inflight)) + 1] = Head(queue')
        <5>1. PICK t, e : t = Tail(inflight) /\ e = Head(queue')
          OBVIOUS
        <5>2. t \in Seq(Nat) /\ e \in Nat
          BY <1>6, <3>2, <5>1
        <5>3. Len(Append(t, e)) = Len(t) + 1 /\ Append(t, e)[Len(t) + 1] = e
          BY <5>2, AppendTo
        <5>4. QED
          BY <3>1, <5>1, <5>3
      <4>2. Len(Tail(inflight)) + 1 = 1
        BY <1>6
      <4>3. QED
        BY <4>1, <4>2
    <3>5. QED
      BY <1>1, <1>2, <1>3, <1>4, <1>8, <2>4, <2>5, <3>1, <3>2, <3>3, <3>4
      DEF ChannelInv, QueueNumbered, QueueDropped, NextOnWire, FreshWhenNew, Active
  <2>7. CASE queue' = <<>>
    <3>1. ~writing' /\ inflight' = Tail(inflight)
      BY <2>2, <2>7 DEF HandleWriteOk, Popped, MayContinue
    <3>2. Len(queue') = 0 /\ Len(inflight') = 0
      BY <1>6, <2>7, <3>1
    <3>3. QueueNumbered'
      BY <2>4, <2>5, <3>1, <3>2 DEF QueueNumbered
    <3>4. QueueDropped' /\ NextOnWire' /\ FreshWhenNew'
      BY <1>2, <1>4, <3>1, <3>2 DEF QueueDropped, NextOnWire, FreshWhenNew
    <3>5. QED
      BY <1>1, <1>3, <3>3, <3>4 DEF ChannelInv
  <2>8. QED
    BY <2>6, <2>7
<1>9. QED
  BY <1>7, <1>8

LEMMA InvHandleWriteError == ASSUME ChannelInv, TypeOK', HandleWriteError
                             PROVE  ChannelInv'
<1>1. inflight \in Seq(Nat) /\ inflight # <<>> /\ Len(inflight) = 1
  <2>1. inflight \in Seq(Nat) /\ inflight # <<>>
    BY DEF ChannelInv, TypeOK, HandleWriteError
  <2>2. Len(inflight) \in Nat /\ Len(inflight) # 0
    BY <2>1, EmptyIff
  <2>3. Len(inflight) <= 1
    BY DEF ChannelInv, NextOnWire
  <2>4. QED
    BY <2>1, <2>2, <2>3, OneLeft, Zenon
<1>2. Len(inflight') = 0
  BY <1>1, TailOf DEF HandleWriteError
<1>3. state # "new"
  BY <1>1 DEF ChannelInv, FreshWhenNew
<1>4. CASE Active
  BY <1>2, <1>3, <1>4, InvDoClose DEF HandleWriteError
<1>5. CASE ~Active
  <2>1. queue \in Seq(Nat) /\ Len(queue) = 0
    BY <1>5 DEF ChannelInv, TypeOK, QueueDropped
  <2>2. queue' = queue /\ ~writing'
    BY <1>5, <2>1, EmptyIff DEF HandleWriteError, Popped
  <2>3. UNCHANGED <<state, notified, wire, pushed>>
    BY <1>5 DEF HandleWriteError, closeVars
  <2>4. QED
    BY <1>2, <1>3, <1>5, <2>1, <2>2, <2>3 DEF ChannelInv, QueueNumbered, QueueDropped,
       NextOnWire, WireInOrder, DisconnectReportedOnce, FreshWhenNew, Active
<1>6. QED
  BY <1>4, <1>5

LEMMA InvNext == ChannelInv /\ [Next]_vars => ChannelInv'
<1> SUFFICES ASSUME ChannelInv, [Next]_vars
             PROVE  ChannelInv'
  OBVIOUS
<1>1. TypeOK'
  BY TypeNext DEF ChannelInv
<1>2. state # "new" /\ Active => state \in {"started", "up"}
  BY DEF Active
<1>3. CASE Start
  <2>1. /\ state = "new" /\ state' = "started"
        /\ UNCHANGED <<notified, queue, writing, inflight, wire, pushed>>
    BY <1>3 DEF Start, writeVars
  <2>2. Len(queue) = 0 /\ ~writing /\ Len(wire) = 0 /\ Len(inflight) = 0 /\ pushed = 0
    BY <2>1 DEF ChannelInv, QueueDropped, FreshWhenNew, Active
  <2>3. QED
    BY <1>1, <2>1, <2>2 DEF ChannelInv, QueueNumbered, QueueDropped, NextOnWire,
       WireInOrder, DisconnectReportedOnce, FreshWhenNew, Active
<1>4. ASSUME NEW ok \in BOOLEAN, HandleSslHandshake(ok)
      PROVE  ChannelInv'
  <2>1. state = "started" /\ UNCHANGED <<inflight, wire, pushed>>
    BY <1>4 DEF HandleSslHandshake
  <2>2. CASE ok
    <3>1. state' = "up" /\ UNCHANGED <<notified, queue, writing>>
      BY <1>4, <2>2 DEF HandleSslHandshake
    <3>2. QED
      BY <1>1, <2>1, <3>1 DEF ChannelInv, QueueNumbered, QueueDropped, NextOnWire,
         WireInOrder, DisconnectReportedOnce, FreshWhenNew, Active
  <2>3. CASE ~ok
    BY <1>1, <1>4, <2>1, <2>3, InvDoClose DEF HandleSslHandshake
  <2>4. QED
    BY <2>2, <2>3
<1>5. ASSUME NEW t \in Senders, SendCheck(t) \/ SendPost(t)
      PROVE  ChannelInv'
  BY <1>1, <1>5, InvFrame DEF SendCheck, SendPost, closeVars
<1>6. CASE CallClose
  BY <1>1, <1>6, InvFrame DEF CallClose, closeVars
<1>7. CASE RunSend
  BY <1>1, <1>7, InvRunSend
<1>8. CASE RunClose
  BY <1>1, <1>8, InvDoClose DEF RunClose
<1>9. CASE HandleWriteOk
  BY <1>1, <1>9, InvHandleWriteOk
<1>10. CASE HandleWriteError
  BY <1>1, <1>10, InvHandleWriteError
<1>11. CASE ReadFails
  BY <1>1, <1>11, InvDoClose DEF ReadFails
<1>12. CASE ShutdownDone
  BY <1>1, <1>12 DEF ShutdownDone, writeVars, ChannelInv, QueueNumbered, QueueDropped,
     NextOnWire, WireInOrder, DisconnectReportedOnce, FreshWhenNew, Active
<1>13. CASE PeerFallsSilent
  BY <1>1, <1>13, InvFrame DEF PeerFallsSilent, channelVars, writeVars
<1>14. CASE UNCHANGED vars
  BY <1>1, <1>14, InvFrame DEF vars, channelVars, writeVars
<1>15. QED
  BY <1>3, <1>4, <1>5, <1>6, <1>7, <1>8, <1>9, <1>10, <1>11, <1>12, <1>13, <1>14 DEF Next

LEMMA InvAlways == Spec => []ChannelInv
  BY InvInit, InvNext, PTL DEF Spec

\* No two writes are ever outstanding, however many threads send.
THEOREM SingleWrite == Spec => []OneWriteInFlight
<1>1. ChannelInv => OneWriteInFlight
  BY DEF ChannelInv, NextOnWire, OneWriteInFlight
<1>2. QED
  BY <1>1, InvAlways, PTL

\* Whatever closing and failures do, the peer sees 1, 2, 3, ... in order.
THEOREM InOrder == Spec => []WireInOrder
<1>1. ChannelInv => WireInOrder
  BY DEF ChannelInv
<1>2. QED
  BY <1>1, InvAlways, PTL

\* The server hears of the end of a session once, and when its socket is closed.
THEOREM ReportedOnce == Spec => []DisconnectReportedOnce
<1>1. ChannelInv => DisconnectReportedOnce
  BY DEF ChannelInv
<1>2. QED
  BY <1>1, InvAlways, PTL

\* No queued message of an active session is forgotten between two writes.
THEOREM NothingStuck == Spec => []QueueIsBeingWritten
<1>1. ChannelInv => QueueIsBeingWritten
  <2> SUFFICES ASSUME ChannelInv, Active
               PROVE  /\ writing <=> queue # <<>>
                      /\ inflight = IF queue # <<>> THEN <<Head(queue)>> ELSE <<>>
    BY DEF QueueIsBeingWritten
  <2>1. queue \in Seq(Nat) /\ inflight \in Seq(Nat)
    BY DEF ChannelInv, TypeOK
  <2>2. /\ queue = <<>> <=> Len(queue) = 0
        /\ inflight = <<>> <=> Len(inflight) = 0
    BY <2>1, EmptyIff
  <2>3. /\ Len(inflight) = IF Len(queue) = 0 THEN 0 ELSE 1
        /\ writing <=> Len(queue) # 0
        /\ \A i \in 1..Len(queue) : queue[i] = Len(wire) + i
    BY DEF ChannelInv, QueueNumbered
  <2>4. CASE queue = <<>>
    BY <2>2, <2>3, <2>4
  <2>5. CASE queue # <<>>
    <3>1. Len(inflight) = 1 /\ writing
      BY <2>2, <2>3, <2>5
    <3>2. inflight[1] = Len(wire) + 1
      BY <3>1 DEF ChannelInv, NextOnWire
    <3>3. 1 \in 1..Len(queue) /\ Head(queue) = queue[1]
      BY <2>1, <2>2, <2>5, EmptyIff, TailOf
    <3>4. inflight[1] = Head(queue)
      BY <2>3, <3>2, <3>3
    <3>5. inflight = <<Head(queue)>>
      BY <2>1, <3>1, <3>4
    <3>6. QED
      BY <2>5, <3>1, <3>5
  <2>6. QED
    BY <2>4, <2>5
<1>2. QED
  BY <1>1, InvAlways, PTL
-----------------------------------------------------------------------------
(* What CloseCompletes rests on *)

\* A close is waiting to be run.
CloseQueued == \E i \in DOMAIN posts : posts[i] = "close"

CloseIsLed == closes > 0 => CloseQueued \/ state \in {"shutting", "closed"}

\* The queue of posts grows at its end, and is run from its head.
LEMMA CloseStays ==
  ASSUME TypeOK, CloseQueued
  PROVE  /\ \A e \in {"send", "close"} :
              posts' = Append(posts, e) => CloseQueued'
         /\ posts' = Tail(posts) /\ posts # <<>> /\ Head(posts) # "close" => CloseQueued'
<1>1. PICK i \in 1..Len(posts) : posts[i] = "close"
  BY DEF CloseQueued, TypeOK
<1>2. posts \in Seq({"send", "close"})
  BY DEF TypeOK
<1>3. ASSUME NEW e \in {"send", "close"}, posts' = Append(posts, e)
      PROVE  CloseQueued'
  <2>1. i \in DOMAIN posts' /\ posts'[i] = posts[i]
    BY <1>2, <1>3
  <2>2. QED
    BY <1>1, <2>1 DEF CloseQueued
<1>4. ASSUME posts' = Tail(posts), posts # <<>>, Head(posts) # "close"
      PROVE  CloseQueued'
  <2>1. i # 1 /\ Len(posts) \in Nat
    BY <1>1, <1>2, <1>4
  <2>2. i - 1 \in 1..Len(Tail(posts)) /\ Tail(posts)[i - 1] = posts[i]
    BY <1>2, <1>4, <2>1
  <2>3. Tail(posts) \in Seq({"send", "close"})
    BY <1>2, <1>4, TailOf
  <2>4. i - 1 \in DOMAIN posts'
    BY <1>4, <2>2, <2>3
  <2>5. QED
    BY <1>1, <1>4, <2>2, <2>4 DEF CloseQueued
<1>5. QED
  BY <1>3, <1>4

LEMMA CloseIsLedNext == TypeOK /\ CloseIsLed /\ [Next]_vars => CloseIsLed'
<1> SUFFICES ASSUME TypeOK, CloseIsLed, [Next]_vars
             PROVE  CloseIsLed'
  OBVIOUS
<1>1. ASSUME UNCHANGED <<posts, closes>>,
             state \in {"shutting", "closed"} => state' \in {"shutting", "closed"}
      PROVE  CloseIsLed'
  BY <1>1 DEF CloseIsLed, CloseQueued
<1>2. DoClose => (state \in {"shutting", "closed"} => state' \in {"shutting", "closed"})
  BY DEF DoClose, Active
<1>3. CASE Start \/ ReadFails \/ ShutdownDone \/ HandleWriteOk \/ HandleWriteError
  BY <1>1, <1>2, <1>3
     DEF Start, ReadFails, ShutdownDone, HandleWriteOk, HandleWriteError, callVars, closeVars
<1>4. ASSUME NEW ok \in BOOLEAN, HandleSslHandshake(ok)
      PROVE  CloseIsLed'
  BY <1>1, <1>2, <1>4 DEF HandleSslHandshake, callVars
<1>5. ASSUME NEW t \in Senders, SendCheck(t)
      PROVE  CloseIsLed'
  BY <1>1, <1>5 DEF SendCheck, closeVars
<1>6. ASSUME NEW t \in Senders, SendPost(t)
      PROVE  CloseIsLed'
  BY <1>6, CloseStays DEF SendPost, CloseIsLed, closeVars
<1>7. CASE CallClose
  <2>1. posts' = Append(posts, "close") /\ posts \in Seq({"send", "close"})
    BY <1>7 DEF CallClose, TypeOK
  <2>2. Len(posts) + 1 \in DOMAIN posts' /\ posts'[Len(posts) + 1] = "close"
    BY <2>1
  <2>3. QED
    BY <2>2 DEF CloseIsLed, CloseQueued
<1>8. CASE RunSend
  <2>1. /\ posts # <<>> /\ Head(posts) = "send" /\ posts' = Tail(posts)
        /\ UNCHANGED <<closes, state>>
    BY <1>8 DEF RunSend, closeVars
  <2>2. QED
    BY <2>1, CloseStays DEF CloseIsLed
<1>9. CASE RunClose
  <2>1. state # "new" /\ DoClose
    BY <1>9 DEF RunClose
  <2>2. state' \in {"shutting", "closed"}
    BY <2>1 DEF DoClose, CloseSocket, Active, TypeOK
  <2>3. QED
    BY <2>2 DEF CloseIsLed
<1>10. CASE PeerFallsSilent
  BY <1>1, <1>10 DEF PeerFallsSilent, channelVars
<1>11. CASE UNCHANGED vars
  BY <1>1, <1>11 DEF vars, channelVars
<1>12. QED
  BY <1>3, <1>4, <1>5, <1>6, <1>7, <1>8, <1>9, <1>10, <1>11 DEF Next

\* A close() request is never swallowed: until the disconnect handler has been called, a
\* close is queued or the TLS shutdown that ends in the call is outstanding, whatever the
\* senders post meanwhile (Session::close(), doClose()).
THEOREM CloseIsHeard ==
  Spec => [](closes > 0 /\ notified = 0 => CloseQueued \/ state = "shutting")
<1>1. Init => CloseIsLed
  BY DEF Init, CloseIsLed
<1>2. CloseIsLed /\ DisconnectReportedOnce =>
        (closes > 0 /\ notified = 0 => CloseQueued \/ state = "shutting")
  BY DEF CloseIsLed, DisconnectReportedOnce
<1>3. QED
  BY <1>1, <1>2, TypeCorrect, CloseIsLedNext, ReportedOnce, PTL DEF Spec
-----------------------------------------------------------------------------
(* The channel implements the FIFO pipe. *)

LEMMA AtMostOne == ASSUME NEW n \in Nat, n <= 1
                   PROVE  n \in {0, 1}
  OBVIOUS

\* What shutting does to the count: w messages written, q queued, k being written.
LEMMA ShutCount == ASSUME NEW w \in Nat, NEW q \in Nat, NEW k \in {0, 1},
                          q = 0 => k = 0
                   PROVE  w + k \in {w, w + 1} /\ w + k <= w + q
  OBVIOUS

\* The number of messages the pipe still owes its peer or has delivered.
Accepted == IF Active THEN pushed ELSE Len(wire) + Len(inflight)

\* The lengths a step of the pipe is about.
LEMMA Lengths ==
  ASSUME ChannelInv
  PROVE  /\ Len(wire) \in Nat /\ Len(queue) \in Nat /\ Len(inflight) \in {0, 1}
         /\ Active => /\ Accepted = Len(wire) + Len(queue)
                      /\ Len(inflight) = IF Len(queue) = 0 THEN 0 ELSE 1
         /\ ~Active => Accepted = Len(wire) + Len(inflight)
<1>1. Len(wire) \in Nat /\ Len(queue) \in Nat /\ Len(inflight) \in Nat
  BY EmptyIff DEF ChannelInv, TypeOK
<1>2. Len(inflight) <= 1
  BY DEF ChannelInv, NextOnWire
<1>3. Active => /\ pushed = Len(wire) + Len(queue)
                /\ Len(inflight) = IF Len(queue) = 0 THEN 0 ELSE 1
  BY DEF ChannelInv, QueueNumbered
<1>4. Len(inflight) \in {0, 1}
  BY <1>1, <1>2, AtMostOne, Zenon
<1>5. QED
  BY <1>1, <1>3, <1>4 DEF Accepted

\* A doClose() that does something is the pipe shutting: the queue is thrown away
\* but for what is still being written.
LEMMA CloseShuts ==
  ASSUME ChannelInv, ChannelInv', Active, DoClose, UNCHANGED wire,
         inflight' = inflight \/ Len(inflight') = 0
  PROVE  Pipe!Shut
<1>1. ~Active'
  BY DEF DoClose, CloseSocket, Active
<1>2. Accepted = Len(wire) + Len(queue) /\ Accepted' = Len(wire) + Len(inflight')
  BY <1>1, Lengths DEF Accepted
<1>3. /\ Len(wire) \in Nat /\ Len(queue) \in Nat
      /\ Len(inflight) = IF Len(queue) = 0 THEN 0 ELSE 1
  BY Lengths
<1>4. Accepted' \in {Len(wire), Len(wire) + 1} /\ Accepted' <= Accepted
  <2>1. Len(inflight') \in {0, 1} /\ (Len(queue) = 0 => Len(inflight') = 0)
    BY <1>3
  <2>2. QED
    BY <1>2, <1>3, <2>1, ShutCount, Zenon
<1>5. QED
  BY <1>1, <1>4 DEF Pipe!Shut, Accepted

LEMMA PipeStep == ChannelInv /\ ChannelInv' /\ [Next]_vars
                  => [Pipe!PipeNext]_(Pipe!pipeVars)
<1> SUFFICES ASSUME ChannelInv, ChannelInv', [Next]_vars
             PROVE  Pipe!PipeNext \/ UNCHANGED <<Active, Accepted, wire>>
  BY DEF Pipe!pipeVars, Accepted
<1>1. CASE Start
  <2>1. /\ ~Active /\ Active'
        /\ UNCHANGED <<wire, inflight, pushed>>
    BY <1>1 DEF Start, Active, writeVars
  <2>2. Len(wire) = 0 /\ Len(inflight) = 0 /\ pushed = 0
    BY <1>1 DEF ChannelInv, FreshWhenNew, Start
  <2>3. wire = <<>>
    BY <2>2, EmptyIff DEF ChannelInv, TypeOK
  <2>4. Accepted = 0 /\ Accepted' = 0
    BY <2>1, <2>2 DEF Accepted
  <2>5. Pipe!Open
    BY <2>1, <2>3, <2>4 DEF Pipe!Open, Accepted
  <2>6. QED
    BY <2>5 DEF Pipe!PipeNext
<1>2. ASSUME NEW ok \in BOOLEAN, HandleSslHandshake(ok)
      PROVE  Pipe!PipeNext \/ UNCHANGED <<Active, Accepted, wire>>
  <2>1. state = "started" /\ UNCHANGED <<inflight, wire, pushed>>
    BY <1>2 DEF HandleSslHandshake
  <2>2. CASE ok
    BY <1>2, <2>1, <2>2 DEF HandleSslHandshake, Active, Accepted
  <2>3. CASE ~ok
    BY <1>2, <2>1, <2>3, CloseShuts DEF HandleSslHandshake, Active, Pipe!PipeNext
  <2>4. QED
    BY <2>2, <2>3
<1>3. ASSUME NEW t \in Senders, SendCheck(t) \/ SendPost(t)
      PROVE  UNCHANGED <<Active, Accepted, wire>>
  BY <1>3 DEF SendCheck, SendPost, writeVars, closeVars, Active, Accepted
<1>4. CASE CallClose
  BY <1>4 DEF CallClose, writeVars, closeVars, Active, Accepted
<1>5. CASE RunSend
  <2>1. UNCHANGED <<state, wire>>
    BY <1>5 DEF RunSend, closeVars
  <2>2. CASE ~Active
    BY <1>5, <2>1, <2>2 DEF RunSend, Active, Accepted
  <2>3. CASE Active
    <3>1. pushed' = pushed + 1
      BY <1>5, <2>3 DEF RunSend
    <3>2. Active' /\ Accepted = pushed /\ Accepted' = pushed + 1
      BY <2>1, <2>3, <3>1 DEF Active, Accepted
    <3>3. Pipe!Put
      BY <2>1, <2>3, <3>2 DEF Pipe!Put, Accepted
    <3>4. QED
      BY <3>3 DEF Pipe!PipeNext
  <2>4. QED
    BY <2>2, <2>3
<1>6. CASE RunClose \/ ReadFails
  <2>1. DoClose /\ UNCHANGED <<wire, inflight, pushed>>
    BY <1>6 DEF RunClose, ReadFails
  <2>2. CASE Active
    BY <2>1, <2>2, CloseShuts DEF Pipe!PipeNext
  <2>3. CASE ~Active
    BY <2>1, <2>3 DEF DoClose, Active, Accepted
  <2>4. QED
    BY <2>2, <2>3
<1>7. CASE HandleWriteOk
  <2>1. Len(inflight) = 1 /\ UNCHANGED <<state, pushed>>
    BY <1>7, WireAfterWrite DEF HandleWriteOk, closeVars
  <2>2. wire' = Append(wire, Len(wire) + 1) /\ Len(wire') = Len(wire) + 1
    <3>1. inflight \in Seq(Nat) /\ inflight # <<>>
      BY <1>7 DEF ChannelInv, TypeOK, HandleWriteOk
    <3>2. Head(inflight) = Len(wire) + 1
      BY <2>1, <3>1, TailOf DEF ChannelInv, NextOnWire
    <3>3. QED
      BY <1>7, <3>2, WireAfterWrite DEF HandleWriteOk
  <2>3. Len(wire) < Accepted /\ Accepted' = Accepted
    <3>1. CASE Active
      <4>1. Accepted = Len(wire) + Len(queue) /\ Len(queue) # 0
        BY <2>1, <3>1, Lengths
      <4>2. Accepted' = Accepted
        BY <2>1, <3>1 DEF Active, Accepted
      <4>3. QED
        BY <4>1, <4>2, Lengths
    <3>2. CASE ~Active
      <4>1. Accepted = Len(wire) + 1
        BY <2>1, <3>2, Lengths
      <4>2. inflight \in Seq(Nat) /\ inflight # <<>> /\ inflight' = Tail(inflight)
        <5>1. queue \in Seq(Nat) /\ Len(queue) = 0
          BY <3>2 DEF ChannelInv, TypeOK, QueueDropped
        <5>2. Popped = <<>>
          BY <5>1, EmptyIff DEF Popped
        <5>3. QED
          BY <1>7, <5>2 DEF HandleWriteOk, MayContinue, ChannelInv, TypeOK
      <4>3. Len(inflight') = 0
        BY <2>1, <4>2, TailOf
      <4>4. Accepted' = Len(wire') + Len(inflight')
        BY <2>1, <3>2 DEF Active, Accepted
      <4>5. QED
        BY <2>2, <4>1, <4>3, <4>4, Lengths
    <3>3. QED
      BY <3>1, <3>2
  <2>4. Active' = Active
    BY <2>1 DEF Active
  <2>5. Pipe!Get
    BY <2>2, <2>3, <2>4 DEF Pipe!Get, Accepted
  <2>6. QED
    BY <2>5 DEF Pipe!PipeNext
<1>8. CASE HandleWriteError
  <2>1. /\ inflight \in Seq(Nat) /\ inflight # <<>> /\ inflight' = Tail(inflight)
        /\ UNCHANGED <<wire, pushed>>
    BY <1>8 DEF HandleWriteError, ChannelInv, TypeOK
  <2>2. Len(inflight) # 0 /\ Len(inflight') = Len(inflight) - 1
    BY <2>1, TailOf, EmptyIff
  <2>3. Len(inflight) = 1 /\ Len(inflight') = 0
    BY <2>2, Lengths
  <2>4. CASE Active
    BY <1>8, <2>1, <2>3, <2>4, CloseShuts DEF HandleWriteError, Pipe!PipeNext
  <2>5. CASE ~Active
    <3>1. ~Active' /\ Accepted = Len(wire) + 1 /\ Accepted' = Len(wire) + 0
      BY <1>8, <2>1, <2>3, <2>5 DEF HandleWriteError, closeVars, Active, Accepted
    <3>2. Accepted' = Len(wire)
      BY <3>1, Lengths
    <3>3. Active' = Active
      BY <2>5, <3>1 DEF Active
    <3>4. Pipe!Lose
      BY <2>1, <2>5, <3>1, <3>2, <3>3 DEF Pipe!Lose, Accepted
    <3>5. QED
      BY <3>4 DEF Pipe!PipeNext
  <2>6. QED
    BY <2>4, <2>5
<1>9. CASE ShutdownDone
  BY <1>9 DEF ShutdownDone, writeVars, Active, Accepted
<1>10. CASE PeerFallsSilent
  BY <1>10 DEF PeerFallsSilent, channelVars, Active, Accepted
<1>11. CASE UNCHANGED vars
  BY <1>11 DEF vars, channelVars, Active, Accepted
<1>12. QED
  BY <1>1, <1>2, <1>3, <1>4, <1>5, <1>6, <1>7, <1>8, <1>9, <1>10, <1>11 DEF Next

\* Session's write path is a FIFO pipe, for any senders and any bounds.
THEOREM Refinement == Spec => ImplementsPipe
<1>1. Init => Pipe!PipeInit
  <2> SUFFICES ASSUME Init
               PROVE  Pipe!PipeInit
    OBVIOUS
  <2>1. ~Active /\ wire = <<>> /\ Len(wire) + Len(inflight) = 0
    BY DEF Init, Active
  <2>2. QED
    BY <2>1 DEF Pipe!PipeInit
<1>2. QED
  BY <1>1, InvAlways, PipeStep, PTL DEF Spec, ImplementsPipe, Pipe!PipeSpec
=============================================================================
