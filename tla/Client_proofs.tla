--------------------------- MODULE Client_proofs ---------------------------
(***************************************************************************)
(* Proofs about Client, for any number of attempts and messages: the type, *)
(* that no session rests on an earlier attempt, that the capture ends with *)
(* the session, that whom the panel counts on has a callback to come, and  *)
(* that every step of the client is one the contract of Connection allows. *)
(***************************************************************************)
EXTENDS Client, SequenceTheorems, TLAPS

Ending == {"Disconnected", "Error"}

\* All units of a stream are of the same attempt.
AllOf(s, n) == \A i \in DOMAIN s : s[i].of = n

\* The head of an answer to the handshake.
IsVerdict(u) == u.msg \in {"answer", "refusal"}

NoVerdict(s) == \A i \in DOMAIN s : ~IsVerdict(s[i])

OneVerdict(s) == \A i, j \in DOMAIN s : IsVerdict(s[i]) /\ IsVerdict(s[j]) => i = j

\* A head is followed by its rest, if by anything; a rest follows its head.
Framed(s) ==
  \A i \in DOMAIN s :
    /\ s[i].msg = "rest" => i - 1 \in DOMAIN s /\ s[i - 1].msg \in Messages
    /\ s[i].msg \in Messages /\ i + 1 \in DOMAIN s => s[i + 1].msg = "rest"

\* No head lacks its rest.
Whole(s) == \A i \in DOMAIN s : s[i].msg \in Messages => i + 1 \in DOMAIN s

\* The close_notify of a server is not a part of partialMessage_.
GotUnits(s, n) == \A i \in DOMAIN s : i <= n => s[i].msg # "bye"

\* Nothing is being sent, or about to be.
Silent == posts = <<>> /\ queue = <<>> /\ ~writing /\ ~inflight

\* The object may still decode something: it is not on its way to the disconnect callback.
Live == told = "setup" \/ (~Ended /\ io # "join")

\* The handshake of an attempt is being sent, so nothing has been answered.
HelloUnderWay ==
  /\ op = "none" /\ NoVerdict(stream)
  /\ peer \notin {"asked", "member", "refused"}
  /\ \/ posts = <<"hello">> /\ queue = <<>> /\ ~writing /\ ~inflight
     \/ posts = <<>> /\ queue = <<"hello">> /\ writing /\ inflight

\* Whatever the server says it says to the client the TLS handshake was made with, once
\* to its handshake message.
StreamInv ==
  /\ tls \in {"done", "shut"} <=> tlsWith # 0
  /\ peer \in {"secure", "asked", "member", "refused"} =>
       tlsWith = sock /\ sock # 0 /\ Whole(stream)
  /\ AllOf(stream, tlsWith) /\ OneVerdict(stream) /\ GotUnits(stream, got)
  /\ peer \in {"secure", "asked"} => NoVerdict(stream)
  /\ Live => /\ Framed(stream)
             /\ \/ state = "Connecting" /\ tlsWith = tries
                \/ NoVerdict(stream) /\ peer \notin {"secure", "asked"}

\* The socket is that of the last attempt, and a TLS handshake has been made.
Linked == sock = tries /\ tries # 0 /\ tls \in {"done", "shut"}

\* An attempt that is being connected has nothing under way but that.
AttemptInv ==
  /\ op # "none" =>
       state = "Connecting" /\ tlsWith < tries /\ io = "idle" /\ ~reading /\ Silent
  /\ op \in {"tcp", "tls"} => sock = tries \/ (sock = 0 /\ tls \in {"bad", "half"})
  /\ op = "tcp" => peer = "none"
  /\ op = "tls" => peer \in {"greet", "closed"}
  /\ state = "Connecting" => told = "waiting" /\ (Silent \/ HelloUnderWay)
  /\ told = "session" \/ ~Silent \/ reading \/ io # "idle" => Linked
  /\ state = "Connected" => tlsWith = tries
  /\ tls = "shut" /\ ~Ended => tlsWith # tries

\* Only the shutdown of a stream that has shaken hands calls the disconnect callback.
ShutdownInv ==
  /\ tls \in {"fresh", "done"} => shutdowns = <<>>
  /\ tls \in {"bad", "half"} => \A i \in DOMAIN shutdowns : ~shutdowns[i]
  /\ tls = "shut" => \A i \in DOMAIN shutdowns : shutdowns[i]

\* What the panel has been told fits what can still happen.
PanelInv ==
  /\ told = "setup" => Silent /\ ~reading /\ op = "none" /\ state \in Ending
  /\ state = "Connected" => told = "session"
  /\ io = "join" => told = "session"
  /\ io = "decode" => ~reading

CaptureInv ==
  /\ capture => state = "Connected" /\ io # "join" /\ (manager \/ gaveUp)
  /\ thread = "runs" => capture \/ io = "join"
  /\ thread = "ended" => io = "join" \/ gaveUp

\* Whom the panel counts on has something under way.
ComingInv ==
  /\ io = "join" => state # "Disconnected"
  /\ told \in {"waiting", "session"} =>
       IF Ended THEN io = "join" \/ (shutdowns # <<>> /\ tls = "shut")
       ELSE op # "none" \/ reading \/ io # "idle"

GoneInv == state # "Connected" /\ io = "idle" /\ CaptureInv

ClientInv ==
  /\ TypeOK
  /\ Alive => StreamInv /\ AttemptInv /\ ShutdownInv /\ PanelInv /\ CaptureInv /\ ComingInv
  /\ ~Alive => GoneInv
-----------------------------------------------------------------------------
(* Sequences *)

UnitSet == [msg : Messages \cup {"rest", "bye"}, of : 1..MaxTries]

\* What Append and Tail do to the type of a sequence.
LEMMA AppendTo == ASSUME NEW S, NEW s \in Seq(S), NEW e \in S
                  PROVE  Append(s, e) \in Seq(S) /\ Append(s, e) # <<>>
  BY AppendProperties

LEMMA TailOf == ASSUME NEW S, NEW s \in Seq(S), s # <<>>
                PROVE  Tail(s) \in Seq(S) /\ Head(s) \in S
  BY HeadTailProperties

\* Where the elements of a queue are after its front has been taken.
LEMMA TailElements ==
  ASSUME NEW S, NEW s \in Seq(S), s # <<>>
  PROVE  /\ 1 \in DOMAIN s /\ Head(s) = s[1]
         /\ \A i \in DOMAIN Tail(s) : i + 1 \in DOMAIN s /\ Tail(s)[i] = s[i + 1]
<1>1. Len(s) \in Nat \ {0} /\ DOMAIN s = 1..Len(s)
  BY EmptySeq, LenProperties
<1>2. Tail(s) \in Seq(S) /\ Len(Tail(s)) = Len(s) - 1
  BY HeadTailProperties
<1>3. DOMAIN Tail(s) = 1..(Len(s) - 1)
  BY <1>2, LenProperties
<1>4. \A i \in DOMAIN Tail(s) : i + 1 \in DOMAIN s /\ Tail(s)[i] = s[i + 1]
  BY <1>1, <1>2, <1>3, HeadTailProperties
<1>5. 1 \in DOMAIN s
  BY <1>1
<1>6. Head(s) = s[1]
  OBVIOUS
<1>7. QED
  BY <1>4, <1>5, <1>6

\* A queue of Booleans to which one is added.
LEMMA AppendElements ==
  ASSUME NEW s \in Seq(BOOLEAN), NEW e \in BOOLEAN, \A i \in DOMAIN s : s[i] = e
  PROVE  \A i \in DOMAIN Append(s, e) : Append(s, e)[i] = e
<1>1. /\ Append(s, e) \in Seq(BOOLEAN) /\ Len(Append(s, e)) = Len(s) + 1
      /\ \A i \in 1..Len(s) : Append(s, e)[i] = s[i]
      /\ Append(s, e)[Len(s) + 1] = e
  BY AppendProperties
<1>2. Len(s) \in Nat /\ DOMAIN s = 1..Len(s) /\ DOMAIN Append(s, e) = 1..Len(s) + 1
  BY <1>1, LenProperties
<1>3. \A i \in 1..Len(s) + 1 : i \in 1..Len(s) \/ i = Len(s) + 1
  BY <1>2
<1>4. QED
  BY <1>1, <1>2, <1>3, Zenon

\* The part of a stream from k to l.
LEMMA PartOf ==
  ASSUME NEW S, NEW s \in Seq(S), NEW k \in Nat \ {0}, NEW l \in 0..Len(s), k <= l + 1
  PROVE  /\ SubSeq(s, k, l) \in Seq(S) /\ Len(SubSeq(s, k, l)) = l - k + 1
         /\ DOMAIN SubSeq(s, k, l) = 1..(l - k + 1)
         /\ \A i \in 1..(l - k + 1) : SubSeq(s, k, l)[i] = s[i + k - 1]
<1>1. Len(s) \in Nat /\ \A i \in 1..Len(s) : s[i] \in S
  BY LenProperties, ElementOfSeq
<1>2. \A i \in k..l : s[i] \in S
  BY <1>1
<1>3. k \in Int /\ l \in Int
  BY <1>1
<1>4. /\ SubSeq(s, k, l) \in Seq(S)
      /\ Len(SubSeq(s, k, l)) = IF k <= l THEN l - k + 1 ELSE 0
      /\ \A i \in 1..l-k+1 : SubSeq(s, k, l)[i] = s[k+i-1]
  BY <1>2, <1>3, SubSeqProperties
<1>5. Len(SubSeq(s, k, l)) = l - k + 1
  BY <1>3, <1>4
<1>6. DOMAIN SubSeq(s, k, l) = 1..(l - k + 1)
  BY <1>4, <1>5, LenProperties
<1>7. \A i \in 1..(l - k + 1) : k + i - 1 = i + k - 1
  BY <1>3
<1>8. QED
  BY <1>4, <1>5, <1>6, <1>7

\* A stream without its first n units.
LEMMA CutOf ==
  ASSUME NEW S, NEW s \in Seq(S), NEW n \in 0..Len(s), NEW t, t = SubSeq(s, n + 1, Len(s))
  PROVE  /\ t \in Seq(S) /\ Len(t) = Len(s) - n
         /\ DOMAIN s = 1..Len(s) /\ DOMAIN t = 1..(Len(s) - n)
         /\ \A i \in 1..(Len(s) - n) : t[i] = s[i + n]
<1>1. Len(s) \in Nat /\ DOMAIN s = 1..Len(s)
  BY LenProperties
<1>2. PICK k : k = n + 1
  OBVIOUS
<1>3. k \in Nat \ {0} /\ Len(s) \in 0..Len(s) /\ k <= Len(s) + 1
  BY <1>1, <1>2
<1>4. t = SubSeq(s, k, Len(s))
  BY <1>2
<1>5. /\ t \in Seq(S) /\ Len(t) = Len(s) - k + 1
      /\ DOMAIN t = 1..(Len(s) - k + 1)
      /\ \A i \in 1..(Len(s) - k + 1) : t[i] = s[i + k - 1]
  BY <1>3, <1>4, PartOf
<1>6. Len(s) - k + 1 = Len(s) - n /\ \A i \in 1..(Len(s) - n) : i + k - 1 = i + n
  BY <1>1, <1>2
<1>7. QED
  BY <1>1, <1>5, <1>6

\* A stream of which only the first n units are left.
LEMMA KeptOf ==
  ASSUME NEW S, NEW s \in Seq(S), NEW n \in 0..Len(s), NEW t, t = SubSeq(s, 1, n)
  PROVE  /\ t \in Seq(S) /\ Len(t) = n
         /\ DOMAIN s = 1..Len(s) /\ DOMAIN t = 1..n
         /\ \A i \in 1..n : t[i] = s[i]
<1>1. Len(s) \in Nat /\ DOMAIN s = 1..Len(s)
  BY LenProperties
<1>2. /\ SubSeq(s, 1, n) \in Seq(S) /\ Len(SubSeq(s, 1, n)) = n - 1 + 1
      /\ DOMAIN SubSeq(s, 1, n) = 1..(n - 1 + 1)
      /\ \A i \in 1..(n - 1 + 1) : SubSeq(s, 1, n)[i] = s[i + 1 - 1]
  BY <1>1, PartOf
<1>3. n - 1 + 1 = n /\ \A i \in 1..n : i + 1 - 1 = i
  BY <1>1
<1>4. QED
  BY <1>1, <1>2, <1>3

\* What is said of all units of a stream is true of those left when its first n are taken.
LEMMA CutKeeps ==
  ASSUME NEW s \in Seq(UnitSet), NEW n \in 0..Len(s), NEW t, t = SubSeq(s, n + 1, Len(s)),
         NEW g \in n..Len(s)
  PROVE  /\ \A a : AllOf(s, a) => AllOf(t, a)
         /\ NoVerdict(s) => NoVerdict(t)
         /\ OneVerdict(s) => OneVerdict(t)
         /\ Whole(s) => Whole(t)
         /\ GotUnits(s, g) => GotUnits(t, g - n)
<1>1. /\ DOMAIN s = 1..Len(s) /\ DOMAIN t = 1..(Len(s) - n) /\ Len(s) \in Nat
      /\ \A i \in 1..(Len(s) - n) : t[i] = s[i + n]
  BY CutOf, LenProperties
<1>2. \A i \in DOMAIN t : i + n \in DOMAIN s /\ t[i] = s[i + n] /\ i \in Int
  BY <1>1
<1>3. \A a : AllOf(s, a) => AllOf(t, a)
  BY <1>2 DEF AllOf
<1>4. NoVerdict(s) => NoVerdict(t)
  BY <1>2 DEF NoVerdict
<1>5. OneVerdict(s) => OneVerdict(t)
  BY <1>2 DEF OneVerdict
<1>6. Whole(s) => Whole(t)
  BY <1>1, <1>2 DEF Whole
<1>7. GotUnits(s, g) => GotUnits(t, g - n)
  BY <1>1, <1>2 DEF GotUnits
<1>8. QED
  BY <1>3, <1>4, <1>5, <1>6, <1>7

\* Two units taken off are a message: what follows begins with a head.
LEMMA CutFramed ==
  ASSUME NEW s \in Seq(UnitSet), Len(s) >= 2, NEW t, t = SubSeq(s, 3, Len(s)),
         Framed(s), s[1].msg # "bye"
  PROVE  /\ s[1].msg \in Messages /\ s[2].msg = "rest"
         /\ Framed(t)
         /\ OneVerdict(s) /\ IsVerdict(s[1]) => NoVerdict(t)
<1>1. Len(s) \in Nat /\ 2 \in 0..Len(s) /\ DOMAIN s = 1..Len(s) /\ s[1] \in UnitSet
  BY LenProperties, ElementOfSeq
<1>2. PICK n : n = 2
  OBVIOUS
<1>3. t = SubSeq(s, n + 1, Len(s)) /\ n \in 0..Len(s)
  BY <1>1, <1>2
<1>4. /\ DOMAIN t = 1..(Len(s) - n)
      /\ \A i \in 1..(Len(s) - n) : t[i] = s[i + n]
  BY <1>3, CutOf
<1>5. \A i \in DOMAIN t : i + 2 \in DOMAIN s /\ t[i] = s[i + 2] /\ i \in Int /\ i >= 1
  BY <1>1, <1>2, <1>4
<1>6. s[1].msg \in Messages
  <2>1. 1 \in DOMAIN s /\ ~(1 - 1 \in DOMAIN s)
    BY <1>1
  <2>2. s[1].msg # "rest"
    BY <2>1 DEF Framed
  <2>3. QED
    BY <1>1, <2>2 DEF UnitSet
<1>7. s[2].msg = "rest"
  <2>1. 1 \in DOMAIN s /\ 1 + 1 \in DOMAIN s /\ 1 + 1 = 2
    BY <1>1
  <2>2. s[1 + 1].msg = "rest"
    BY <1>6, <2>1 DEF Framed
  <2>3. QED
    BY <2>1, <2>2
<1>8. ASSUME NEW i \in DOMAIN t
      PROVE  /\ t[i].msg = "rest" => i - 1 \in DOMAIN t /\ t[i - 1].msg \in Messages
             /\ t[i].msg \in Messages /\ i + 1 \in DOMAIN t => t[i + 1].msg = "rest"
  <2>1. i + 2 \in DOMAIN s /\ t[i] = s[i + 2] /\ i \in Int /\ i >= 1
    BY <1>5
  <2>2. ASSUME t[i].msg = "rest"
        PROVE  i - 1 \in DOMAIN t /\ t[i - 1].msg \in Messages
    <3>1. (i + 2) - 1 \in DOMAIN s /\ s[(i + 2) - 1].msg \in Messages
      BY <2>1, <2>2 DEF Framed
    <3>2. i # 1
      <4>1. i = 1 => s[2].msg \in Messages
        BY <2>1, <3>1
      <4>2. QED
        BY <1>7, <4>1 DEF Messages
    <3>3. i - 1 \in DOMAIN t /\ (i - 1) + 2 = (i + 2) - 1
      BY <1>1, <1>2, <1>4, <2>1, <3>2
    <3>4. QED
      BY <1>5, <3>1, <3>3
  <2>3. ASSUME t[i].msg \in Messages, i + 1 \in DOMAIN t
        PROVE  t[i + 1].msg = "rest"
    <3>1. (i + 2) + 1 \in DOMAIN s /\ t[i + 1] = s[(i + 2) + 1]
      BY <1>1, <1>2, <1>4, <2>1, <2>3
    <3>2. QED
      BY <2>1, <2>3, <3>1 DEF Framed
  <2>4. QED
    BY <2>2, <2>3
<1>9. OneVerdict(s) /\ IsVerdict(s[1]) => NoVerdict(t)
  BY <1>1, <1>5 DEF OneVerdict, NoVerdict
<1>10. QED
  BY <1>6, <1>7, <1>8, <1>9 DEF Framed

\* What is in TCP is lost.
LEMMA KeptKeeps ==
  ASSUME NEW s \in Seq(UnitSet), NEW n \in 0..Len(s), NEW t, t = SubSeq(s, 1, n), NEW g
  PROVE  /\ \A a : AllOf(s, a) => AllOf(t, a)
         /\ NoVerdict(s) => NoVerdict(t)
         /\ OneVerdict(s) => OneVerdict(t)
         /\ GotUnits(s, g) => GotUnits(t, g)
         /\ Framed(s) => Framed(t)
<1>1. /\ DOMAIN s = 1..Len(s) /\ DOMAIN t = 1..n /\ Len(s) \in Nat
      /\ \A i \in 1..n : t[i] = s[i]
  BY KeptOf, LenProperties
<1>2. \A i \in DOMAIN t : i \in DOMAIN s /\ t[i] = s[i] /\ i \in Int
  BY <1>1
<1>3. \A a : AllOf(s, a) => AllOf(t, a)
  BY <1>2 DEF AllOf
<1>4. NoVerdict(s) => NoVerdict(t)
  BY <1>2 DEF NoVerdict
<1>5. OneVerdict(s) => OneVerdict(t)
  BY <1>2 DEF OneVerdict
<1>6. GotUnits(s, g) => GotUnits(t, g)
  BY <1>2 DEF GotUnits
<1>7. ASSUME Framed(s) PROVE Framed(t)
  <2>1. \A i \in DOMAIN t : i - 1 \in DOMAIN s => i - 1 \in DOMAIN t
    BY <1>1
  <2>2. QED
    BY <1>2, <1>7, <2>1 DEF Framed
<1>8. QED
  BY <1>3, <1>4, <1>5, <1>6, <1>7

\* What the server adds to the stream: a message, or its close_notify.
LEMMA AddedUnits ==
  ASSUME sock \in 1..MaxTries, NEW m \in Messages, NEW s \in Seq(UnitSet), Whole(s),
         NEW g \in 0..Len(s)
  PROVE  /\ s \o Units(m) \in Seq(UnitSet) /\ Len(s \o Units(m)) = Len(s) + 2
         /\ AllOf(s, sock) => AllOf(s \o Units(m), sock)
         /\ NoVerdict(s) /\ m = "news" => NoVerdict(s \o Units(m))
         /\ OneVerdict(s) /\ (NoVerdict(s) \/ m = "news") => OneVerdict(s \o Units(m))
         /\ GotUnits(s, g) => GotUnits(s \o Units(m), g)
         /\ Framed(s) => Framed(s \o Units(m))
         /\ Whole(s \o Units(m))
<1> DEFINE t == s \o Units(m)
<1>1. Units(m) \in Seq(UnitSet) /\ Len(Units(m)) = 2
  BY DEF Units, Unit, UnitSet
<1>2. Units(m)[1] = Unit(m) /\ Units(m)[2] = Unit("rest")
  <2>1. \A a, b : <<a, b>>[1] = a /\ <<a, b>>[2] = b
    OBVIOUS
  <2>2. Units(m) = <<Unit(m), Unit("rest")>>
    BY DEF Units
  <2>3. QED
    BY <2>1, <2>2, Zenon
<1>3. /\ t \in Seq(UnitSet) /\ Len(t) = Len(s) + 2
      /\ \A i \in 1..Len(s) + 2 : t[i] = IF i <= Len(s) THEN s[i] ELSE Units(m)[i - Len(s)]
  <2>1. ASSUME NEW u \in Seq(UnitSet), Len(u) = 2
        PROVE  /\ s \o u \in Seq(UnitSet) /\ Len(s \o u) = Len(s) + 2
               /\ \A i \in 1..Len(s) + 2 :
                    (s \o u)[i] = IF i <= Len(s) THEN s[i] ELSE u[i - Len(s)]
    <3>1. /\ s \o u \in Seq(UnitSet) /\ Len(s \o u) = Len(s) + Len(u)
          /\ \A i \in 1..Len(s) + Len(u) :
               (s \o u)[i] = IF i <= Len(s) THEN s[i] ELSE u[i - Len(s)]
      BY ConcatProperties
    <3>2. QED
      BY <2>1, <3>1
  <2>2. QED
    BY <1>1, <2>1
<1>4. Len(s) \in Nat /\ DOMAIN s = 1..Len(s) /\ DOMAIN t = 1..Len(s) + 2
  BY <1>3, LenProperties
<1>5. /\ \A i \in DOMAIN s : i \in DOMAIN t /\ t[i] = s[i]
      /\ t[Len(s) + 1] = Unit(m) /\ t[Len(s) + 2] = Unit("rest")
      /\ \A i \in DOMAIN t : i \in DOMAIN s \/ i = Len(s) + 1 \/ i = Len(s) + 2
  BY <1>2, <1>3, <1>4
<1>6. /\ t[Len(s) + 1].of = sock /\ t[Len(s) + 1].msg = m
      /\ t[Len(s) + 2].of = sock /\ t[Len(s) + 2].msg = "rest"
  BY <1>5 DEF Unit
<1>7. m # "rest" /\ m # "bye" /\ (m = "news" => ~IsVerdict(t[Len(s) + 1]))
      /\ ~IsVerdict(t[Len(s) + 2])
  BY <1>6 DEF Messages, IsVerdict
<1> HIDE DEF t
<1>8. AllOf(s, sock) => AllOf(t, sock)
  BY <1>5, <1>6 DEF AllOf
<1>9. NoVerdict(s) /\ m = "news" => NoVerdict(t)
  BY <1>5, <1>7 DEF NoVerdict
<1>10. OneVerdict(s) /\ (NoVerdict(s) \/ m = "news") => OneVerdict(t)
  <2>1. ASSUME OneVerdict(s), NoVerdict(s), NEW i \in DOMAIN t, IsVerdict(t[i])
        PROVE  i = Len(s) + 1
    BY <1>5, <1>7, <2>1 DEF NoVerdict
  <2>2. ASSUME OneVerdict(s), m = "news", NEW i \in DOMAIN t, IsVerdict(t[i])
        PROVE  i \in DOMAIN s /\ IsVerdict(s[i])
    BY <1>5, <1>7, <2>2
  <2>3. QED
    BY <2>1, <2>2 DEF OneVerdict
<1>11. GotUnits(s, g) => GotUnits(t, g)
  <2>1. \A i \in DOMAIN t : i <= g => i \in DOMAIN s
    BY <1>4
  <2>2. QED
    BY <1>5, <2>1 DEF GotUnits
<1>12. ASSUME Framed(s) PROVE Framed(t)
  <2>1. ASSUME NEW i \in DOMAIN t, t[i].msg = "rest"
        PROVE  i - 1 \in DOMAIN t /\ t[i - 1].msg \in Messages
    <3>1. CASE i \in DOMAIN s
      BY <1>5, <1>12, <2>1, <3>1 DEF Framed
    <3>2. CASE i = Len(s) + 2
      <4>1. i - 1 = Len(s) + 1 /\ i - 1 \in DOMAIN t
        BY <1>4, <3>2
      <4>2. QED
        BY <1>6, <4>1
    <3>3. QED
      BY <1>5, <1>6, <1>7, <2>1, <3>1, <3>2
  <2>2. ASSUME NEW i \in DOMAIN t, t[i].msg \in Messages, i + 1 \in DOMAIN t
        PROVE  t[i + 1].msg = "rest"
    <3>1. CASE i \in DOMAIN s
      <4>1. i + 1 \in DOMAIN s
        BY <1>5, <2>2, <3>1 DEF Whole
      <4>2. QED
        BY <1>5, <1>12, <2>2, <3>1, <4>1 DEF Framed
    <3>2. CASE i = Len(s) + 1
      <4>1. i + 1 = Len(s) + 2
        BY <1>4, <3>2
      <4>2. QED
        BY <1>6, <4>1
    <3>3. CASE i = Len(s) + 2
      BY <1>6, <2>2, <3>3 DEF Messages
    <3>4. QED
      BY <1>5, <2>2, <3>1, <3>2, <3>3
  <2>3. QED
    BY <2>1, <2>2 DEF Framed
<1>13. Whole(t)
  <2>1. ASSUME NEW i \in DOMAIN t, t[i].msg \in Messages
        PROVE  i + 1 \in DOMAIN t
    <3>1. CASE i \in DOMAIN s
      BY <1>5, <2>1, <3>1 DEF Whole
    <3>2. CASE i = Len(s) + 1
      BY <1>4, <3>2
    <3>3. CASE i = Len(s) + 2
      BY <1>6, <2>1, <3>3 DEF Messages
    <3>4. QED
      BY <1>5, <2>1, <3>1, <3>2, <3>3
  <2>2. QED
    BY <2>1 DEF Whole
<1>14. QED
  BY <1>3, <1>8, <1>9, <1>10, <1>11, <1>12, <1>13 DEF t

LEMMA AddedBye ==
  ASSUME sock \in 1..MaxTries, NEW s \in Seq(UnitSet), Whole(s), NEW g \in 0..Len(s),
         NEW t, t = Append(s, Unit("bye"))
  PROVE  /\ t \in Seq(UnitSet) /\ Len(t) = Len(s) + 1
         /\ AllOf(s, sock) => AllOf(t, sock)
         /\ NoVerdict(s) => NoVerdict(t)
         /\ OneVerdict(s) => OneVerdict(t)
         /\ GotUnits(s, g) => GotUnits(t, g)
         /\ Framed(s) => Framed(t)
<1>1. Unit("bye") \in UnitSet
  BY DEF Unit, UnitSet
<1>2. /\ t \in Seq(UnitSet) /\ Len(t) = Len(s) + 1
      /\ \A i \in 1..Len(s) : t[i] = s[i]
      /\ t[Len(s) + 1] = Unit("bye")
  BY <1>1, AppendProperties
<1>3. Len(s) \in Nat /\ DOMAIN s = 1..Len(s) /\ DOMAIN t = 1..Len(s) + 1
  BY <1>2, LenProperties
<1>4. /\ \A i \in DOMAIN s : i \in DOMAIN t /\ t[i] = s[i]
      /\ t[Len(s) + 1].of = sock /\ t[Len(s) + 1].msg = "bye"
      /\ \A i \in DOMAIN t : i \in DOMAIN s \/ i = Len(s) + 1
  BY <1>2, <1>3 DEF Unit
<1>5. ~IsVerdict(t[Len(s) + 1])
  BY <1>4 DEF IsVerdict
<1>6. AllOf(s, sock) => AllOf(t, sock)
  BY <1>4 DEF AllOf
<1>7. NoVerdict(s) => NoVerdict(t)
  BY <1>4, <1>5 DEF NoVerdict
<1>8. OneVerdict(s) => OneVerdict(t)
  BY <1>4, <1>5 DEF OneVerdict
<1>9. GotUnits(s, g) => GotUnits(t, g)
  <2>1. \A i \in DOMAIN t : i <= g => i \in DOMAIN s
    BY <1>3
  <2>2. QED
    BY <1>4, <2>1 DEF GotUnits
<1>10. ASSUME Framed(s) PROVE Framed(t)
  <2>1. ASSUME NEW i \in DOMAIN t, t[i].msg = "rest"
        PROVE  i - 1 \in DOMAIN t /\ t[i - 1].msg \in Messages
    BY <1>4, <1>10, <2>1 DEF Framed
  <2>2. ASSUME NEW i \in DOMAIN t, t[i].msg \in Messages, i + 1 \in DOMAIN t
        PROVE  t[i + 1].msg = "rest"
    <3>1. i \in DOMAIN s
      BY <1>4, <2>2 DEF Messages
    <3>2. i + 1 \in DOMAIN s
      BY <1>4, <2>2, <3>1 DEF Whole
    <3>3. QED
      BY <1>4, <1>10, <2>2, <3>1, <3>2 DEF Framed
  <2>3. QED
    BY <2>1, <2>2 DEF Framed
<1>11. QED
  BY <1>2, <1>6, <1>7, <1>8, <1>9, <1>10

\* There is no attempt 0.
LEMMA NoneOfNone == ASSUME NEW s \in Seq(UnitSet), AllOf(s, 0) PROVE s = <<>>
<1>1. Len(s) \in Nat /\ DOMAIN s = 1..Len(s) /\ \A i \in 1..Len(s) : s[i] \in UnitSet
  BY LenProperties, ElementOfSeq
<1>2. \A i \in DOMAIN s : s[i].of # 0
  BY <1>1 DEF UnitSet
<1>3. Len(s) = 0
  BY <1>1, <1>2 DEF AllOf
<1>4. s # <<>> => Len(s) # 0
  BY EmptySeq
<1>5. QED
  BY <1>3, <1>4

\* Nothing said agrees with everything.
LEMMA EmptyOf ==
  ASSUME NEW n
  PROVE  /\ AllOf(<<>>, n) /\ NoVerdict(<<>>) /\ OneVerdict(<<>>) /\ Framed(<<>>)
         /\ Whole(<<>>) /\ GotUnits(<<>>, n) /\ <<>> \in Seq(UnitSet)
  BY EmptySeq DEF AllOf, NoVerdict, OneVerdict, Framed, Whole, GotUnits
-----------------------------------------------------------------------------
States == {"Disconnected", "Connecting", "Connected", "Error"}

\* doClose() after its wait, on what it assigns.
LEMMA EndTyped ==
  ASSUME TypeOK, NEW s \in States, NEW t, NEW notify \in BOOLEAN, EndConnection(s, t, notify)
  PROVE  /\ state' = "Disconnected" /\ queue' \in Seq({"hello", "request"})
         /\ writing' \in BOOLEAN /\ tls' \in {tls, "shut"}
         /\ shutdowns' \in Seq(BOOLEAN) /\ told' \in {t, "gone"}
<1>1. <<>> \in Seq({"hello", "request"}) /\ Append(shutdowns, notify) \in Seq(BOOLEAN)
  BY EmptySeq, AppendTo DEF TypeOK
<1>2. QED
  BY <1>1 DEF TypeOK, EndConnection, Shutdown, CloseNotify, DisconnectHandler

\* doClose() ends the connection or waits for the input thread, and keeps the types.
LEMMA CloseTyped ==
  ASSUME TypeOK, NEW s \in States, DoClose(s, TRUE)
  PROVE  /\ state' \in States /\ queue' \in Seq({"hello", "request"})
         /\ writing' \in BOOLEAN /\ capture' \in BOOLEAN /\ io' \in {"idle", "join"}
         /\ tls' \in {tls, "shut"}
         /\ shutdowns' \in Seq(BOOLEAN) /\ told' \in {told, "gone"}
<1>1. CASE capture
  BY <1>1 DEF TypeOK, DoClose
<1>2. CASE ~capture
  BY <1>2, EndTyped DEF TypeOK, DoClose, States
<1>3. QED
  BY <1>1, <1>2

\* What erasing n units leaves of the stream.
LEMMA EraseTyped ==
  ASSUME TypeOK, NEW n \in 0..got, Erase(n)
  PROVE  /\ stream \in Seq(UnitSet) /\ n \in 0..Len(stream) /\ got \in n..Len(stream)
         /\ stream' = SubSeq(stream, n + 1, Len(stream)) /\ got' = got - n
         /\ stream' \in Seq(UnitSet) /\ held' \in 0..Len(stream') /\ got' \in 0..held'
<1>1. /\ stream \in Seq(UnitSet) /\ Len(stream) \in Nat
      /\ held \in 0..Len(stream) /\ got \in 0..held
  BY LenProperties DEF TypeOK, UnitSet
<1>2. n \in 0..Len(stream) /\ got \in n..Len(stream)
  BY <1>1
<1>3. stream' \in Seq(UnitSet) /\ Len(stream') = Len(stream) - n
  BY <1>1, <1>2, CutOf DEF Erase
<1>4. held' = held - n /\ got' = got - n
  BY DEF Erase
<1>5. QED
  BY <1>1, <1>2, <1>3, <1>4 DEF Erase
-----------------------------------------------------------------------------
(* Types.  The Boolean variables have steps of their own: the prover that handles them   *)
(* best has no arithmetic.                                                               *)

Flags ==
  /\ reading \in BOOLEAN /\ writing \in BOOLEAN /\ inflight \in BOOLEAN
  /\ capture \in BOOLEAN /\ manager \in BOOLEAN /\ gaveUp \in BOOLEAN

Data ==
  /\ state \in States
  /\ tries \in 0..MaxTries /\ sock \in 0..tries
  /\ tls \in {"fresh", "half", "bad", "done", "shut"} /\ tlsWith \in 0..tries
  /\ op \in {"none", "resolve", "tcp", "tls"}
  /\ queue \in Seq({"hello", "request"})
  /\ shutdowns \in Seq(BOOLEAN)
  /\ posts \in Seq({"hello", "request", "close"})
  /\ stream \in Seq(UnitSet) /\ held \in 0..Len(stream) /\ got \in 0..held
  /\ io \in {"idle", "decode", "join"}
  /\ peer \in {"none", "greet", "secure", "asked", "member", "refused", "closed"}
  /\ news \in 0..MaxNews /\ requests \in 0..MaxRequests
  /\ thread \in {"none", "runs", "ended"}
  /\ told \in {"setup", "waiting", "session", "gone"}

\* The type is its Boolean part and the rest, in this state and in the next.
LEMMA TypeParts == TypeOK <=> Flags /\ Data
  BY DEF TypeOK, Flags, Data, States, UnitSet

LEMMA TypePartsNext == TypeOK' <=> Flags' /\ Data'
  BY DEF TypeOK, Flags, Data, States, UnitSet

\* The initial state has the type.
LEMMA TypeInit == Init => TypeOK
<1> SUFFICES ASSUME Init PROVE TypeOK
  OBVIOUS
<1>1. /\ <<>> \in Seq({"hello", "request"}) /\ <<>> \in Seq(BOOLEAN)
      /\ <<>> \in Seq(UnitSet) /\ Len(<<>>) = 0
      /\ <<>> \in Seq({"hello", "request", "close"})
  BY EmptySeq
<1>2. Flags
  BY DEF Init, Flags
<1>3. Data
  BY <1>1, BoundsAssumption DEF Init, Data, States
<1>4. QED
  BY <1>2, <1>3, TypeParts

\* What ends a connection.
LEMMA TypeClosing ==
  ASSUME TypeOK
  PROVE  /\ RunClose => TypeOK'
         /\ HandleWriteError => TypeOK'
         /\ \A s \in {state, "Error"} : HandleReadError(s) => TypeOK'
         /\ InputThreadJoined => TypeOK'
         /\ ShutdownDone => TypeOK'
         /\ AnswerFails => TypeOK'
         /\ DecodeFails => TypeOK'
<1> USE TypeParts, TypePartsNext
<1>1. ASSUME RunClose PROVE TypeOK'
  <2>1. posts' \in Seq({"hello", "request", "close"})
    BY <1>1, TailOf DEF Data, RunClose
  <2>2. /\ state' \in States /\ queue' \in Seq({"hello", "request"})
        /\ writing' \in BOOLEAN /\ capture' \in BOOLEAN /\ io' \in {"idle", "decode", "join"}
        /\ tls' \in {"fresh", "half", "bad", "done", "shut"}
        /\ shutdowns' \in Seq(BOOLEAN) /\ told' \in {"setup", "waiting", "session", "gone"}
    BY <1>1, CloseTyped DEF RunClose, Data, States
  <2>3. Flags'
    BY <1>1, <2>1, <2>2 DEF Flags, RunClose, linkVars, tlsVars, serverVars, streamVars
  <2>4. Data'
    BY <1>1, <2>1, <2>2 DEF Data, RunClose, linkVars, tlsVars, serverVars, streamVars
  <2>5. QED
    BY <2>3, <2>4
<1>2. ASSUME HandleWriteError PROVE TypeOK'
  <2>1. /\ state' \in States /\ queue' \in Seq({"hello", "request"})
        /\ writing' \in BOOLEAN /\ capture' \in BOOLEAN /\ io' \in {"idle", "decode", "join"}
        /\ tls' \in {"fresh", "half", "bad", "done", "shut"}
        /\ shutdowns' \in Seq(BOOLEAN) /\ told' \in {"setup", "waiting", "session", "gone"}
    BY <1>2, CloseTyped DEF HandleWriteError, Data, States
  <2>2. Flags'
    BY <1>2, <2>1 DEF Flags, HandleWriteError, linkVars, tlsVars, serverVars, streamVars
  <2>3. Data'
    BY <1>2, <2>1 DEF Data, HandleWriteError, linkVars, tlsVars, serverVars, streamVars
  <2>4. QED
    BY <2>2, <2>3
<1>3. ASSUME NEW s \in {state, "Error"}, HandleReadError(s) PROVE TypeOK'
  <2>1. /\ state' \in States /\ queue' \in Seq({"hello", "request"})
        /\ writing' \in BOOLEAN /\ capture' \in BOOLEAN /\ io' \in {"idle", "decode", "join"}
        /\ tls' \in {"fresh", "half", "bad", "done", "shut"}
        /\ shutdowns' \in Seq(BOOLEAN) /\ told' \in {"setup", "waiting", "session", "gone"}
    BY <1>3, CloseTyped DEF HandleReadError, Data, Flags, States, Ended
  <2>2. Flags'
    BY <1>3, <2>1 DEF Flags, HandleReadError, linkVars, tlsVars, serverVars, streamVars
  <2>3. Data'
    BY <1>3, <2>1 DEF Data, HandleReadError, linkVars, tlsVars, serverVars, streamVars
  <2>4. QED
    BY <2>2, <2>3
<1>4. ASSUME InputThreadJoined PROVE TypeOK'
  <2>1. /\ state' = "Disconnected" /\ queue' \in Seq({"hello", "request"})
        /\ writing' \in BOOLEAN /\ tls' \in {tls, "shut"}
        /\ shutdowns' \in Seq(BOOLEAN) /\ told' \in {told, "gone"}
    BY <1>4, EndTyped DEF InputThreadJoined, Data, States
  <2>2. Flags'
    BY <1>4, <2>1 DEF Flags, InputThreadJoined, States, linkVars, tlsVars, serverVars, streamVars
  <2>3. Data'
    BY <1>4, <2>1 DEF Data, InputThreadJoined, States, linkVars, tlsVars, serverVars, streamVars
  <2>4. QED
    BY <2>2, <2>3
<1>5. ASSUME ShutdownDone PROVE TypeOK'
  <2>1. shutdowns' \in Seq(BOOLEAN)
    BY <1>5, TailOf DEF Data, ShutdownDone
  <2>2. told' \in {told, "gone"} /\ sock' = 0
    BY <1>5 DEF ShutdownDone, DisconnectHandler
  <2>3. UNCHANGED <<state, tries, tlsVars, op, queue, posts, streamVars, io, serverVars,
                    requests, thread>>
    BY <1>5 DEF ShutdownDone, writeVars, inputVars
  <2>4. Flags'
    BY <1>5, <2>1, <2>2, <2>3
       DEF Flags, ShutdownDone, DisconnectHandler, linkVars, tlsVars, serverVars, streamVars,
           writeVars, inputVars
  <2>5. Data'
    BY <2>1, <2>2, <2>3 DEF Data, serverVars, streamVars, tlsVars
  <2>6. QED
    BY <2>4, <2>5
<1>6. ASSUME AnswerFails PROVE TypeOK'
  <2>1. 2 \in 0..got
    BY <1>6 DEF AnswerFails, Data
  <2>2. stream' \in Seq(UnitSet) /\ held' \in 0..Len(stream') /\ got' \in 0..held'
    BY <1>6, <2>1, EraseTyped DEF AnswerFails
  <2>3. /\ state' = "Disconnected" /\ queue' \in Seq({"hello", "request"})
        /\ writing' \in BOOLEAN /\ tls' \in {tls, "shut"}
        /\ shutdowns' \in Seq(BOOLEAN) /\ told' \in {"setup", "gone"}
    <3>1. "Error" \in States /\ EndConnection("Error", "setup", TRUE)
      BY <1>6 DEF AnswerFails, States
    <3>2. QED
      BY <3>1, EndTyped
  <2>4. Flags'
    BY <1>6, <2>3 DEF Flags, AnswerFails
  <2>5. Data'
    BY <1>6, <2>2, <2>3 DEF Data, AnswerFails, States, serverVars
  <2>6. QED
    BY <2>4, <2>5
<1>7. ASSUME DecodeFails PROVE TypeOK'
  <2>1. stream' \in Seq(UnitSet) /\ held' \in 0..Len(stream') /\ got' \in 0..held'
    <3>1. CASE Erase(got)
      <4>1. got \in 0..got
        BY DEF Data
      <4>2. QED
        BY <3>1, <4>1, EraseTyped
    <3>2. CASE UNCHANGED streamVars
      BY <3>2 DEF Data, streamVars
    <3>3. QED
      BY <1>7, <3>1, <3>2 DEF DecodeFails
  <2>2. /\ state' \in States /\ queue' \in Seq({"hello", "request"})
        /\ writing' \in BOOLEAN /\ capture' \in BOOLEAN /\ io' \in {"idle", "decode", "join"}
        /\ tls' \in {"fresh", "half", "bad", "done", "shut"}
        /\ shutdowns' \in Seq(BOOLEAN) /\ told' \in {"setup", "waiting", "session", "gone"}
    <3>1. PICK s \in {state, "Error"} : DoClose(s, TRUE)
      BY <1>7 DEF DecodeFails
    <3>2. s \in States
      BY DEF Data, States
    <3>3. QED
      BY <3>1, <3>2, CloseTyped DEF Data
  <2>3. Flags'
    BY <1>7, <2>2 DEF Flags, DecodeFails
  <2>4. Data'
    BY <1>7, <2>1, <2>2 DEF Data, DecodeFails, serverVars
  <2>5. QED
    BY <2>3, <2>4
<1>8. QED
  BY <1>1, <1>2, <1>3, <1>4, <1>5, <1>6, <1>7

\* How a TLS handshake may end.
Ends == {"half", "bad", "done", "shut"}

\* An attempt.
LEMMA TypeConnecting ==
  ASSUME TypeOK
  PROVE  /\ Connect => TypeOK'
         /\ \A ok \in BOOLEAN : HandleResolve(ok) => TypeOK'
         /\ \A ok \in BOOLEAN : HandleTcpConnect(ok) => TypeOK'
         /\ \A r \in Ends : HandleSslHandshake(r) => TypeOK'
<1> USE TypeParts, TypePartsNext
<1>1. ASSUME Connect PROVE TypeOK'
  <2>1. Flags'
    BY <1>1
       DEF Flags, Connect, States, linkVars, tlsVars, serverVars, streamVars, writeVars, inputVars
  <2>2. Data'
    BY <1>1, BoundsAssumption
       DEF Data, Connect, States, linkVars, tlsVars, serverVars, streamVars, writeVars, inputVars
  <2>3. QED
    BY <2>1, <2>2
<1>2. ASSUME NEW ok \in BOOLEAN, HandleResolve(ok) PROVE TypeOK'
  <2>1. /\ stream \in Seq(UnitSet) /\ Len(stream) \in Nat
        /\ held \in 0..Len(stream) /\ got \in 0..held
    BY LenProperties DEF Data
  <2>2. PICK s : s = SubSeq(stream, 1, held)
    OBVIOUS
  <2>3. s \in Seq(UnitSet) /\ Len(s) = held
    BY <2>1, <2>2, KeptOf
  <2>4. stream' = stream \/ stream' = s
    BY <1>2, <2>2 DEF HandleResolve
  <2>5. stream' \in Seq(UnitSet) /\ held' \in 0..Len(stream') /\ got' \in 0..held'
    BY <1>2, <2>1, <2>3, <2>4 DEF HandleResolve
  <2>6. Flags'
    BY <1>2 DEF Flags, HandleResolve, writeVars, inputVars
  <2>7. Data'
    BY <1>2, <2>5
       DEF Data, HandleResolve, Fail, States, tlsVars, writeVars, inputVars
  <2>8. QED
    BY <2>6, <2>7
<1>3. ASSUME NEW ok \in BOOLEAN, HandleTcpConnect(ok) PROVE TypeOK'
  <2>1. Flags'
    BY <1>3 DEF Flags, HandleTcpConnect, writeVars, inputVars
  <2>2. Data'
    BY <1>3
       DEF Data, HandleTcpConnect, Fail, States, tlsVars, streamVars, writeVars, inputVars
  <2>3. QED
    BY <2>1, <2>2
<1>4. ASSUME NEW r \in Ends, HandleSslHandshake(r) PROVE TypeOK'
  <2>1. /\ tls' \in {"fresh", "half", "bad", "done", "shut"} /\ tlsWith' \in {tlsWith, tries}
        /\ peer' \in {peer, "secure"}
    BY <1>4 DEF HandleSslHandshake, TlsHandshake, FirstHandshake, Data, tlsVars, Ends
  <2>2. /\ Append(posts, "hello") \in Seq({"hello", "request", "close"})
        /\ Append(shutdowns, FALSE) \in Seq(BOOLEAN)
        /\ <<>> \in Seq({"hello", "request"})
    BY AppendTo, EmptySeq DEF Data
  <2>3. /\ state' \in States /\ told' \in {told, "setup"}
        /\ posts' \in Seq({"hello", "request", "close"})
        /\ queue' \in Seq({"hello", "request"})
        /\ shutdowns' \in Seq(BOOLEAN)
    BY <1>4, <2>2 DEF HandleSslHandshake, Shutdown, States, Data
  <2>4. /\ op' = "none"
        /\ UNCHANGED <<tries, sock, stream, got, held, io, news, requests, thread>>
    BY <1>4 DEF HandleSslHandshake, inputVars, streamVars
  <2>5. Flags'
    BY <1>4 DEF Flags, HandleSslHandshake, inputVars
  <2>6. Data'
    BY <2>1, <2>2, <2>3, <2>4 DEF Data
  <2>7. QED
    BY <2>5, <2>6
<1>5. QED
  BY <1>1, <1>2, <1>3, <1>4

\* The messages of the client.
LEMMA TypeSending ==
  ASSUME TypeOK
  PROVE  /\ SendRequest => TypeOK'
         /\ Disconnect => TypeOK'
         /\ RunSend => TypeOK'
         /\ HandleWriteOk => TypeOK'
<1> USE TypeParts, TypePartsNext
<1>1. ASSUME SendRequest PROVE TypeOK'
  <2>1. posts' \in Seq({"hello", "request", "close"})
    BY <1>1, AppendTo DEF SendRequest, Data
  <2>2. Flags'
    BY <1>1, <2>1
       DEF Flags, SendRequest, linkVars, tlsVars, serverVars, streamVars, writeVars, inputVars
  <2>3. Data'
    BY <1>1, <2>1, BoundsAssumption
       DEF Data, SendRequest, linkVars, tlsVars, serverVars, streamVars, writeVars, inputVars
  <2>4. QED
    BY <2>2, <2>3
<1>2. ASSUME Disconnect PROVE TypeOK'
  <2>1. posts' \in Seq({"hello", "request", "close"})
    BY <1>2, AppendTo DEF Disconnect, Data
  <2>2. Flags'
    BY <1>2, <2>1
       DEF Flags, Disconnect, linkVars, tlsVars, serverVars, streamVars, writeVars, inputVars
  <2>3. Data'
    BY <1>2, <2>1
       DEF Data, Disconnect, linkVars, tlsVars, serverVars, streamVars, writeVars, inputVars
  <2>4. QED
    BY <2>2, <2>3
<1>3. ASSUME RunSend PROVE TypeOK'
  <2>1. posts' \in Seq({"hello", "request", "close"}) /\ Head(posts) \in {"hello", "request"}
    BY <1>3, TailOf DEF RunSend, Data
  <2>2. Append(queue, Head(posts)) \in Seq({"hello", "request"})
    BY <2>1, AppendTo DEF Data
  <2>3. Flags'
    BY <1>3, <2>1, <2>2
       DEF Flags, RunSend, linkVars, tlsVars, serverVars, streamVars, writeVars, inputVars
  <2>4. Data'
    BY <1>3, <2>1, <2>2
       DEF Data, RunSend, linkVars, tlsVars, serverVars, streamVars, writeVars, inputVars
  <2>5. QED
    BY <2>3, <2>4
<1>4. ASSUME HandleWriteOk PROVE TypeOK'
  <2>1. queue' \in Seq({"hello", "request"})
    BY <1>4, TailOf DEF HandleWriteOk, Data
  <2>2. Flags'
    BY <1>4, <2>1
       DEF Flags, HandleWriteOk, Delivered, linkVars, tlsVars, serverVars, streamVars, writeVars,
           inputVars
  <2>3. Data'
    BY <1>4, <2>1
       DEF Data, HandleWriteOk, Delivered, linkVars, tlsVars, serverVars, streamVars, writeVars,
           inputVars
  <2>4. QED
    BY <2>2, <2>3
<1>5. QED
  BY <1>1, <1>2, <1>3, <1>4

\* The messages of the server, and the input thread.
LEMMA TypeReceiving ==
  ASSUME TypeOK
  PROVE  /\ \A m \in 0..Len(stream) - held, n \in 1..Len(stream) - got :
              HandleRead(n, m) => TypeOK'
         /\ DecodeEnds => TypeOK'
         /\ \A started \in BOOLEAN : HandleMessage(started) => TypeOK'
         /\ ManagerStops => TypeOK'
         /\ InputLoopEnds => TypeOK'
<1> USE TypeParts, TypePartsNext
<1>1. ASSUME NEW m \in 0..Len(stream) - held, NEW n \in 1..Len(stream) - got, HandleRead(n, m)
      PROVE  TypeOK'
  <2>1. /\ stream \in Seq(UnitSet) /\ Len(stream) \in Nat
        /\ held \in 0..Len(stream) /\ got \in 0..held
    BY LenProperties DEF Data
  <2>2. stream' \in Seq(UnitSet) /\ held' \in 0..Len(stream') /\ got' \in 0..held'
    BY <1>1, <2>1 DEF HandleRead
  <2>3. Flags'
    BY <1>1 DEF Flags, HandleRead, writeVars, inputVars
  <2>4. Data'
    BY <1>1, <2>2 DEF Data, HandleRead, linkVars, tlsVars, serverVars, writeVars, inputVars
  <2>5. QED
    BY <2>3, <2>4
<1>2. ASSUME DecodeEnds PROVE TypeOK'
  <2>1. Flags'
    BY <1>2
       DEF Flags, DecodeEnds, Ended, linkVars, tlsVars, serverVars, streamVars, writeVars, inputVars
  <2>2. Data'
    BY <1>2
       DEF Data, DecodeEnds, Ended, linkVars, tlsVars, serverVars, streamVars, writeVars, inputVars
  <2>3. QED
    BY <2>1, <2>2
<1>3. ASSUME NEW started \in BOOLEAN, HandleMessage(started) PROVE TypeOK'
  <2>1. 2 \in 0..got
    BY <1>3 DEF HandleMessage, Data
  <2>2. stream' \in Seq(UnitSet) /\ held' \in 0..Len(stream') /\ got' \in 0..held'
    BY <1>3, <2>1, EraseTyped DEF HandleMessage
  <2>3. capture' \in BOOLEAN /\ manager' \in BOOLEAN
    BY <1>3 DEF HandleMessage, StartInput, Flags
  <2>4. /\ state' \in States /\ told' \in {"setup", "waiting", "session", "gone"}
        /\ thread' \in {"none", "runs", "ended"}
    BY <1>3 DEF HandleMessage, StartInput, Fail, States, Data
  <2>5. Flags'
    BY <1>3, <2>1, <2>2, <2>3, <2>4
       DEF Flags, HandleMessage, States, linkVars, tlsVars, serverVars, streamVars, writeVars,
           inputVars
  <2>6. Data'
    BY <1>3, <2>1, <2>2, <2>3, <2>4
       DEF Data, HandleMessage, States, linkVars, tlsVars, serverVars, streamVars, writeVars,
           inputVars
  <2>7. QED
    BY <2>5, <2>6
<1>4. ASSUME ManagerStops PROVE TypeOK'
  <2>1. Flags'
    BY <1>4
       DEF Flags, ManagerStops, linkVars, tlsVars, serverVars, streamVars, writeVars, inputVars
  <2>2. Data'
    BY <1>4
       DEF Data, ManagerStops, linkVars, tlsVars, serverVars, streamVars, writeVars, inputVars
  <2>3. QED
    BY <2>1, <2>2
<1>5. ASSUME InputLoopEnds PROVE TypeOK'
  <2>1. Flags'
    BY <1>5
       DEF Flags, InputLoopEnds, linkVars, tlsVars, serverVars, streamVars, writeVars, inputVars
  <2>2. Data'
    BY <1>5
       DEF Data, InputLoopEnds, linkVars, tlsVars, serverVars, streamVars, writeVars, inputVars
  <2>3. QED
    BY <2>1, <2>2
<1>6. QED
  BY <1>1, <1>2, <1>3, <1>4, <1>5

\* The server speaks only to an attempt.
LEMMA TypeServer ==
  ASSUME TypeOK, StreamInv
  PROVE  /\ ServerAnswers => TypeOK'
         /\ ServerSends => TypeOK'
         /\ ServerCloses => TypeOK'
<1> USE TypeParts, TypePartsNext
<1>1. /\ stream \in Seq(UnitSet) /\ Len(stream) \in Nat
      /\ held \in 0..Len(stream) /\ got \in 0..held /\ got \in 0..Len(stream)
  BY LenProperties DEF Data
<1>2. ASSUME peer \in {"secure", "asked", "member", "refused"}
      PROVE  /\ sock \in 1..MaxTries
             /\ \A m \in Messages :
                  stream \o Units(m) \in Seq(UnitSet) /\ Len(stream \o Units(m)) = Len(stream) + 2
             /\ /\ Append(stream, Unit("bye")) \in Seq(UnitSet)
                /\ Len(Append(stream, Unit("bye"))) = Len(stream) + 1
  <2>1. sock \in 1..MaxTries /\ Whole(stream)
    BY <1>2, BoundsAssumption DEF StreamInv, Data
  <2>2. QED
    BY <1>1, <2>1, AddedUnits, AddedBye
<1>3. ASSUME ServerUnchanged, stream' \in Seq(UnitSet), Len(stream') >= Len(stream),
             peer' \in {"none", "greet", "secure", "asked", "member", "refused", "closed"},
             news' \in 0..MaxNews
      PROVE  TypeOK'
  <2>1. held' \in 0..Len(stream') /\ got' \in 0..held'
    <3>1. Len(stream') \in Nat
      BY <1>3, LenProperties
    <3>2. QED
      BY <1>1, <1>3, <3>1 DEF ServerUnchanged
  <2>2. Flags'
    BY <1>3 DEF Flags, ServerUnchanged, writeVars, inputVars
  <2>3. Data'
    BY <1>3, <2>1 DEF Data, ServerUnchanged, linkVars, tlsVars, writeVars, inputVars
  <2>4. QED
    BY <2>2, <2>3
<1>4. ASSUME ServerAnswers PROVE TypeOK'
  <2>1. "answer" \in Messages /\ "refusal" \in Messages
    BY DEF Messages
  <2>2. PICK m \in Messages : stream' = stream \o Units(m)
    BY <1>4, <2>1 DEF ServerAnswers
  <2>3. stream' \in Seq(UnitSet) /\ Len(stream') = Len(stream) + 2
    BY <1>4, <1>2, <2>2 DEF ServerAnswers
  <2>4. QED
    BY <1>1, <1>3, <1>4, <2>3 DEF ServerAnswers, Data
<1>5. ASSUME ServerSends PROVE TypeOK'
  <2>1. stream' = stream \o Units("news") /\ "news" \in Messages
    BY <1>5 DEF ServerSends, Messages
  <2>2. stream' \in Seq(UnitSet) /\ Len(stream') = Len(stream) + 2
    BY <1>5, <1>2, <2>1 DEF ServerSends
  <2>3. QED
    BY <1>1, <1>3, <1>5, <2>2, BoundsAssumption DEF ServerSends, Data
<1>6. ASSUME ServerCloses PROVE TypeOK'
  <2>1. stream' \in Seq(UnitSet) /\ Len(stream') >= Len(stream)
    BY <1>1, <1>2, <1>6 DEF ServerCloses
  <2>2. QED
    BY <1>3, <1>6, <2>1 DEF ServerCloses, Data
<1>7. QED
  BY <1>4, <1>5, <1>6

-----------------------------------------------------------------------------
(* The steps *)

Closing ==
  \/ RunClose \/ HandleWriteError \/ DecodeFails \/ InputThreadJoined
  \/ ~Ended /\ \E s \in {state, "Error"} : HandleReadError(s)

Steps ==
  \/ \E ok \in BOOLEAN : HandleResolve(ok) \/ HandleTcpConnect(ok)
  \/ \E r \in Ends : HandleSslHandshake(r)
  \/ RunSend \/ HandleWriteOk
  \/ \E m \in 0..Len(stream) - held, n \in 1..Len(stream) - got : HandleRead(n, m)
  \/ Ended /\ \E s \in {state, "Error"} : HandleReadError(s)
  \/ \E started \in BOOLEAN : HandleMessage(started)
  \/ AnswerFails \/ DecodeEnds \/ Closing
  \/ ShutdownDone \/ Connect \/ SendRequest \/ Disconnect
  \/ ManagerStops \/ InputLoopEnds \/ ServerAnswers \/ ServerSends \/ ServerCloses

\* The groups of Next taken apart.
LEMMA NextIsSteps == Next => Alive /\ Steps
  BY DEF Next, Steps, Closing, Connecting, Ends, RunPost, HandleWrite, Receive, DecodeLoop

\* Every step keeps the type.
LEMMA TypeNext == ASSUME TypeOK, StreamInv, Steps PROVE TypeOK'
  BY TypeClosing, TypeConnecting, TypeSending, TypeReceiving, TypeServer DEF Steps, Closing

\* An attempt's TLS handshake: with a new engine, or with the old one's say.
LEMMA TlsStep ==
  ASSUME TypeOK, AttemptInv, NEW r \in Ends, HandleSslHandshake(r)
  PROVE  /\ state = "Connecting" /\ told = "waiting" /\ Silent /\ ~reading /\ io = "idle"
         /\ tries # 0 /\ tlsWith < tries /\ peer \in {"greet", "closed"}
         /\ sock = tries \/ (sock = 0 /\ tls \in {"bad", "half"})
         /\ op' = "none" /\ sock' = sock /\ tries' = tries /\ tls' = r
         /\ UNCHANGED <<io, inflight, streamVars, inputVars>>
         /\ \/ tls' = tls /\ tlsWith' = tlsWith /\ peer' = peer /\ (tls = "half" => CutOff)
            \/ tls' \in {"half", "bad"} /\ tls = "fresh" /\ tlsWith' = tlsWith /\ peer' = peer
            \/ tls' = "done" /\ tls = "fresh" /\ tlsWith' = tries /\ peer' = "secure"
<1>1. /\ state = "Connecting" /\ told = "waiting" /\ Silent /\ ~reading /\ io = "idle"
      /\ tlsWith < tries /\ peer \in {"greet", "closed"}
      /\ sock = tries \/ (sock = 0 /\ tls \in {"bad", "half"})
  BY DEF HandleSslHandshake, AttemptInv, HelloUnderWay
<1>2. tries # 0
  BY <1>1 DEF TypeOK
<1>3. /\ op' = "none" /\ sock' = sock /\ tries' = tries
      /\ UNCHANGED <<io, inflight, streamVars, inputVars>>
  BY DEF HandleSslHandshake
<1>4. TlsHandshake(r)
  BY DEF HandleSslHandshake
<1>5. tls' = r
  BY <1>4 DEF TlsHandshake, FirstHandshake, tlsVars
<1>6. \/ tls' = tls /\ tlsWith' = tlsWith /\ peer' = peer /\ (tls = "half" => CutOff)
      \/ tls' \in {"half", "bad"} /\ tls = "fresh" /\ tlsWith' = tlsWith /\ peer' = peer
      \/ tls' = "done" /\ tls = "fresh" /\ tlsWith' = tries /\ peer' = "secure"
  BY <1>4, <1>5 DEF TlsHandshake, FirstHandshake, tlsVars
<1>7. QED
  BY <1>1, <1>2, <1>3, <1>5, <1>6

\* ... which goes on with the handshake message or ends the attempt.
LEMMA TlsOutcome ==
  ASSUME TypeOK, AttemptInv, NEW r \in Ends, HandleSslHandshake(r)
  PROVE  \/ /\ r \in {"done", "shut"} /\ posts' = <<"hello">> /\ reading'
            /\ state' = "Connecting" /\ told' = "waiting" /\ queue' = <<>> /\ ~writing'
            /\ ~inflight' /\ shutdowns' = shutdowns
         \/ /\ r \in {"half", "bad"} /\ Silent' /\ ~reading'
            /\ state' = "Disconnected" /\ told' = "setup"
            /\ shutdowns' \in {shutdowns, Append(shutdowns, FALSE)}
<1>1. /\ state = "Connecting" /\ told = "waiting" /\ Silent /\ ~reading /\ inflight' = inflight
  BY TlsStep
<1>2. CASE r \in {"done", "shut"}
  <2>1. /\ posts' = Append(posts, "hello") /\ reading' = TRUE
        /\ UNCHANGED <<state, told, queue, writing, shutdowns>>
    BY <1>1, <1>2 DEF HandleSslHandshake
  <2>2. posts' = <<"hello">>
    BY <1>1, <2>1 DEF Silent
  <2>3. QED
    BY <1>1, <1>2, <2>1, <2>2, Zenon DEF Silent
<1>3. CASE r \in {"half", "bad"}
  <2>1. /\ state' = "Disconnected" /\ queue' = <<>> /\ writing' = FALSE
        /\ Shutdown("setup", FALSE) /\ posts' = posts /\ reading' = reading
    BY <1>1, <1>3 DEF HandleSslHandshake
  <2>2. told' = "setup" /\ shutdowns' \in {shutdowns, Append(shutdowns, FALSE)}
    BY <2>1 DEF Shutdown
  <2>3. QED
    BY <1>1, <1>3, <2>1, <2>2, Zenon DEF Silent
<1>4. QED
  BY <1>2, <1>3 DEF Ends

\* doClose() after its wait, with notice, on a connection that has shaken hands.
LEMMA EndStep ==
  ASSUME TypeOK, ShutdownInv, Linked, NEW s \in States, NEW t, EndConnection(s, t, TRUE)
  PROVE  /\ state' = "Disconnected" /\ told' = t
         /\ \/ s = "Disconnected" /\ UNCHANGED <<shutdowns, tls, queue, writing>>
            \/ /\ s # "Disconnected" /\ tls' = "shut" /\ queue' = <<>> /\ ~writing'
               /\ shutdowns' # <<>> /\ \A i \in DOMAIN shutdowns' : shutdowns'[i]
<1>1. CASE s = "Disconnected"
  BY <1>1 DEF EndConnection
<1>2. CASE s # "Disconnected"
  <2>1. sock # 0 /\ tls \in {"done", "shut"}
    BY DEF Linked
  <2>2. /\ state' = "Disconnected" /\ queue' = <<>> /\ writing' = FALSE
        /\ shutdowns' = Append(shutdowns, TRUE) /\ told' = t /\ tls' = "shut"
    BY <1>2, <2>1 DEF EndConnection, Shutdown, CloseNotify
  <2>3. shutdowns \in Seq(BOOLEAN) /\ \A i \in DOMAIN shutdowns : shutdowns[i] = TRUE
    <3>1. shutdowns \in Seq(BOOLEAN)
      BY DEF TypeOK
    <3>2. CASE tls = "done"
      <4>1. shutdowns = <<>>
        BY <3>2 DEF ShutdownInv
      <4>2. QED
        BY <3>1, <4>1, EmptySeq
    <3>3. CASE tls = "shut"
      <4>1. \A i \in DOMAIN shutdowns : shutdowns[i]
        BY <3>3 DEF ShutdownInv
      <4>2. \A i \in DOMAIN shutdowns : shutdowns[i] \in BOOLEAN
        BY <3>1, LenProperties, ElementOfSeq
      <4>3. QED
        BY <3>1, <4>1, <4>2
    <3>4. QED
      BY <2>1, <3>2, <3>3
  <2>4. \A i \in DOMAIN shutdowns' : shutdowns'[i] = TRUE
    BY <2>2, <2>3, AppendElements
  <2>5. shutdowns' # <<>>
    BY <2>2, <2>3, AppendTo
  <2>6. QED
    BY <1>2, <2>2, <2>4, <2>5
<1>3. QED
  BY <1>1, <1>2

\* doClose() with notice: the wait for the input thread, nothing, or a shutdown to come.
LEMMA CloseStep ==
  ASSUME TypeOK, ShutdownInv, CaptureInv, Linked, NEW s \in {state, "Error"}, DoClose(s, TRUE)
  PROVE  /\ told' = told /\ ~capture'
         /\ \/ /\ capture /\ state = "Connected" /\ io' = "join" /\ state' = s
               /\ UNCHANGED <<shutdowns, tls>>
            \/ /\ ~capture /\ io' = "idle" /\ state' = "Disconnected"
               /\ \/ state = "Disconnected" /\ UNCHANGED <<shutdowns, tls>>
                  \/ /\ tls' = "shut" /\ shutdowns' # <<>>
                     /\ \A i \in DOMAIN shutdowns' : shutdowns'[i]
<1>1. s \in States
  BY DEF TypeOK, States
<1>2. CASE capture
  BY <1>2, Zenon DEF DoClose, CaptureInv
<1>3. CASE ~capture
  <2>1. EndConnection(s, told, TRUE) /\ io' = "idle" /\ ~capture'
    BY <1>3, Zenon DEF DoClose
  <2>2. QED
    BY <1>1, <1>3, <2>1, EndStep
<1>4. QED
  BY <1>2, <1>3

\* A step that closes the connection: what was under way, and what is left.
LEMMA ClosingStep ==
  ASSUME TypeOK, StreamInv, AttemptInv, ShutdownInv, PanelInv, CaptureInv, ComingInv,
         Alive, Closing
  PROVE  /\ told \in {"waiting", "session"} /\ told' = told /\ op = "none" /\ op' = op
         /\ Linked /\ Linked' /\ tries' = tries /\ sock' = sock /\ tlsWith' = tlsWith
         /\ peer' = peer /\ ~capture' /\ (thread' = "none" \/ thread' = thread)
         /\ Erase(got) \/ UNCHANGED streamVars
         /\ \/ /\ io' = "join" /\ told = "session" /\ state = "Connected"
               /\ state' \in {state, "Error"} /\ UNCHANGED <<shutdowns, tls>>
            \/ /\ io' = "idle" /\ state' = "Disconnected" /\ thread' # "runs"
               /\ \/ state = "Disconnected" /\ io # "join" /\ UNCHANGED <<shutdowns, tls>>
                  \/ /\ tls' = "shut" /\ shutdowns' # <<>>
                     /\ \A i \in DOMAIN shutdowns' : shutdowns'[i]
<1>1. CASE InputThreadJoined
  <2>1. io = "join" /\ told = "session" /\ Linked /\ state # "Disconnected"
    BY <1>1 DEF InputThreadJoined, PanelInv, AttemptInv, ComingInv
  <2>2. state \in States /\ EndConnection(state, told, TRUE)
    BY <1>1 DEF InputThreadJoined, TypeOK, States
  <2>3. /\ state' = "Disconnected" /\ told' = told /\ tls' = "shut" /\ shutdowns' # <<>>
        /\ \A i \in DOMAIN shutdowns' : shutdowns'[i]
    BY <2>1, <2>2, EndStep
  <2>4. ~capture /\ op = "none"
    BY <2>1 DEF CaptureInv, AttemptInv
  <2>5. /\ io' = "idle" /\ thread' = "none" /\ capture' = capture
        /\ UNCHANGED <<tries, sock, tlsWith, op, peer, streamVars>>
    BY <1>1 DEF InputThreadJoined, serverVars
  <2>6. QED
    BY <2>1, <2>3, <2>4, <2>5 DEF Linked
<1>2. CASE ~InputThreadJoined
  <2>1. /\ \E s \in {state, "Error"} : DoClose(s, TRUE)
        /\ UNCHANGED <<tries, sock, tlsWith, op, peer, thread>>
        /\ Erase(got) \/ UNCHANGED streamVars
    BY <1>2 DEF Closing, RunClose, HandleWriteError, DecodeFails, HandleReadError, serverVars
  <2>2. io \in {"idle", "decode"} /\ (~Silent \/ reading \/ io # "idle")
    BY <1>2 DEF Closing, RunClose, HandleWriteError, DecodeFails, HandleReadError, Silent
  <2>3. Linked /\ op = "none" /\ told \in {"waiting", "session"}
    <3>1. Linked /\ op = "none"
      BY <2>2 DEF AttemptInv
    <3>2. told # "setup"
      BY <1>2, <2>2 DEF PanelInv, Closing, RunClose, HandleWriteError, DecodeFails,
                        HandleReadError, Silent, Ended, Ending
    <3>3. QED
      BY <3>1, <3>2 DEF TypeOK, Alive
  <2>4. PICK s \in {state, "Error"} : DoClose(s, TRUE)
    BY <2>1
  <2>5. /\ told' = told /\ ~capture'
        /\ \/ /\ capture /\ state = "Connected" /\ io' = "join" /\ state' = s
              /\ UNCHANGED <<shutdowns, tls>>
           \/ /\ ~capture /\ io' = "idle" /\ state' = "Disconnected"
              /\ \/ state = "Disconnected" /\ UNCHANGED <<shutdowns, tls>>
                 \/ /\ tls' = "shut" /\ shutdowns' # <<>>
                    /\ \A i \in DOMAIN shutdowns' : shutdowns'[i]
    BY <2>3, <2>4, CloseStep
  <2>6. ~capture => thread # "runs"
    BY <2>2 DEF CaptureInv
  <2>7. state = "Connected" => told = "session"
    BY DEF PanelInv
  <2>8. Linked'
    BY <2>1, <2>3, <2>5 DEF Linked
  <2>9. QED
    BY <2>1, <2>2, <2>3, <2>5, <2>6, <2>7, <2>8
<1>3. QED
  BY <1>1, <1>2

\* An answer that cannot be handled: the attempt is refused, the notice on its way.
LEMMA AnswerStep ==
  ASSUME TypeOK, StreamInv, AttemptInv, ShutdownInv, PanelInv, CaptureInv, Alive, AnswerFails
  PROVE  /\ told = "waiting" /\ told' = "setup" /\ op = "none" /\ Linked /\ Linked'
         /\ tlsWith = tries /\ IsVerdict(stream[1])
         /\ Silent' /\ ~reading' /\ state' = "Disconnected"
         /\ UNCHANGED <<tries, sock, tlsWith, op, io, peer, capture, gaveUp>>
         /\ Erase(2) /\ got >= 2 /\ io = "decode" /\ Live
         /\ ~capture /\ thread' \in {thread, "none"}
         /\ tls' = "shut" /\ shutdowns' # <<>> /\ \A i \in DOMAIN shutdowns' : shutdowns'[i]
<1>1. /\ state = "Connecting" /\ io = "decode" /\ got >= 2 /\ stream[1].msg = "answer"
      /\ Erase(2) /\ EndConnection("Error", "setup", TRUE) /\ "Error" \in States
      /\ thread' \in {thread, "none"}
      /\ UNCHANGED <<tries, sock, tlsWith, op, reading, inflight, posts, io, peer, capture,
                     gaveUp>>
  BY DEF AnswerFails, States, serverVars
<1>2. told = "waiting" /\ Linked /\ op = "none" /\ ~reading /\ ~capture
  BY <1>1 DEF AttemptInv, PanelInv, CaptureInv
<1>3. /\ state' = "Disconnected" /\ told' = "setup" /\ tls' = "shut" /\ queue' = <<>> /\ ~writing'
      /\ shutdowns' # <<>> /\ \A i \in DOMAIN shutdowns' : shutdowns'[i]
  BY <1>1, <1>2, EndStep
<1>4. IsVerdict(stream[1]) /\ 1 \in DOMAIN stream
  <2>1. stream \in Seq(UnitSet) /\ Len(stream) \in Nat /\ DOMAIN stream = 1..Len(stream)
    BY LenProperties DEF TypeOK, UnitSet
  <2>2. QED
    BY <1>1, <2>1 DEF IsVerdict, TypeOK
<1>5. Live
  BY <1>1 DEF Live, Ended
<1>6. tlsWith = tries /\ Silent
  BY <1>1, <1>4, <1>5 DEF StreamInv, NoVerdict, AttemptInv, HelloUnderWay
<1>7. Silent' /\ ~reading'
  BY <1>1, <1>2, <1>3, <1>6, Zenon DEF Silent
<1>8. Linked'
  BY <1>1, <1>2, <1>3 DEF Linked
<1>9. QED
  BY <1>1, <1>2, <1>3, <1>4, <1>5, <1>6, <1>7, <1>8

\* What a message does.
LEMMA MessageStep ==
  ASSUME TypeOK, StreamInv, AttemptInv, ShutdownInv, PanelInv, CaptureInv, Alive,
         NEW started \in BOOLEAN, HandleMessage(started)
  PROVE  /\ io = "decode" /\ ~Ended /\ Live /\ got >= 2 /\ Erase(2)
         /\ op = "none" /\ Linked /\ ~reading
         /\ UNCHANGED <<linkVars, reading, writeVars, shutdowns, posts, io, serverVars, gaveUp>>
         /\ \/ UNCHANGED <<state, told, capture, manager, thread>>
            \/ /\ state = "Connecting" /\ told = "waiting" /\ IsVerdict(stream[1])
               /\ tlsWith = tries /\ Silent /\ ~capture /\ thread # "runs" /\ tls # "shut"
               /\ \/ /\ state' = "Connected" /\ told' = "session"
                     /\ manager' = started /\ capture' = started
                     /\ thread' = IF started THEN "runs" ELSE thread
                  \/ state' = "Error" /\ told' = "setup" /\ UNCHANGED <<capture, manager, thread>>
<1>1. /\ io = "decode" /\ ~Ended /\ got >= 2 /\ Erase(2)
      /\ UNCHANGED <<linkVars, reading, writeVars, shutdowns, posts, io, serverVars, gaveUp>>
  BY DEF HandleMessage
<1>2. Live
  BY <1>1 DEF Live
<1>3. op = "none" /\ Linked /\ ~reading
  BY <1>1 DEF AttemptInv, PanelInv
<1>4. CASE state = "Connecting" /\ IsVerdict(stream[1])
  <2>1. 1 \in DOMAIN stream
    <3>1. stream \in Seq(UnitSet) /\ Len(stream) \in Nat /\ DOMAIN stream = 1..Len(stream)
      BY LenProperties DEF TypeOK, UnitSet
    <3>2. QED
      BY <1>1, <3>1 DEF TypeOK
  <2>2. tlsWith = tries /\ told = "waiting" /\ Silent
    BY <1>2, <1>4, <2>1 DEF StreamInv, NoVerdict, AttemptInv, HelloUnderWay
  <2>3. ~capture /\ thread # "runs"
    BY <1>1, <1>4 DEF CaptureInv
  <2>4. tls # "shut"
    BY <1>1, <2>2 DEF AttemptInv
  <2>5. \/ /\ state' = "Connected" /\ told' = "session" /\ StartInput(started)
        \/ Fail /\ UNCHANGED <<capture, manager, thread>>
    BY <1>4 DEF HandleMessage, IsVerdict
  <2>6. QED
    BY <1>1, <1>2, <1>3, <1>4, <2>2, <2>3, <2>4, <2>5 DEF StartInput, Fail
<1>5. CASE ~(state = "Connecting" /\ IsVerdict(stream[1]))
  <2>1. UNCHANGED <<state, told, capture, manager, thread>>
    BY <1>5 DEF HandleMessage, IsVerdict
  <2>2. QED
    BY <1>1, <1>2, <1>3, <2>1
<1>6. QED
  BY <1>4, <1>5

\* A shutdown that leaves the client alive is that of a failed TLS handshake.
LEMMA ShutdownStep ==
  ASSUME TypeOK, StreamInv, AttemptInv, ShutdownInv, PanelInv, Alive, Alive', ShutdownDone
  PROVE  /\ tls \in {"bad", "half"} /\ tlsWith = 0 /\ told' = told /\ sock' = 0
         /\ io = "idle" /\ Silent /\ ~reading /\ ~Linked /\ told # "session"
         /\ UNCHANGED <<state, tries, tlsVars, op, reading, writeVars, posts, streamVars, io,
                        serverVars, inputVars>>
         /\ \A i \in DOMAIN shutdowns' : ~shutdowns'[i]
<1>1. shutdowns \in Seq(BOOLEAN) /\ shutdowns # <<>> /\ io = "idle"
  BY DEF TypeOK, ShutdownDone
<1>2. /\ 1 \in DOMAIN shutdowns /\ Head(shutdowns) = shutdowns[1]
      /\ \A i \in DOMAIN Tail(shutdowns) :
           i + 1 \in DOMAIN shutdowns /\ Tail(shutdowns)[i] = shutdowns[i + 1]
  BY <1>1, TailElements
<1>3. ~Head(shutdowns) /\ told' = told
  BY DEF ShutdownDone, Alive, DisconnectHandler
<1>4. tls \in {"bad", "half"}
  BY <1>1, <1>2, <1>3 DEF ShutdownInv, TypeOK
<1>5. tlsWith = 0 /\ ~Linked
  BY <1>4 DEF StreamInv, Linked
<1>6. Silent /\ ~reading /\ told # "session"
  BY <1>1, <1>5 DEF AttemptInv
<1>7. \A i \in DOMAIN shutdowns' : ~shutdowns'[i]
  BY <1>2, <1>4 DEF ShutdownInv, ShutdownDone
<1>8. QED
  BY <1>1, <1>3, <1>4, <1>5, <1>6, <1>7 DEF ShutdownDone

\* What the cut of two units does to the stream of a client that decodes them.
LEMMA CutStream ==
  ASSUME TypeOK, StreamInv, NEW n \in {2, got}, n <= got, Erase(n)
  PROVE  /\ AllOf(stream', tlsWith) /\ OneVerdict(stream') /\ GotUnits(stream', got')
         /\ Whole(stream) => Whole(stream')
         /\ NoVerdict(stream) => NoVerdict(stream')
         /\ Framed(stream) /\ n = 2 =>
              /\ stream[1].msg \in Messages /\ stream[2].msg = "rest"
              /\ Framed(stream')
              /\ IsVerdict(stream[1]) => NoVerdict(stream')
<1>1. n \in 0..got /\ stream \in Seq(UnitSet) /\ Len(stream) \in Nat /\ got \in 0..Len(stream)
  BY LenProperties DEF TypeOK, UnitSet
<1>2. /\ stream' = SubSeq(stream, n + 1, Len(stream)) /\ got' = got - n
      /\ n \in 0..Len(stream) /\ got \in n..Len(stream)
  BY <1>1, EraseTyped
<1>3. PICK t : t = SubSeq(stream, n + 1, Len(stream))
  OBVIOUS
<1>4. /\ \A a : AllOf(stream, a) => AllOf(t, a)
      /\ NoVerdict(stream) => NoVerdict(t)
      /\ OneVerdict(stream) => OneVerdict(t)
      /\ Whole(stream) => Whole(t)
      /\ GotUnits(stream, got) => GotUnits(t, got - n)
  BY <1>1, <1>2, <1>3, CutKeeps
<1>5. AllOf(stream, tlsWith) /\ OneVerdict(stream) /\ GotUnits(stream, got)
  BY DEF StreamInv
<1>6. ASSUME Framed(stream), n = 2
      PROVE  /\ stream[1].msg \in Messages /\ stream[2].msg = "rest"
             /\ Framed(t)
             /\ IsVerdict(stream[1]) => NoVerdict(t)
  <2>1. Len(stream) >= 2 /\ 1 \in DOMAIN stream /\ 1 <= got
    BY <1>1, <1>2, <1>6, LenProperties
  <2>2. stream[1].msg # "bye"
    BY <1>5, <2>1 DEF GotUnits
  <2>3. t = SubSeq(stream, 3, Len(stream))
    BY <1>3, <1>6
  <2>4. QED
    BY <1>1, <1>5, <1>6, <2>1, <2>2, <2>3, CutFramed
<1>7. stream' = t
  BY <1>2, <1>3
<1>8. QED
  BY <1>2, <1>4, <1>5, <1>6, <1>7

\* The invariant of the stream where nothing of it changes but what may be decoded.
LEMMA SameStream ==
  ASSUME StreamInv, stream' = stream, got' = got, tls' = tls, tlsWith' = tlsWith, sock' = sock,
         peer' = peer \/ peer' \in {"none", "greet", "closed"}
                \/ (peer = "secure" /\ peer' = "asked"),
         Live' => Live, tries' = tries,
         state' = state \/ (NoVerdict(stream) /\ peer \notin {"secure", "asked"})
  PROVE  StreamInv'
<1>1. UNCHANGED <<stream, got, tls, tlsWith, sock>>
  OBVIOUS
<1>2. /\ AllOf(stream', tlsWith') /\ OneVerdict(stream') /\ GotUnits(stream', got')
      /\ tls' \in {"done", "shut"} <=> tlsWith' # 0
  BY <1>1 DEF StreamInv
<1>3. peer' \in {"secure", "asked", "member", "refused"} =>
        tlsWith' = sock' /\ sock' # 0 /\ Whole(stream')
  BY <1>1 DEF StreamInv
<1>4. peer' \in {"secure", "asked"} => NoVerdict(stream') /\ peer \in {"secure", "asked"}
  BY <1>1 DEF StreamInv
<1>5. Live' => /\ Framed(stream')
               /\ \/ state' = "Connecting" /\ tlsWith' = tries'
                  \/ NoVerdict(stream') /\ peer' \notin {"secure", "asked"}
  BY <1>1, <1>4 DEF StreamInv
<1>6. QED
  BY <1>2, <1>3, <1>4, <1>5 DEF StreamInv

LEMMA QuietStream ==
  ASSUME StreamInv, UNCHANGED <<streamVars, linkVars, state, told>>, io # "join",
         peer' = peer \/ peer' = "closed" \/ (peer = "secure" /\ peer' = "asked")
  PROVE  StreamInv'
<1>1. /\ stream' = stream /\ got' = got /\ tls' = tls /\ tlsWith' = tlsWith /\ sock' = sock
      /\ tries' = tries /\ state' = state
  BY DEF linkVars, tlsVars, streamVars
<1>2. Live' => Live
  BY DEF Live, Ended
<1>3. QED
  BY <1>1, <1>2, SameStream

\* What the object may still decode is framed, and the one verdict in it that of the
\* attempt it shook hands in.
LEMMA StreamNext ==
  ASSUME TypeOK, StreamInv, AttemptInv, ShutdownInv, PanelInv, CaptureInv, ComingInv,
         Alive, Alive', Steps
  PROVE  StreamInv'
<1> USE DEF linkVars, tlsVars, serverVars, writeVars, inputVars
<1>1. CASE Connect
  <2>1. told = "setup" /\ state' = "Connecting" /\ tries' = tries + 1
        /\ UNCHANGED <<streamVars, tls, tlsWith, sock, peer>>
    BY <1>1 DEF Connect
  <2>2. Live /\ Framed(stream) /\ NoVerdict(stream) /\ peer \notin {"secure", "asked"}
    BY <1>1, <2>1 DEF Live, StreamInv, PanelInv, Ending
  <2>3. UNCHANGED <<stream, got, tls, tlsWith, sock, peer>>
    BY <2>1 DEF streamVars
  <2>4. QED
    BY <2>2, <2>3 DEF StreamInv
<1>2. ASSUME NEW ok \in BOOLEAN, HandleResolve(ok) PROVE StreamInv'
  <2>1. /\ state = "Connecting" /\ io = "idle" /\ tlsWith # tries /\ tries' = tries
        /\ UNCHANGED <<tls, tlsWith, got, io, tries>>
    BY <1>2 DEF HandleResolve, AttemptInv, TypeOK
  <2>2. Live /\ Framed(stream) /\ NoVerdict(stream) /\ peer \notin {"secure", "asked"}
    BY <2>1 DEF StreamInv, Live, Ended
  <2>3. CASE ok
    <3>1. PICK t : t = SubSeq(stream, 1, held)
      OBVIOUS
    <3>2. stream \in Seq(UnitSet) /\ held \in 0..Len(stream)
      BY DEF TypeOK, UnitSet
    <3>3. /\ AllOf(t, tlsWith) /\ OneVerdict(t) /\ GotUnits(t, got)
          /\ Framed(t) /\ NoVerdict(t)
      <4>1. AllOf(stream, tlsWith) /\ OneVerdict(stream) /\ GotUnits(stream, got)
        BY DEF StreamInv
      <4>2. QED
        BY <2>2, <3>1, <3>2, <4>1, KeptKeeps
    <3>4. stream' = t /\ peer' = "none" /\ state' = state
      BY <1>2, <2>1, <2>3, <3>1 DEF HandleResolve
    <3>5. QED
      BY <2>1, <3>3, <3>4 DEF StreamInv
  <2>4. CASE ~ok
    <3>1. UNCHANGED <<sock, peer, stream>>
      BY <1>2, <2>4 DEF HandleResolve
    <3>2. QED
      BY <2>1, <2>2, <3>1 DEF StreamInv
  <2>5. QED
    BY <2>3, <2>4
<1>3. ASSUME NEW ok \in BOOLEAN, HandleTcpConnect(ok) PROVE StreamInv'
  <2>1. /\ state = "Connecting" /\ io = "idle" /\ tlsWith # tries
        /\ UNCHANGED <<tls, tlsWith, stream, got, io, tries, sock>> /\ peer' \in {"greet", "none"}
    BY <1>3 DEF HandleTcpConnect, AttemptInv, TypeOK, streamVars
  <2>2. Live /\ NoVerdict(stream) /\ peer \notin {"secure", "asked"}
    BY <2>1 DEF StreamInv, Live, Ended
  <2>3. QED
    BY <2>1, <2>2, SameStream
<1>4. ASSUME NEW r \in Ends, HandleSslHandshake(r) PROVE StreamInv'
  <2>1. /\ state = "Connecting" /\ io = "idle" /\ tlsWith < tries /\ tries # 0
        /\ sock = tries \/ (sock = 0 /\ tls \in {"bad", "half"})
        /\ peer \in {"greet", "closed"} /\ sock' = sock /\ tries' = tries
        /\ UNCHANGED streamVars
        /\ \/ tls' = tls /\ tlsWith' = tlsWith /\ peer' = peer
           \/ tls' \in {"half", "bad"} /\ tls = "fresh" /\ tlsWith' = tlsWith /\ peer' = peer
           \/ tls' = "done" /\ tls = "fresh" /\ tlsWith' = tries /\ peer' = "secure"
    BY <1>4, TlsStep
  <2>2. tlsWith # tries
    BY <2>1 DEF TypeOK
  <2>3. Live /\ Framed(stream) /\ NoVerdict(stream)
    BY <2>1, <2>2 DEF StreamInv, Live, Ended
  <2>4. UNCHANGED <<stream, got>>
    BY <2>1 DEF streamVars
  <2>5. CASE peer' = peer /\ tlsWith' = tlsWith
    <3>1. tls' \in {"done", "shut"} <=> tlsWith' # 0
      BY <2>1, <2>5 DEF StreamInv
    <3>2. QED
      BY <2>1, <2>3, <2>4, <2>5, <3>1 DEF StreamInv
  <2>6. CASE tls' = "done" /\ tls = "fresh" /\ tlsWith' = tries /\ peer' = "secure"
    <3>1. tlsWith = 0 /\ AllOf(stream, 0) /\ stream \in Seq(UnitSet)
      BY <2>6 DEF StreamInv, TypeOK, UnitSet
    <3>2. stream = <<>>
      BY <3>1, NoneOfNone
    <3>3. /\ AllOf(<<>>, tries) /\ OneVerdict(<<>>) /\ GotUnits(<<>>, got) /\ Whole(<<>>)
      BY EmptyOf
    <3>4. sock = tries
      BY <2>1, <2>6
    <3>5. state' = "Connecting"
      BY <1>4, <2>6, TlsOutcome, TlsStep
    <3>6. QED
      BY <2>1, <2>3, <2>4, <2>6, <3>2, <3>3, <3>4, <3>5 DEF StreamInv
  <2>7. QED
    BY <2>1, <2>5, <2>6
<1>5. CASE RunSend
  BY <1>5, QuietStream DEF RunSend
<1>6. CASE HandleWriteOk
  BY <1>6, QuietStream DEF HandleWriteOk, Delivered
<1>7. ASSUME NEW m \in 0..Len(stream) - held, NEW n \in 1..Len(stream) - got, HandleRead(n, m)
      PROVE  StreamInv'
  <2>1. /\ UNCHANGED <<stream, tls, tlsWith, sock, peer, state, tries, told>> /\ got' = got + n
        /\ \A i \in got+1..got+n : stream[i].msg # "bye"
        /\ io = "idle"
    BY <1>7 DEF HandleRead
  <2>2. GotUnits(stream', got')
    <3>1. /\ Len(stream) \in Nat /\ DOMAIN stream = 1..Len(stream)
          /\ held \in 0..Len(stream) /\ got \in 0..held
      BY LenProperties DEF TypeOK
    <3>2. \A i \in DOMAIN stream : i <= got + n => i <= got \/ i \in got+1..got+n
      BY <3>1
    <3>3. GotUnits(stream, got)
      BY DEF StreamInv
    <3>4. QED
      BY <2>1, <3>2, <3>3 DEF GotUnits
  <2>3. Live' => Live
    BY <2>1 DEF Live, Ended
  <2>4. QED
    BY <2>1, <2>2, <2>3 DEF StreamInv
<1>8. ASSUME NEW s \in {state, "Error"}, HandleReadError(s), Ended PROVE StreamInv'
  BY <1>8, QuietStream DEF HandleReadError
<1>9. ASSUME NEW started \in BOOLEAN, HandleMessage(started) PROVE StreamInv'
  <2>1. /\ Live /\ got >= 2 /\ Erase(2) /\ UNCHANGED <<tries, sock, tls, tlsWith, peer>>
        /\ \/ UNCHANGED state
           \/ state = "Connecting" /\ IsVerdict(stream[1])
    BY <1>9, MessageStep
  <2>2. Framed(stream) /\ (NoVerdict(stream) => peer \notin {"secure", "asked"}
                                                \/ (state = "Connecting" /\ tlsWith = tries))
    BY <2>1 DEF StreamInv
  <2>3. 2 \in {2, got} /\ 2 <= got
    BY <2>1 DEF TypeOK
  <2>4. /\ AllOf(stream', tlsWith) /\ OneVerdict(stream') /\ GotUnits(stream', got')
        /\ Whole(stream) => Whole(stream')
        /\ NoVerdict(stream) => NoVerdict(stream')
        /\ Framed(stream') /\ (IsVerdict(stream[1]) => NoVerdict(stream'))
    BY <2>1, <2>2, <2>3, CutStream
  <2>5. 1 \in DOMAIN stream
    <3>1. stream \in Seq(UnitSet) /\ Len(stream) \in Nat /\ DOMAIN stream = 1..Len(stream)
      BY LenProperties DEF TypeOK, UnitSet
    <3>2. QED
      BY <2>1, <3>1 DEF TypeOK
  <2>6. IsVerdict(stream[1]) => peer \notin {"secure", "asked"}
    BY <2>5 DEF StreamInv, NoVerdict
  <2>7. QED
    BY <2>1, <2>2, <2>4, <2>6 DEF StreamInv
<1>10. CASE AnswerFails
  <2>1. /\ Live /\ got >= 2 /\ Erase(2) /\ IsVerdict(stream[1])
        /\ UNCHANGED <<tries, sock, tlsWith, peer>> /\ Linked /\ Linked'
    BY <1>10, AnswerStep
  <2>2. Framed(stream) /\ 2 \in {2, got} /\ 2 <= got
    BY <2>1 DEF StreamInv, TypeOK
  <2>3. /\ AllOf(stream', tlsWith) /\ OneVerdict(stream') /\ GotUnits(stream', got')
        /\ Whole(stream) => Whole(stream')
        /\ NoVerdict(stream) => NoVerdict(stream')
        /\ Framed(stream') /\ NoVerdict(stream')
    BY <2>1, <2>2, CutStream
  <2>4. 1 \in DOMAIN stream
    <3>1. stream \in Seq(UnitSet) /\ Len(stream) \in Nat /\ DOMAIN stream = 1..Len(stream)
      BY LenProperties DEF TypeOK, UnitSet
    <3>2. QED
      BY <2>1, <3>1 DEF TypeOK
  <2>5. peer \notin {"secure", "asked"}
    BY <2>1, <2>4 DEF StreamInv, NoVerdict
  <2>6. QED
    BY <2>1, <2>3, <2>5 DEF StreamInv, Linked
<1>11. CASE DecodeEnds
  BY <1>11, QuietStream DEF DecodeEnds
<1>12. CASE Closing
  <2>1. /\ Linked /\ Linked' /\ tlsWith' = tlsWith /\ sock' = sock /\ peer' = peer
        /\ Erase(got) \/ UNCHANGED streamVars
    BY <1>12, ClosingStep
  <2>2. ~Live'
    <3>1. told' = told /\ told # "setup" /\ (io' = "join" \/ state' = "Disconnected")
      BY <1>12, ClosingStep
    <3>2. QED
      BY <3>1 DEF Live, Ended
  <2>3. /\ AllOf(stream', tlsWith) /\ OneVerdict(stream') /\ GotUnits(stream', got')
        /\ Whole(stream) => Whole(stream')
        /\ NoVerdict(stream) => NoVerdict(stream')
    <3>1. CASE Erase(got)
      <4>1. got \in {2, got} /\ got <= got
        BY DEF TypeOK
      <4>2. QED
        BY <3>1, <4>1, CutStream
    <3>2. CASE UNCHANGED streamVars
      <4>1. UNCHANGED <<stream, got>>
        BY <3>2 DEF streamVars
      <4>2. QED
        BY <4>1 DEF StreamInv
    <3>3. QED
      BY <2>1, <3>1, <3>2
  <2>4. QED
    BY <2>1, <2>2, <2>3 DEF StreamInv, Linked
<1>13. CASE ShutdownDone
  <2>1. /\ tls \in {"bad", "half"} /\ tlsWith = 0 /\ told' = told /\ sock' = 0
        /\ UNCHANGED <<state, tries, tls, tlsWith, stream, got, io, peer>>
    BY <1>13, ShutdownStep DEF streamVars
  <2>2. peer \notin {"secure", "asked", "member", "refused"}
    BY <2>1 DEF StreamInv
  <2>3. Live' => Live
    BY <2>1 DEF Live, Ended
  <2>4. QED
    BY <2>1, <2>2, <2>3 DEF StreamInv
<1>14. CASE SendRequest
  <2>1. UNCHANGED <<stream, got, tls, tlsWith, sock, tries, state, told, io, peer>>
    BY <1>14 DEF SendRequest, streamVars
  <2>2. Live' => Live
    BY <2>1 DEF Live, Ended
  <2>3. QED
    BY <2>1, <2>2, SameStream
<1>15. CASE Disconnect
  <2>1. UNCHANGED <<stream, got, tls, tlsWith, sock, tries, state, told, io, peer>>
    BY <1>15 DEF Disconnect, streamVars
  <2>2. Live' => Live
    BY <2>1 DEF Live, Ended
  <2>3. QED
    BY <2>1, <2>2, SameStream
<1>16. CASE ManagerStops
  <2>1. UNCHANGED <<stream, got, tls, tlsWith, sock, tries, state, told, io, peer>>
    BY <1>16 DEF ManagerStops, streamVars
  <2>2. Live' => Live
    BY <2>1 DEF Live, Ended
  <2>3. QED
    BY <2>1, <2>2, SameStream
<1>17. CASE InputLoopEnds
  <2>1. UNCHANGED <<stream, got, tls, tlsWith, sock, tries, state, told, io, peer>>
    BY <1>17 DEF InputLoopEnds, streamVars
  <2>2. Live' => Live
    BY <2>1 DEF Live, Ended
  <2>3. QED
    BY <2>1, <2>2, SameStream
<1>18. ASSUME peer \in {"secure", "asked", "member", "refused"}
       PROVE  /\ sock \in 1..MaxTries /\ stream \in Seq(UnitSet) /\ got \in 0..Len(stream)
              /\ Whole(stream) /\ tlsWith = sock
  <2>1. stream \in Seq(UnitSet) /\ Len(stream) \in Nat
    BY LenProperties DEF TypeOK, UnitSet
  <2>2. QED
    BY <1>18, <2>1, BoundsAssumption DEF StreamInv, TypeOK
<1>19. ASSUME ServerUnchanged
       PROVE  /\ UNCHANGED <<tls, tlsWith, sock, got, state, tries>> /\ (Live' => Live)
  BY <1>19 DEF ServerUnchanged, Live, Ended
<1>20. CASE ServerAnswers
  <2>1. PICK m \in Messages : stream' = stream \o Units(m)
    BY <1>20 DEF ServerAnswers, Messages
  <2>2. peer = "asked" /\ peer' \in {"member", "refused"} /\ ServerUnchanged
    BY <1>20 DEF ServerAnswers
  <2>3. NoVerdict(stream)
    BY <2>2 DEF StreamInv
  <2>4. /\ AllOf(stream', sock) /\ OneVerdict(stream') /\ GotUnits(stream', got)
        /\ Framed(stream) => Framed(stream')
        /\ Whole(stream')
    <3>1. AllOf(stream, sock) /\ OneVerdict(stream) /\ GotUnits(stream, got)
      BY <1>18, <2>2 DEF StreamInv
    <3>2. QED
      BY <1>18, <2>1, <2>2, <2>3, <3>1, AddedUnits
  <2>5. Live => state = "Connecting" /\ tlsWith = tries
    BY <2>2 DEF StreamInv
  <2>6. QED
    BY <1>18, <1>19, <2>2, <2>4, <2>5 DEF StreamInv
<1>21. CASE ServerSends
  <2>1. peer \in {"asked", "member", "refused"} /\ peer' = peer /\ ServerUnchanged
        /\ stream' = stream \o Units("news") /\ "news" \in Messages
    BY <1>21 DEF ServerSends, Messages
  <2>2. /\ AllOf(stream', sock) /\ OneVerdict(stream') /\ GotUnits(stream', got)
        /\ Framed(stream) => Framed(stream')
        /\ NoVerdict(stream) => NoVerdict(stream')
        /\ Whole(stream')
    <3>1. AllOf(stream, sock) /\ OneVerdict(stream) /\ GotUnits(stream, got)
      BY <1>18, <2>1 DEF StreamInv
    <3>2. QED
      BY <1>18, <2>1, <3>1, AddedUnits
  <2>3. QED
    BY <1>18, <1>19, <2>1, <2>2 DEF StreamInv
<1>22. CASE ServerCloses
  <2>1. peer' = "closed" /\ ServerUnchanged
    BY <1>22 DEF ServerCloses
  <2>2. CASE UNCHANGED stream
    BY <1>19, <2>1, <2>2 DEF StreamInv
  <2>3. CASE peer # "greet" /\ stream' = Append(stream, Unit("bye"))
    <3>1. peer \in {"secure", "asked", "member", "refused"}
      BY <1>22, <2>3 DEF ServerCloses
    <3>2. AllOf(stream, sock) /\ OneVerdict(stream) /\ GotUnits(stream, got)
      BY <1>18, <3>1 DEF StreamInv
    <3>3. /\ AllOf(stream', sock) /\ OneVerdict(stream') /\ GotUnits(stream', got)
          /\ Framed(stream) => Framed(stream')
          /\ NoVerdict(stream) => NoVerdict(stream')
      BY <1>18, <2>3, <3>1, <3>2, AddedBye
    <3>4. QED
      BY <1>18, <1>19, <2>1, <3>1, <3>3 DEF StreamInv
  <2>4. QED
    BY <1>22, <2>2, <2>3 DEF ServerCloses
<1>23. QED
  BY <1>1, <1>2, <1>3, <1>4, <1>5, <1>6, <1>7, <1>8, <1>9, <1>10, <1>11, <1>12, <1>13,
     <1>14, <1>15, <1>16, <1>17, <1>20, <1>21, <1>22
     DEF Steps

\* An attempt has nothing under way but itself.
LEMMA AttemptNext ==
  ASSUME TypeOK, StreamInv, AttemptInv, ShutdownInv, PanelInv, CaptureInv, ComingInv,
         Alive, Alive', Steps
  PROVE  AttemptInv'
<1> USE DEF linkVars, tlsVars, serverVars, writeVars, inputVars
<1>1. CASE Connect
  <2>1. /\ told = "setup" /\ state' = "Connecting" /\ op' = "resolve" /\ told' = "waiting"
        /\ tries' = tries + 1 /\ io = "idle"
        /\ UNCHANGED <<sock, tls, tlsWith, reading, queue, writing, inflight, posts, io, peer>>
    BY <1>1 DEF Connect
  <2>2. Silent /\ ~reading
    BY <2>1 DEF PanelInv
  <2>3. Silent' /\ ~reading'
    BY <2>1, <2>2 DEF Silent
  <2>4. tlsWith < tries + 1 /\ tlsWith # tries + 1
    BY DEF TypeOK
  <2>5. QED
    BY <2>1, <2>3, <2>4 DEF AttemptInv
<1>2. ASSUME NEW ok \in BOOLEAN, HandleResolve(ok) PROVE AttemptInv'
  <2>1. /\ state = "Connecting" /\ told = "waiting" /\ tlsWith < tries /\ io = "idle"
        /\ ~reading /\ Silent
    BY <1>2 DEF HandleResolve, AttemptInv
  <2>2. /\ UNCHANGED <<tries, tls, tlsWith, io, reading, queue, writing, inflight, posts>>
        /\ \/ op' = "tcp" /\ sock' = tries /\ peer' = "none" /\ UNCHANGED <<state, told>>
           \/ op' = "none" /\ state' = "Error" /\ told' = "setup" /\ UNCHANGED <<sock, peer>>
    BY <1>2, <2>1 DEF HandleResolve, Fail
  <2>3. Silent' /\ ~reading'
    BY <2>1, <2>2 DEF Silent
  <2>4. tlsWith # tries
    BY <2>1 DEF TypeOK
  <2>5. QED
    BY <2>1, <2>2, <2>3, <2>4 DEF AttemptInv
<1>3. ASSUME NEW ok \in BOOLEAN, HandleTcpConnect(ok) PROVE AttemptInv'
  <2>1. /\ state = "Connecting" /\ told = "waiting" /\ tlsWith < tries /\ io = "idle"
        /\ ~reading /\ Silent /\ (sock = tries \/ (sock = 0 /\ tls \in {"bad", "half"}))
    BY <1>3 DEF HandleTcpConnect, AttemptInv
  <2>2. /\ UNCHANGED <<tries, sock, tls, tlsWith, io, reading, queue, writing, inflight, posts>>
        /\ \/ op' = "tls" /\ peer' = "greet" /\ UNCHANGED <<state, told>>
           \/ op' = "none" /\ state' = "Error" /\ told' = "setup"
    BY <1>3, <2>1 DEF HandleTcpConnect, Fail
  <2>3. Silent' /\ ~reading'
    BY <2>1, <2>2 DEF Silent
  <2>4. tlsWith # tries
    BY <2>1 DEF TypeOK
  <2>5. QED
    BY <2>1, <2>2, <2>3, <2>4 DEF AttemptInv
<1>4. ASSUME NEW r \in Ends, HandleSslHandshake(r) PROVE AttemptInv'
  <2>1. /\ state = "Connecting" /\ io = "idle" /\ tlsWith < tries /\ tries # 0
        /\ sock = tries \/ (sock = 0 /\ tls \in {"bad", "half"})
        /\ peer \in {"greet", "closed"} /\ sock' = sock /\ tries' = tries /\ op' = "none"
        /\ io' = io /\ tls' = r /\ UNCHANGED streamVars
        /\ \/ tls' = tls /\ tlsWith' = tlsWith /\ peer' = peer
           \/ tls' \in {"half", "bad"} /\ tls = "fresh" /\ tlsWith' = tlsWith /\ peer' = peer
           \/ tls' = "done" /\ tls = "fresh" /\ tlsWith' = tries /\ peer' = "secure"
    BY <1>4, TlsStep
  <2>2. tlsWith # tries
    BY <2>1 DEF TypeOK
  <2>3. CASE /\ r \in {"done", "shut"} /\ posts' = <<"hello">> /\ reading'
             /\ state' = "Connecting" /\ told' = "waiting" /\ queue' = <<>> /\ ~writing'
             /\ ~inflight'
    <3>1. sock = tries
      BY <2>1, <2>3
    <3>2. Linked'
      BY <2>1, <2>3, <3>1 DEF Linked
    <3>3. NoVerdict(stream)
      BY <2>1, <2>2 DEF StreamInv, Live, Ended
    <3>4. HelloUnderWay'
      BY <2>1, <2>3, <3>3 DEF HelloUnderWay, streamVars
    <3>5. tls' = "shut" => tlsWith' # tries'
      BY <2>1, <2>2
    <3>6. QED
      BY <2>1, <2>3, <3>2, <3>4, <3>5 DEF AttemptInv
  <2>4. CASE Silent' /\ ~reading' /\ state' = "Disconnected" /\ told' = "setup"
    BY <2>1, <2>4 DEF AttemptInv, Ended
  <2>5. QED
    BY <1>4, <2>3, <2>4, TlsOutcome
<1>5. CASE RunSend
  <2>1. /\ state' = state /\ told' = told /\ io = "idle" /\ posts # <<>>
        /\ UNCHANGED <<tries, sock, tls, tlsWith, op, reading, io, peer, stream>>
    BY <1>5 DEF RunSend, streamVars
  <2>2. ~Silent
    BY <2>1 DEF Silent
  <2>3. op = "none" /\ Linked
    BY <2>2 DEF AttemptInv
  <2>4. Linked'
    BY <2>1, <2>3 DEF Linked
  <2>5. CASE state = "Connecting"
    <3>1. HelloUnderWay /\ posts = <<"hello">> /\ queue = <<>> /\ ~writing
      BY <2>1, <2>2, <2>5 DEF AttemptInv, HelloUnderWay
    <3>2. Head(posts) = "hello" /\ Tail(posts) = <<>> /\ Append(queue, "hello") = <<"hello">>
      BY <3>1
    <3>3. ~Ended
      BY <2>5 DEF Ended
    <3>4. posts' = <<>> /\ queue' = <<"hello">> /\ writing' = TRUE /\ inflight' = TRUE
      BY <1>5, <3>1, <3>2, <3>3 DEF RunSend
    <3>5. HelloUnderWay'
      BY <2>1, <3>1, <3>4 DEF HelloUnderWay
    <3>6. QED
      BY <2>1, <2>3, <2>4, <2>5, <3>5 DEF AttemptInv, Ended
  <2>6. CASE state # "Connecting"
    BY <2>1, <2>3, <2>4, <2>6 DEF AttemptInv, Ended
  <2>7. QED
    BY <2>5, <2>6
<1>6. CASE HandleWriteOk
  <2>1. /\ state' = state /\ told' = told /\ io = "idle" /\ inflight /\ posts' = posts
        /\ UNCHANGED <<tries, sock, tls, tlsWith, op, reading, io>>
    BY <1>6 DEF HandleWriteOk
  <2>2. ~Silent
    BY <2>1 DEF Silent
  <2>3. op = "none" /\ Linked
    BY <2>2 DEF AttemptInv
  <2>4. Linked'
    BY <2>1, <2>3 DEF Linked
  <2>5. CASE state = "Connecting"
    <3>1. queue = <<"hello">> /\ posts = <<>>
      BY <2>1, <2>2, <2>5 DEF AttemptInv, HelloUnderWay
    <3>2. queue # <<>> /\ Tail(queue) = <<>>
      BY <3>1
    <3>3. queue' = <<>> /\ ~writing' /\ ~inflight'
      BY <1>6, <3>2, Zenon DEF HandleWriteOk
    <3>4. Silent'
      BY <2>1, <3>1, <3>3 DEF Silent
    <3>5. QED
      BY <2>1, <2>3, <2>4, <2>5, <3>4 DEF AttemptInv, Ended
  <2>6. CASE state # "Connecting"
    BY <2>1, <2>3, <2>4, <2>6 DEF AttemptInv, Ended
  <2>7. QED
    BY <2>5, <2>6
<1>7. ASSUME NEW m \in 0..Len(stream) - held, NEW n \in 1..Len(stream) - got, HandleRead(n, m)
      PROVE  AttemptInv'
  <2>1. /\ reading /\ ~reading'
        /\ UNCHANGED <<state, told, posts, queue, writing, inflight, tries, sock, tls, tlsWith,
                       op, stream, peer>>
    BY <1>7 DEF HandleRead
  <2>2. op = "none" /\ Linked
    BY <2>1 DEF AttemptInv
  <2>3. Linked' /\ (Silent' <=> Silent) /\ (HelloUnderWay' <=> HelloUnderWay) /\ (Ended' <=> Ended)
    BY <2>1, <2>2 DEF Linked, Silent, HelloUnderWay, Ended
  <2>4. QED
    BY <2>1, <2>2, <2>3 DEF AttemptInv
<1>8. ASSUME NEW s \in {state, "Error"}, HandleReadError(s), Ended PROVE AttemptInv'
  <2>1. /\ reading /\ ~reading' /\ state # "Connecting"
        /\ UNCHANGED <<state, told, posts, queue, writing, inflight, tries, sock, tls, tlsWith,
                       op, peer>>
    BY <1>8 DEF HandleReadError, Ended
  <2>2. op = "none" /\ Linked
    BY <2>1 DEF AttemptInv
  <2>3. Linked' /\ (Ended' <=> Ended)
    BY <2>1, <2>2 DEF Linked, Ended
  <2>4. QED
    BY <2>1, <2>2, <2>3 DEF AttemptInv
<1>9. ASSUME NEW started \in BOOLEAN, HandleMessage(started) PROVE AttemptInv'
  <2>1. /\ op = "none" /\ Linked /\ ~Ended /\ io = "decode" /\ got >= 2 /\ Erase(2)
        /\ UNCHANGED <<tries, sock, tls, tlsWith, op, reading, queue, writing, inflight, posts,
                       io, peer>>
        /\ \/ UNCHANGED <<state, told>>
           \/ /\ state = "Connecting" /\ tlsWith = tries /\ tls # "shut" /\ Silent
              /\ \/ state' = "Connected" /\ told' = "session"
                 \/ state' = "Error" /\ told' = "setup"
    BY <1>9, MessageStep
  <2>2. Linked' /\ (Silent' <=> Silent)
    BY <2>1 DEF Linked, Silent
  <2>3. NoVerdict(stream) => NoVerdict(stream')
    <3>1. 2 \in {2, got} /\ 2 <= got
      BY <2>1 DEF TypeOK
    <3>2. QED
      BY <2>1, <3>1, CutStream
  <2>4. HelloUnderWay => HelloUnderWay'
    BY <2>1, <2>3 DEF HelloUnderWay
  <2>5. QED
    BY <2>1, <2>2, <2>4 DEF AttemptInv, Ended
<1>10. CASE AnswerFails
  <2>1. /\ told' = "setup" /\ op' = "none" /\ Linked' /\ Silent' /\ ~reading'
        /\ state' = "Disconnected"
    BY <1>10, AnswerStep
  <2>2. QED
    BY <2>1 DEF AttemptInv, Ended
<1>11. CASE DecodeEnds
  <2>1. /\ io = "decode"
        /\ UNCHANGED <<state, told, posts, queue, writing, inflight, tries, sock, tls, tlsWith,
                       op, stream, peer>>
    BY <1>11 DEF DecodeEnds, streamVars
  <2>2. op = "none" /\ Linked
    BY <2>1 DEF AttemptInv
  <2>3. Linked' /\ (Silent' <=> Silent) /\ (HelloUnderWay' <=> HelloUnderWay) /\ (Ended' <=> Ended)
    BY <2>1, <2>2 DEF Linked, Silent, HelloUnderWay, Ended
  <2>4. QED
    BY <2>1, <2>2, <2>3 DEF AttemptInv
<1>12. CASE Closing
  <2>1. /\ told \in {"waiting", "session"} /\ told' = told /\ op' = "none" /\ Linked'
        /\ tries' = tries /\ tlsWith' = tlsWith
        /\ \/ state = "Connected" /\ state' \in {state, "Error"} /\ tls' = tls
           \/ state' = "Disconnected"
    BY <1>12, ClosingStep
  <2>2. QED
    BY <2>1 DEF AttemptInv, Ended
<1>13. CASE ShutdownDone
  <2>1. /\ tls \in {"bad", "half"} /\ told' = told /\ sock' = 0 /\ told # "session"
        /\ io = "idle" /\ Silent /\ ~reading
        /\ UNCHANGED <<state, tries, tls, tlsWith, op, reading, queue, writing, inflight, posts,
                       io, peer>>
    BY <1>13, ShutdownStep
  <2>2. Silent'
    BY <2>1 DEF Silent
  <2>3. QED
    BY <2>1, <2>2 DEF AttemptInv, Ended
<1>14. CASE SendRequest
  <2>1. /\ told = "session" /\ state = "Connected"
        /\ UNCHANGED <<state, told, reading, tries, sock, tls, tlsWith, op, io, peer>>
    BY <1>14 DEF SendRequest
  <2>2. QED
    BY <2>1 DEF AttemptInv, Linked, Ended
<1>15. CASE Disconnect
  <2>1. /\ told = "session"
        /\ UNCHANGED <<state, told, reading, tries, sock, tls, tlsWith, op, io, peer>>
    BY <1>15 DEF Disconnect
  <2>2. QED
    BY <2>1 DEF AttemptInv, Linked, Ended
<1>16. CASE UNCHANGED <<state, told, posts, queue, writing, inflight, reading, tries, sock, tls,
                        tlsWith, op, io, stream, peer>>
  <2>1. /\ Linked' <=> Linked
        /\ Silent' <=> Silent
        /\ HelloUnderWay' <=> HelloUnderWay
        /\ Ended' <=> Ended
    BY <1>16 DEF Linked, Silent, HelloUnderWay, Ended
  <2>2. QED
    BY <1>16, <2>1 DEF AttemptInv
<1>17. CASE ManagerStops
  BY <1>16, <1>17 DEF ManagerStops, streamVars
<1>18. CASE InputLoopEnds
  BY <1>16, <1>18 DEF InputLoopEnds, streamVars
<1>19. ASSUME ServerUnchanged, peer' # "none", peer # "none",
              peer' = "closed" \/ peer \in {"asked", "member", "refused"},
              (NoVerdict(stream) => NoVerdict(stream')) \/ peer = "asked",
              peer' = peer \/ peer' = "closed" \/ peer = "asked"
       PROVE  AttemptInv'
  <2>1. UNCHANGED <<state, told, posts, queue, writing, inflight, reading, tries, sock, tls,
                    tlsWith, op, io>>
    BY <1>19 DEF ServerUnchanged
  <2>2. /\ Linked' <=> Linked
        /\ Silent' <=> Silent
        /\ HelloUnderWay => HelloUnderWay'
        /\ Ended' <=> Ended
    BY <1>19, <2>1 DEF Linked, Silent, HelloUnderWay, Ended
  <2>3. QED
    BY <1>19, <2>1, <2>2 DEF AttemptInv
<1>20. CASE ServerAnswers
  BY <1>19, <1>20 DEF ServerAnswers
<1>21. CASE ServerSends
  <2>1. NoVerdict(stream) => NoVerdict(stream')
    <3>1. sock \in 1..MaxTries /\ Whole(stream) /\ stream \in Seq(UnitSet) /\ got \in 0..Len(stream)
      <4>1. stream \in Seq(UnitSet) /\ Len(stream) \in Nat
        BY LenProperties DEF TypeOK, UnitSet
      <4>2. QED
        BY <1>21, <4>1, BoundsAssumption DEF ServerSends, StreamInv, TypeOK
    <3>2. stream' = stream \o Units("news") /\ "news" \in Messages
      BY <1>21 DEF ServerSends, Messages
    <3>3. QED
      BY <3>1, <3>2, AddedUnits
  <2>2. QED
    BY <1>19, <1>21, <2>1 DEF ServerSends
<1>22. CASE ServerCloses
  <2>1. NoVerdict(stream) => NoVerdict(stream')
    <3>1. CASE UNCHANGED stream
      BY <3>1
    <3>2. CASE peer # "greet" /\ stream' = Append(stream, Unit("bye"))
      <4>1. sock \in 1..MaxTries /\ Whole(stream) /\ stream \in Seq(UnitSet)
            /\ got \in 0..Len(stream)
        <5>1. stream \in Seq(UnitSet) /\ Len(stream) \in Nat
          BY LenProperties DEF TypeOK, UnitSet
        <5>2. QED
          BY <1>22, <3>2, <5>1, BoundsAssumption DEF ServerCloses, StreamInv, TypeOK
      <4>2. QED
        BY <3>2, <4>1, AddedBye
    <3>3. QED
      BY <1>22, <3>1, <3>2 DEF ServerCloses
  <2>2. QED
    BY <1>19, <1>22, <2>1 DEF ServerCloses
<1>23. QED
  BY <1>1, <1>2, <1>3, <1>4, <1>5, <1>6, <1>7, <1>8, <1>9, <1>10, <1>11, <1>12, <1>13,
     <1>14, <1>15, <1>17, <1>18, <1>20, <1>21, <1>22
     DEF Steps

\* Which shutdowns are under way depends on what the TLS engine has done.
LEMMA ShutdownNext ==
  ASSUME TypeOK, StreamInv, AttemptInv, ShutdownInv, PanelInv, CaptureInv, ComingInv,
         Alive, Alive', Steps
  PROVE  ShutdownInv'
<1> USE DEF linkVars, tlsVars, serverVars, writeVars, inputVars
<1>1. CASE UNCHANGED <<tls, shutdowns>>
  BY <1>1 DEF ShutdownInv
<1>2. ASSUME NEW r \in Ends, HandleSslHandshake(r) PROVE ShutdownInv'
  <2>1. /\ tls' = r
        /\ tls' = tls \/ (tls = "fresh" /\ tls' \in {"half", "bad", "done"})
    BY <1>2, TlsStep
  <2>2. shutdowns \in Seq(BOOLEAN)
    BY DEF TypeOK
  <2>3. CASE shutdowns' = shutdowns
    <3>1. CASE tls' = tls
      BY <2>3, <3>1 DEF ShutdownInv
    <3>2. CASE tls = "fresh"
      <4>1. shutdowns' = <<>>
        BY <2>3, <3>2 DEF ShutdownInv
      <4>2. QED
        BY <4>1 DEF ShutdownInv
    <3>3. QED
      BY <2>1, <3>1, <3>2
  <2>4. CASE r \in {"half", "bad"} /\ shutdowns' = Append(shutdowns, FALSE)
    <3>1. \A i \in DOMAIN shutdowns : shutdowns[i] = FALSE
      <4>1. CASE tls = "fresh"
        BY <4>1 DEF ShutdownInv
      <4>2. CASE tls \in {"bad", "half"}
        <5>1. \A i \in DOMAIN shutdowns : shutdowns[i] \in BOOLEAN
          BY <2>2, LenProperties, ElementOfSeq
        <5>2. QED
          BY <4>2, <5>1 DEF ShutdownInv
      <4>3. QED
        BY <2>1, <2>4, <4>1, <4>2
    <3>2. \A i \in DOMAIN shutdowns' : shutdowns'[i] = FALSE
      BY <2>2, <2>4, <3>1, AppendElements
    <3>3. QED
      BY <2>1, <2>4, <3>2 DEF ShutdownInv
  <2>5. QED
    BY <1>2, <2>3, <2>4, TlsOutcome
<1>3. CASE AnswerFails
  <2>1. tls' = "shut" /\ \A i \in DOMAIN shutdowns' : shutdowns'[i]
    BY <1>3, AnswerStep
  <2>2. QED
    BY <2>1 DEF ShutdownInv
<1>4. CASE Closing
  <2>1. \/ UNCHANGED <<shutdowns, tls>>
        \/ tls' = "shut" /\ \A i \in DOMAIN shutdowns' : shutdowns'[i]
    BY <1>4, ClosingStep
  <2>2. QED
    BY <2>1 DEF ShutdownInv
<1>5. CASE ShutdownDone
  <2>1. tls' = tls /\ tls \in {"bad", "half"} /\ \A i \in DOMAIN shutdowns' : ~shutdowns'[i]
    BY <1>5, ShutdownStep
  <2>2. QED
    BY <2>1 DEF ShutdownInv
<1>6. QED
  BY <1>1, <1>2, <1>3, <1>4, <1>5
     DEF Steps, Connect, HandleResolve, HandleTcpConnect, RunSend, HandleWriteOk, HandleRead,
         HandleReadError, HandleMessage, DecodeEnds, SendRequest, Disconnect, ManagerStops,
         InputLoopEnds, ServerAnswers, ServerSends, ServerCloses, ServerUnchanged

\* What the panel was told fits what can still happen.
LEMMA PanelNext ==
  ASSUME TypeOK, StreamInv, AttemptInv, ShutdownInv, PanelInv, CaptureInv, ComingInv,
         Alive, Alive', Steps
  PROVE  PanelInv'
<1> USE DEF linkVars, tlsVars, serverVars, writeVars, inputVars
<1>1. CASE Connect
  BY <1>1 DEF Connect, PanelInv
<1>2. ASSUME NEW ok \in BOOLEAN, HandleResolve(ok) PROVE PanelInv'
  <2>1. told = "waiting" /\ Silent /\ ~reading /\ io = "idle" /\ state = "Connecting"
    BY <1>2 DEF HandleResolve, AttemptInv
  <2>2. Silent' /\ ~reading'
    BY <1>2, <2>1 DEF HandleResolve, Silent
  <2>3. QED
    BY <1>2, <2>1, <2>2 DEF HandleResolve, Fail, PanelInv, Ending
<1>3. ASSUME NEW ok \in BOOLEAN, HandleTcpConnect(ok) PROVE PanelInv'
  <2>1. told = "waiting" /\ Silent /\ ~reading /\ io = "idle" /\ state = "Connecting"
    BY <1>3 DEF HandleTcpConnect, AttemptInv
  <2>2. Silent' /\ ~reading'
    BY <1>3, <2>1 DEF HandleTcpConnect, Silent
  <2>3. QED
    BY <1>3, <2>1, <2>2 DEF HandleTcpConnect, Fail, PanelInv, Ending
<1>4. ASSUME NEW r \in Ends, HandleSslHandshake(r) PROVE PanelInv'
  <2>1. op' = "none" /\ io' = "idle"
    BY <1>4, TlsStep
  <2>2. \/ state' = "Connecting" /\ told' = "waiting"
        \/ Silent' /\ ~reading' /\ state' = "Disconnected" /\ told' = "setup"
    BY <1>4, TlsOutcome
  <2>3. QED
    BY <2>1, <2>2 DEF PanelInv, Ending
<1>5. CASE RunSend
  <2>1. told # "setup"
    BY <1>5 DEF RunSend, PanelInv, Silent
  <2>2. QED
    BY <1>5, <2>1 DEF RunSend, PanelInv
<1>6. CASE HandleWriteOk
  <2>1. told # "setup"
    BY <1>6 DEF HandleWriteOk, PanelInv, Silent
  <2>2. QED
    BY <1>6, <2>1 DEF HandleWriteOk, PanelInv
<1>7. ASSUME NEW m \in 0..Len(stream) - held, NEW n \in 1..Len(stream) - got, HandleRead(n, m)
      PROVE  PanelInv'
  BY <1>7 DEF HandleRead, PanelInv
<1>8. ASSUME NEW s \in {state, "Error"}, HandleReadError(s), Ended PROVE PanelInv'
  BY <1>8 DEF HandleReadError, PanelInv
<1>9. ASSUME NEW started \in BOOLEAN, HandleMessage(started) PROVE PanelInv'
  <2>1. /\ op = "none" /\ ~Ended /\ io = "decode" /\ ~reading
        /\ UNCHANGED <<op, reading, queue, writing, inflight, posts, io>>
        /\ \/ UNCHANGED <<state, told>>
           \/ /\ Silent
              /\ \/ state' = "Connected" /\ told' = "session"
                 \/ state' = "Error" /\ told' = "setup"
    BY <1>9, MessageStep
  <2>2. Silent' <=> Silent
    BY <2>1 DEF Silent
  <2>3. QED
    BY <2>1, <2>2 DEF PanelInv, Ending
<1>10. CASE AnswerFails
  <2>1. /\ told' = "setup" /\ op' = "none" /\ Silent' /\ ~reading' /\ state' = "Disconnected"
        /\ io' = "decode"
    BY <1>10, AnswerStep
  <2>2. QED
    BY <2>1 DEF PanelInv, Ending
<1>11. CASE DecodeEnds
  <2>1. /\ io = "decode" /\ io' = "idle" /\ reading' = ~Ended
        /\ UNCHANGED <<state, told, op, posts, queue, writing, inflight>>
    BY <1>11 DEF DecodeEnds
  <2>2. told = "setup" => Ended
    BY DEF PanelInv, Ended, Ending
  <2>3. Silent' <=> Silent
    BY <2>1 DEF Silent
  <2>4. QED
    BY <2>1, <2>2, <2>3 DEF PanelInv
<1>12. CASE Closing
  <2>1. /\ told' = told /\ told # "setup"
        /\ \/ io' = "join" /\ told = "session"
           \/ io' = "idle" /\ state' = "Disconnected"
    BY <1>12, ClosingStep
  <2>2. QED
    BY <2>1 DEF PanelInv
<1>13. CASE ShutdownDone
  <2>1. /\ told' = told
        /\ UNCHANGED <<state, op, reading, queue, writing, inflight, posts, io>>
    BY <1>13, ShutdownStep
  <2>2. Silent' <=> Silent
    BY <2>1 DEF Silent
  <2>3. QED
    BY <2>1, <2>2 DEF PanelInv
<1>14. CASE SendRequest
  BY <1>14 DEF SendRequest, PanelInv
<1>15. CASE Disconnect
  BY <1>15 DEF Disconnect, PanelInv
<1>16. CASE UNCHANGED <<state, told, posts, queue, writing, inflight, reading, op, io>>
  <2>1. Silent' <=> Silent
    BY <1>16 DEF Silent
  <2>2. QED
    BY <1>16, <2>1 DEF PanelInv
<1>17. QED
  BY <1>1, <1>2, <1>3, <1>4, <1>5, <1>6, <1>7, <1>8, <1>9, <1>10, <1>11, <1>12, <1>13,
     <1>14, <1>15, <1>16
     DEF Steps, ManagerStops, InputLoopEnds, ServerAnswers, ServerSends, ServerCloses,
         ServerUnchanged

\* The capture ends with the session.
LEMMA CaptureNext ==
  ASSUME TypeOK, StreamInv, AttemptInv, ShutdownInv, PanelInv, CaptureInv, ComingInv,
         Alive, Alive', Steps
  PROVE  CaptureInv'
<1> USE DEF linkVars, tlsVars, serverVars, writeVars, inputVars
<1>1. CASE UNCHANGED <<inputVars, io>> /\ (state' = state \/ ~capture)
  BY <1>1 DEF CaptureInv
<1>2. ASSUME state \in {"Connecting", "Disconnected", "Error"} PROVE ~capture
  BY <1>2 DEF CaptureInv
<1>3. CASE Connect
  BY <1>1, <1>2, <1>3 DEF Connect, TypeOK
<1>4. ASSUME NEW ok \in BOOLEAN, HandleResolve(ok) PROVE CaptureInv'
  BY <1>1, <1>2, <1>4 DEF HandleResolve
<1>5. ASSUME NEW ok \in BOOLEAN, HandleTcpConnect(ok) PROVE CaptureInv'
  BY <1>1, <1>2, <1>5 DEF HandleTcpConnect
<1>6. ASSUME NEW r \in Ends, HandleSslHandshake(r) PROVE CaptureInv'
  <2>1. state = "Connecting" /\ UNCHANGED <<inputVars, io>>
    BY <1>6, TlsStep
  <2>2. QED
    BY <1>1, <1>2, <2>1
<1>7. ASSUME NEW m \in 0..Len(stream) - held, NEW n \in 1..Len(stream) - got, HandleRead(n, m)
      PROVE  CaptureInv'
  BY <1>7 DEF HandleRead, CaptureInv
<1>8. ASSUME NEW s \in {state, "Error"}, HandleReadError(s), Ended PROVE CaptureInv'
  BY <1>8 DEF HandleReadError, CaptureInv
<1>9. ASSUME NEW started \in BOOLEAN, HandleMessage(started) PROVE CaptureInv'
  <2>1. /\ io = "decode" /\ io' = io /\ gaveUp' = gaveUp
        /\ \/ UNCHANGED <<state, capture, manager, thread>>
           \/ /\ ~capture /\ thread # "runs" /\ state = "Connecting"
              /\ \/ /\ state' = "Connected" /\ manager' = started /\ capture' = started
                    /\ thread' = IF started THEN "runs" ELSE thread
                 \/ state' = "Error" /\ UNCHANGED <<capture, manager, thread>>
    BY <1>9, MessageStep
  <2>2. QED
    BY <2>1 DEF CaptureInv
<1>10. CASE AnswerFails
  <2>1. io' = io /\ io = "decode" /\ ~capture /\ capture' = capture /\ gaveUp' = gaveUp
        /\ thread' \in {thread, "none"}
    BY <1>10, AnswerStep
  <2>2. QED
    BY <2>1 DEF CaptureInv
<1>11. CASE DecodeEnds
  BY <1>11 DEF DecodeEnds, CaptureInv
<1>12. CASE Closing
  <2>1. /\ ~capture' /\ (thread' = "none" \/ thread' = thread)
        /\ \/ io' = "join"
           \/ io' = "idle" /\ thread' # "runs"
    BY <1>12, ClosingStep
  <2>2. thread' = "ended" => io' = "join" \/ gaveUp'
    <3>1. CASE InputThreadJoined
      BY <3>1 DEF InputThreadJoined
    <3>2. CASE ~InputThreadJoined
      <4>1. io # "join" /\ gaveUp' = gaveUp /\ thread' = thread
        BY <1>12, <3>2 DEF Closing, RunClose, HandleWriteError, DecodeFails, HandleReadError
      <4>2. QED
        BY <4>1 DEF CaptureInv
    <3>3. QED
      BY <3>1, <3>2
  <2>3. QED
    BY <2>1, <2>2 DEF CaptureInv
<1>13. CASE ShutdownDone
  <2>1. UNCHANGED <<inputVars, io, state>>
    BY <1>13, ShutdownStep
  <2>2. QED
    BY <1>1, <2>1
<1>14. CASE ManagerStops
  BY <1>14 DEF ManagerStops, CaptureInv
<1>15. CASE InputLoopEnds
  BY <1>15 DEF InputLoopEnds, CaptureInv
<1>16. CASE UNCHANGED <<inputVars, io, state>>
  BY <1>1, <1>16
<1>17. QED
  BY <1>3, <1>4, <1>5, <1>6, <1>7, <1>8, <1>9, <1>10, <1>11, <1>12, <1>13,
     <1>14, <1>15, <1>16
     DEF Steps, RunSend, HandleWriteOk, SendRequest, Disconnect, ServerAnswers, ServerSends,
         ServerCloses, ServerUnchanged

\* Every handler that ends leaves another to come, or has told the panel.
LEMMA ComingNext ==
  ASSUME TypeOK, StreamInv, AttemptInv, ShutdownInv, PanelInv, CaptureInv, ComingInv,
         Alive, Alive', Steps
  PROVE  ComingInv'
<1> USE DEF linkVars, tlsVars, serverVars, writeVars, inputVars, Ended
<1>1. CASE Connect
  BY <1>1 DEF Connect, ComingInv
<1>2. ASSUME NEW ok \in BOOLEAN, HandleResolve(ok) PROVE ComingInv'
  <2>1. state = "Connecting" /\ io = "idle" /\ told = "waiting"
    BY <1>2 DEF HandleResolve, AttemptInv
  <2>2. QED
    BY <1>2, <2>1 DEF HandleResolve, Fail, ComingInv
<1>3. ASSUME NEW ok \in BOOLEAN, HandleTcpConnect(ok) PROVE ComingInv'
  <2>1. state = "Connecting" /\ io = "idle" /\ told = "waiting"
    BY <1>3 DEF HandleTcpConnect, AttemptInv
  <2>2. QED
    BY <1>3, <2>1 DEF HandleTcpConnect, Fail, ComingInv
<1>4. ASSUME NEW r \in Ends, HandleSslHandshake(r) PROVE ComingInv'
  <2>1. io' = io /\ io = "idle"
    BY <1>4, TlsStep
  <2>2. \/ state' = "Connecting" /\ reading'
        \/ told' = "setup"
    BY <1>4, TlsOutcome
  <2>3. QED
    BY <2>1, <2>2 DEF ComingInv
<1>5. ASSUME NEW m \in 0..Len(stream) - held, NEW n \in 1..Len(stream) - got, HandleRead(n, m)
      PROVE  ComingInv'
  BY <1>5 DEF HandleRead, ComingInv
<1>6. ASSUME NEW s \in {state, "Error"}, HandleReadError(s), Ended PROVE ComingInv'
  BY <1>6 DEF HandleReadError, ComingInv
<1>7. ASSUME NEW started \in BOOLEAN, HandleMessage(started) PROVE ComingInv'
  <2>1. /\ io = "decode" /\ io' = io /\ ~Ended
        /\ UNCHANGED <<state, told>> \/ state' = "Connected" \/ told' = "setup"
    BY <1>7, MessageStep
  <2>2. QED
    BY <2>1 DEF ComingInv
<1>8. CASE AnswerFails
  <2>1. told' = "setup" /\ io' = "decode"
    BY <1>8, AnswerStep
  <2>2. QED
    BY <2>1 DEF ComingInv
<1>9. CASE DecodeEnds
  BY <1>9 DEF DecodeEnds, ComingInv
<1>10. CASE Closing
  <2>1. /\ told' = told
        /\ \/ io' = "join" /\ state = "Connected" /\ state' \in {state, "Error"}
           \/ /\ io' = "idle" /\ state' = "Disconnected"
              /\ \/ state = "Disconnected" /\ io # "join" /\ UNCHANGED <<shutdowns, tls>>
                 \/ tls' = "shut" /\ shutdowns' # <<>>
    BY <1>10, ClosingStep
  <2>2. QED
    BY <2>1 DEF ComingInv
<1>11. CASE ShutdownDone
  <2>1. /\ told' = told /\ told # "session" /\ tls \in {"bad", "half"}
        /\ UNCHANGED <<state, op, reading, io, tls>>
    BY <1>11, ShutdownStep
  <2>2. QED
    BY <2>1 DEF ComingInv
<1>12. CASE UNCHANGED <<state, told, op, reading, io, tls, shutdowns>>
  BY <1>12 DEF ComingInv
<1>13. QED
  BY <1>1, <1>2, <1>3, <1>4, <1>5, <1>6, <1>7, <1>8, <1>9, <1>10, <1>11, <1>12
     DEF Steps, RunSend, HandleWriteOk, SendRequest, Disconnect, ManagerStops, InputLoopEnds,
         ServerAnswers, ServerSends, ServerCloses, ServerUnchanged

\* Only the completion of a shutdown calls the disconnect callback.
LEMMA GoneStep ==
  ASSUME TypeOK, StreamInv, AttemptInv, ShutdownInv, PanelInv, CaptureInv, ComingInv,
         Alive, ~Alive', Steps
  PROVE  ShutdownDone /\ Head(shutdowns)
<1>1. CASE Closing
  BY <1>1, ClosingStep DEF Alive
<1>2. CASE AnswerFails
  BY <1>2, AnswerStep DEF Alive
<1>3. ASSUME NEW started \in BOOLEAN, HandleMessage(started) PROVE FALSE
  <2>1. told' = told \/ told' \in {"session", "setup"}
    BY <1>3, MessageStep
  <2>2. QED
    BY <2>1 DEF Alive
<1>4. ASSUME NEW r \in Ends, HandleSslHandshake(r) PROVE FALSE
  <2>1. told' \in {"waiting", "setup"}
    BY <1>4, TlsOutcome
  <2>2. QED
    BY <2>1 DEF Alive
<1>5. CASE ShutdownDone
  BY <1>5 DEF ShutdownDone, Alive
<1>6. QED
  BY <1>1, <1>2, <1>3, <1>4, <1>5
     DEF Alive, Steps, Connect, HandleResolve, HandleTcpConnect, Fail, RunSend, HandleWriteOk,
         HandleRead, HandleReadError, DecodeEnds, SendRequest, Disconnect, ManagerStops,
         InputLoopEnds, ServerAnswers, ServerSends, ServerCloses, ServerUnchanged

\* A client that is destroyed has stopped capturing.
LEMMA GoneNext ==
  ASSUME TypeOK, StreamInv, AttemptInv, ShutdownInv, PanelInv, CaptureInv, ComingInv,
         Alive, ~Alive', Steps
  PROVE  GoneInv'
<1>1. ShutdownDone /\ Head(shutdowns)
  BY GoneStep
<1>2. shutdowns \in Seq(BOOLEAN) /\ shutdowns # <<>> /\ io = "idle"
  BY <1>1 DEF TypeOK, ShutdownDone
<1>3. 1 \in DOMAIN shutdowns /\ Head(shutdowns) = shutdowns[1]
  BY <1>2, TailElements
<1>4. tls = "shut"
  BY <1>1, <1>2, <1>3 DEF ShutdownInv, TypeOK
<1>5. state # "Connected"
  BY <1>4 DEF AttemptInv, Ended
<1>6. UNCHANGED <<state, io, capture, manager, thread, gaveUp>>
  BY <1>1 DEF ShutdownDone, inputVars
<1>7. QED
  BY <1>2, <1>5, <1>6 DEF GoneInv, CaptureInv
-----------------------------------------------------------------------------
(* The contract *)

\* The disconnect callback is on its way; the attempt and its server wait for each other.
NoticeComing == Alive /\ tls = "shut" /\ shutdowns # <<>>

Stalled == Alive /\ op = "tls" /\ tls = "half" /\ ~CutOff

\* The first as the contract says it.
LEMMA NoticeIs ==
  ASSUME ClientInv
  PROVE  (Alive /\ \E i \in DOMAIN shutdowns : shutdowns[i]) <=> NoticeComing
<1>1. CASE Alive
  <2>1. shutdowns \in Seq(BOOLEAN) /\ ShutdownInv
    BY <1>1 DEF ClientInv, TypeOK
  <2>2. shutdowns # <<>> => 1 \in DOMAIN shutdowns
    BY <2>1, TailElements
  <2>3. shutdowns = <<>> => ~\E i \in DOMAIN shutdowns : shutdowns[i]
    BY EmptySeq
  <2>4. tls \in {"fresh", "half", "bad", "done", "shut"}
    BY DEF ClientInv, TypeOK
  <2>5. QED
    BY <1>1, <2>1, <2>2, <2>3, <2>4 DEF ShutdownInv, NoticeComing
<1>2. CASE ~Alive
  BY <1>2 DEF NoticeComing
<1>3. QED
  BY <1>1, <1>2

\* What a step is to the panel: nothing, the begin of an attempt, its refusal, after which
\* the notice may be on its way, its admission, the notice set on its way, the attempt and
\* its server beginning or ceasing to wait for each other, or the notice.
Nothing == /\ told' = told /\ tries' = tries
           /\ (NoticeComing' <=> NoticeComing) /\ (Stalled' <=> Stalled)
Begins == /\ told = "setup" /\ told' = "waiting" /\ tries' = tries + 1
          /\ (NoticeComing' <=> NoticeComing) /\ (Stalled' <=> Stalled)
Refused == /\ told = "waiting" /\ told' = "setup" /\ tries' = tries
           /\ (NoticeComing => NoticeComing') /\ ~Stalled'
Admitted == /\ told = "waiting" /\ told' = "session" /\ tries' = tries
            /\ ~NoticeComing /\ ~NoticeComing' /\ (Stalled' <=> Stalled)
GivenUp == /\ told \in {"waiting", "session"} /\ told' = told /\ tries' = tries
           /\ ~NoticeComing /\ NoticeComing' /\ (Stalled' <=> Stalled)
Stalls == /\ told = "waiting" /\ told' = told /\ tries' = tries
          /\ ~NoticeComing /\ ~NoticeComing' /\ (Stalled' <=> ~Stalled)
Notified == /\ NoticeComing /\ told' = "gone" /\ tries' = tries

\* There is no other step.
LEMMA ToldNext ==
  ASSUME ClientInv, ClientInv', Alive, Steps
  PROVE  Nothing \/ Begins \/ Refused \/ Admitted \/ GivenUp \/ Stalls \/ Notified
<1>0. /\ TypeOK /\ StreamInv /\ AttemptInv /\ ShutdownInv /\ PanelInv /\ CaptureInv
      /\ ComingInv
  BY DEF ClientInv
<1> USE DEF linkVars, tlsVars, serverVars, writeVars, inputVars
<1>1. CASE ~Alive'
  <2>1. ShutdownDone /\ Head(shutdowns)
    BY <1>0, <1>1, GoneStep
  <2>2. shutdowns \in Seq(BOOLEAN) /\ shutdowns # <<>> /\ tries' = tries
    BY <1>0, <2>1 DEF TypeOK, ShutdownDone
  <2>3. 1 \in DOMAIN shutdowns /\ Head(shutdowns) = shutdowns[1]
    BY <2>2, TailElements
  <2>4. tls = "shut"
    BY <1>0, <2>1, <2>2, <2>3 DEF ShutdownInv, TypeOK
  <2>5. QED
    BY <1>1, <2>2, <2>4 DEF Notified, NoticeComing, Alive
<1>2. CASE Alive'
  <2>1. CASE /\ UNCHANGED <<told, tries, tls, shutdowns>>
             /\ op' = op \/ (op # "tls" /\ op' # "tls")
             /\ op = "tls" => (CutOff' <=> CutOff)
    BY <1>2, <2>1 DEF Nothing, NoticeComing, Stalled
  <2>2. CASE UNCHANGED <<told, tries, tls, shutdowns, op, peer, sock>>
    BY <2>1, <2>2 DEF CutOff
  <2>3. CASE Connect
    <3>1. /\ told = "setup" /\ told' = "waiting" /\ tries' = tries + 1 /\ op' = "resolve"
          /\ UNCHANGED <<tls, shutdowns>>
      BY <2>3 DEF Connect
    <3>2. op = "none"
      BY <1>0, <3>1 DEF PanelInv
    <3>3. QED
      BY <1>2, <3>1, <3>2 DEF Begins, NoticeComing, Stalled
  <2>4. ASSUME NEW ok \in BOOLEAN, HandleResolve(ok)
        PROVE  Nothing \/ Refused
    <3>1. state = "Connecting" /\ told = "waiting" /\ op = "resolve"
      BY <1>0, <2>4 DEF HandleResolve, AttemptInv
    <3>2. UNCHANGED <<tls, shutdowns, tries>>
      BY <2>4 DEF HandleResolve
    <3>3. \/ op' = "tcp" /\ told' = told
          \/ op' = "none" /\ told' = "setup"
      BY <2>4, <3>1 DEF HandleResolve, Fail
    <3>4. QED
      BY <1>2, <3>1, <3>2, <3>3 DEF Nothing, Refused, NoticeComing, Stalled
  <2>5. ASSUME NEW ok \in BOOLEAN, HandleTcpConnect(ok)
        PROVE  Nothing \/ Refused \/ Stalls
    <3>1. state = "Connecting" /\ told = "waiting" /\ op = "tcp"
      BY <1>0, <2>5 DEF HandleTcpConnect, AttemptInv
    <3>2. UNCHANGED <<tls, shutdowns, tries>>
      BY <2>5 DEF HandleTcpConnect
    <3>3. \/ op' = "tls" /\ told' = told
          \/ op' = "none" /\ told' = "setup"
      BY <2>5, <3>1 DEF HandleTcpConnect, Fail
    <3>4. CASE tls = "half"
      BY <1>2, <3>1, <3>2, <3>3, <3>4 DEF Nothing, Refused, Stalls, NoticeComing, Stalled
    <3>5. CASE tls # "half"
      BY <1>2, <3>1, <3>2, <3>3, <3>5 DEF Nothing, Refused, NoticeComing, Stalled
    <3>6. QED
      BY <3>4, <3>5
  <2>6. ASSUME NEW r \in Ends, HandleSslHandshake(r)
        PROVE  Nothing \/ Refused
    <3>1. /\ told = "waiting" /\ op' = "none" /\ tries' = tries /\ tls' = r
          /\ \/ tls' = tls /\ (tls = "half" => CutOff)
             \/ tls = "fresh" /\ tls' \in {"half", "bad", "done"}
      BY <1>0, <2>6, TlsStep
    <3>2. ~Stalled /\ ~Stalled'
      BY <3>1 DEF Stalled
    <3>3. \/ r \in {"done", "shut"} /\ told' = "waiting" /\ shutdowns' = shutdowns
          \/ r \in {"half", "bad"} /\ told' = "setup"
      BY <1>0, <2>6, TlsOutcome
    <3>4. CASE r \in {"done", "shut"} /\ told' = "waiting" /\ shutdowns' = shutdowns
      BY <1>2, <3>1, <3>2, <3>4 DEF Nothing, NoticeComing
    <3>5. CASE r \in {"half", "bad"} /\ told' = "setup"
      BY <3>1, <3>2, <3>5 DEF Refused, NoticeComing
    <3>6. QED
      BY <3>3, <3>4, <3>5
  <2>7. CASE HandleWriteOk
    <3>1. op = "none"
      BY <1>0, <2>7 DEF HandleWriteOk, AttemptInv, Silent
    <3>2. QED
      BY <2>1, <2>7, <3>1 DEF HandleWriteOk
  <2>8. ASSUME NEW started \in BOOLEAN, HandleMessage(started)
        PROVE  Nothing \/ Refused \/ Admitted
    <3>1. /\ op = "none" /\ UNCHANGED <<op, tls, shutdowns, tries>>
          /\ \/ told' = told
             \/ told = "waiting" /\ told' = "session" /\ tls # "shut"
             \/ told = "waiting" /\ told' = "setup"
      BY <1>0, <2>8, MessageStep
    <3>2. QED
      BY <1>2, <3>1 DEF Nothing, Refused, Admitted, NoticeComing, Stalled
  <2>9. CASE AnswerFails
    <3>1. /\ told = "waiting" /\ told' = "setup" /\ op' = "none" /\ tries' = tries
          /\ tls' = "shut" /\ shutdowns' # <<>>
      BY <1>0, <2>9, AnswerStep
    <3>2. QED
      BY <1>2, <3>1 DEF Refused, NoticeComing, Stalled
  <2>10. CASE Closing
    <3>1. /\ told \in {"waiting", "session"} /\ told' = told /\ op = "none" /\ op' = op
          /\ tries' = tries
          /\ \/ UNCHANGED <<shutdowns, tls>>
             \/ tls' = "shut" /\ shutdowns' # <<>>
      BY <1>0, <2>10, ClosingStep
    <3>2. CASE UNCHANGED <<shutdowns, tls>>
      BY <1>2, <3>1, <3>2 DEF Nothing, NoticeComing, Stalled
    <3>3. CASE tls' = "shut" /\ shutdowns' # <<>>
      BY <1>2, <3>1, <3>3 DEF Nothing, GivenUp, NoticeComing, Stalled
    <3>4. QED
      BY <3>1, <3>2, <3>3
  <2>11. CASE ShutdownDone
    <3>1. /\ tls \in {"bad", "half"} /\ told' = told /\ sock' = 0 /\ told # "session"
          /\ UNCHANGED <<tries, tls, op, state>>
      BY <1>0, <1>2, <2>11, ShutdownStep
    <3>2. ~NoticeComing /\ ~NoticeComing' /\ ~Stalled'
      BY <3>1 DEF NoticeComing, Stalled, CutOff
    <3>3. Stalled => told = "waiting"
      BY <1>0 DEF Stalled, AttemptInv
    <3>4. QED
      BY <3>1, <3>2, <3>3 DEF Nothing, Stalls
  <2>12. CASE ServerCloses
    <3>1. peer' = "closed" /\ UNCHANGED <<told, tries, tls, shutdowns, op, sock>>
      BY <2>12 DEF ServerCloses, ServerUnchanged
    <3>2. ~Stalled'
      BY <3>1 DEF Stalled, CutOff
    <3>3. Stalled => told = "waiting" /\ ~NoticeComing
      BY <1>0 DEF Stalled, AttemptInv, NoticeComing
    <3>4. NoticeComing' <=> NoticeComing
      BY <1>2, <3>1 DEF NoticeComing
    <3>5. QED
      BY <3>1, <3>2, <3>3, <3>4 DEF Nothing, Stalls
  <2>13. CASE ServerAnswers
    <3>1. op # "tls" /\ UNCHANGED <<told, tries, tls, shutdowns, op>>
      BY <1>0, <2>13 DEF ServerAnswers, ServerUnchanged, AttemptInv
    <3>2. QED
      BY <2>1, <3>1
  <2>14. ASSUME NEW s \in {state, "Error"}, HandleReadError(s), Ended
         PROVE  Nothing
    <3>1. UNCHANGED <<told, tries, tls, shutdowns, op>> /\ op = "none"
      BY <1>0, <2>14 DEF HandleReadError, AttemptInv
    <3>2. QED
      BY <1>2, <3>1 DEF Nothing, NoticeComing, Stalled
  <2>15. QED
    BY <2>2, <2>3, <2>4, <2>5, <2>6, <2>7, <2>8, <2>9, <2>10, <2>11, <2>12, <2>13, <2>14
       DEF Steps, RunSend, HandleRead, DecodeEnds, SendRequest, Disconnect, ManagerStops,
           InputLoopEnds, ServerSends, ServerUnchanged
<1>3. QED
  BY <1>1, <1>2
-----------------------------------------------------------------------------
(* Theorems *)

\* The initial state satisfies the invariant.
LEMMA InvInit == Init => ClientInv
<1> SUFFICES ASSUME Init PROVE ClientInv
  OBVIOUS
<1>1. TypeOK
  BY TypeInit
<1>2. \A n : /\ AllOf(<<>>, n) /\ NoVerdict(<<>>) /\ OneVerdict(<<>>) /\ Framed(<<>>)
             /\ Whole(<<>>) /\ GotUnits(<<>>, n)
  BY EmptyOf
<1>3. StreamInv
  BY <1>2 DEF Init, StreamInv
<1>4. Silent
  BY DEF Init, Silent
<1>5. AttemptInv /\ CaptureInv /\ ShutdownInv
  BY <1>4 DEF Init, AttemptInv, CaptureInv, ShutdownInv
<1>6. PanelInv /\ ComingInv
  BY <1>4 DEF Init, PanelInv, ComingInv, Ending
<1>7. Alive
  BY DEF Init, Alive
<1>8. QED
  BY <1>1, <1>3, <1>5, <1>6, <1>7 DEF ClientInv

\* Every step, and a stutter, keeps the invariant.
LEMMA InvNext == ClientInv /\ [Next]_vars => ClientInv'
<1> SUFFICES ASSUME ClientInv, [Next]_vars PROVE ClientInv'
  OBVIOUS
<1>1. CASE Next
  <2>1. /\ TypeOK /\ StreamInv /\ AttemptInv /\ ShutdownInv /\ PanelInv /\ CaptureInv
        /\ ComingInv /\ Alive /\ Steps
    BY <1>1, NextIsSteps DEF ClientInv
  <2>2. TypeOK'
    BY <2>1, TypeNext
  <2>3. CASE Alive'
    <3>1. StreamInv' /\ AttemptInv' /\ ShutdownInv'
      BY <2>1, <2>3, StreamNext, AttemptNext, ShutdownNext
    <3>2. PanelInv' /\ CaptureInv' /\ ComingInv'
      BY <2>1, <2>3, PanelNext, CaptureNext, ComingNext
    <3>3. QED
      BY <2>2, <2>3, <3>1, <3>2 DEF ClientInv
  <2>4. CASE ~Alive'
    BY <2>1, <2>2, <2>4, GoneNext DEF ClientInv
  <2>5. QED
    BY <2>3, <2>4
<1>2. CASE UNCHANGED vars
  <2>1. TypeOK' <=> TypeOK
    BY <1>2 DEF vars, TypeOK
  <2>2. StreamInv' <=> StreamInv
    BY <1>2
       DEF vars, StreamInv, AllOf, OneVerdict, GotUnits, NoVerdict, Framed, Whole, Live, Ended
  <2>3. /\ Silent' <=> Silent
        /\ HelloUnderWay' <=> HelloUnderWay
        /\ Linked' <=> Linked
        /\ Ended' <=> Ended
    BY <1>2 DEF vars, Silent, HelloUnderWay, NoVerdict, Linked, Ended
  <2>4. AttemptInv' <=> AttemptInv
    BY <1>2, <2>3 DEF vars, AttemptInv
  <2>5. (PanelInv' <=> PanelInv) /\ (ShutdownInv' <=> ShutdownInv)
    BY <1>2, <2>3 DEF vars, PanelInv, ShutdownInv
  <2>6. /\ CaptureInv' <=> CaptureInv
        /\ GoneInv' <=> GoneInv
        /\ Alive' <=> Alive
    BY <1>2 DEF vars, CaptureInv, GoneInv, Alive
  <2>7. ComingInv' <=> ComingInv
    BY <1>2, <2>3 DEF vars, ComingInv
  <2>8. QED
    BY <2>1, <2>2, <2>4, <2>5, <2>6, <2>7 DEF ClientInv
<1>3. QED
  BY <1>1, <1>2

\* ClientInv holds in every state of the client.
THEOREM Invariance == Spec => []ClientInv
  BY InvInit, InvNext, PTL DEF Spec

\* The variables stay in their types: the attempts named by the stream, the queues of
\* writes, closures and shutdowns, and what the panel was told.
THEOREM TypeCorrect == Spec => []TypeOK
<1>1. ClientInv => TypeOK
  BY DEF ClientInv
<1>2. QED
  BY <1>1, Invariance, PTL

\* A retry reads on in the TLS stream of the attempt before it (Client.cpp:279, 546), and
\* still a connected client has shaken hands with the server it is connected to, what it
\* decodes is a whole message of one server, and an answer it acts on is to the attempt it
\* is in: a stream that has once had its answer never gets another one.
THEOREM NoSessionOfEarlierAttempt == Spec => []SessionOfThisAttempt
<1>1. ClientInv => SessionOfThisAttempt
  <2> SUFFICES ASSUME ClientInv PROVE SessionOfThisAttempt
    OBVIOUS
  <2>1. CASE Alive
    <3>1. AttemptInv /\ StreamInv
      BY <2>1 DEF ClientInv
    <3>2. state = "Connected" => tlsWith = tries /\ sock = tries
      <4>1. state = "Connected" => told = "session"
        BY <2>1 DEF ClientInv, PanelInv
      <4>2. QED
        BY <3>1, <4>1 DEF AttemptInv, Linked
    <3>3. ASSUME io = "decode", ~Ended, got >= 2
          PROVE  /\ stream[1].msg \in Messages
                 /\ stream[2] = [msg |-> "rest", of |-> stream[1].of]
                 /\ state = "Connecting" /\ stream[1].msg # "news" => stream[1].of = tries
      <4>1. /\ stream \in Seq(UnitSet) /\ Len(stream) \in Nat /\ DOMAIN stream = 1..Len(stream)
            /\ got \in 0..Len(stream)
        BY LenProperties DEF ClientInv, TypeOK, UnitSet
      <4>2. Live /\ Framed(stream) /\ AllOf(stream, tlsWith) /\ GotUnits(stream, got)
        BY <3>1, <3>3 DEF StreamInv, Live
      <4>3. /\ 1 \in DOMAIN stream /\ 2 \in DOMAIN stream /\ 1 <= got /\ Len(stream) >= 2
            /\ stream[1] \in UnitSet /\ stream[2] \in UnitSet
        BY <3>3, <4>1, ElementOfSeq
      <4>4. stream[1].msg # "bye"
        BY <4>2, <4>3 DEF GotUnits
      <4>5. stream[1].msg \in Messages /\ stream[2].msg = "rest"
        BY <4>1, <4>2, <4>3, <4>4, CutFramed
      <4>6. stream[1].of = tlsWith /\ stream[2].of = tlsWith
        BY <4>2, <4>3 DEF AllOf
      <4>7. stream[2] = [msg |-> "rest", of |-> stream[1].of]
        BY <4>3, <4>5, <4>6 DEF UnitSet
      <4>8. ASSUME state = "Connecting", stream[1].msg # "news" PROVE stream[1].of = tries
        <5>1. IsVerdict(stream[1])
          BY <4>5, <4>8 DEF IsVerdict, Messages
        <5>2. tlsWith = tries
          BY <3>1, <4>2, <4>3, <5>1 DEF StreamInv, NoVerdict
        <5>3. QED
          BY <4>6, <5>2
      <4>9. QED
        BY <4>5, <4>7, <4>8
    <3>4. QED
      BY <3>2, <3>3 DEF SessionOfThisAttempt
  <2>2. CASE ~Alive
    BY <2>2 DEF ClientInv, GoneInv, SessionOfThisAttempt
  <2>3. QED
    BY <2>1, <2>2
<1>2. QED
  BY <1>1, Invariance, PTL

\* The input is captured only in a session, and the thread that captures is joined before
\* the object goes, unless its manager stopped by itself (Client.cpp:376, 882).
THEOREM CaptureEndsWithSession == Spec => []CaptureOnlyInSession
<1>1. ClientInv => CaptureOnlyInSession
  <2> SUFFICES ASSUME ClientInv PROVE CaptureOnlyInSession
    OBVIOUS
  <2>1. CaptureInv /\ (told = "gone" => io = "idle") /\ thread \in {"none", "runs", "ended"}
    BY DEF ClientInv, GoneInv, Alive, TypeOK
  <2>2. told = "gone" => state # "Connected"
    BY DEF ClientInv, GoneInv, Alive
  <2>3. QED
    BY <2>1, <2>2 DEF CaptureInv, CaptureOnlyInSession
<1>2. QED
  BY <1>1, Invariance, PTL

\* A client the panel counts on always has a handler to come that leads on or tells the
\* panel of its end: no path of the callbacks stops in between (Client.cpp:375-417,
\* 537-645).  Fairness adds that the handler does come.
THEOREM SomethingIsComing == Spec => []CallbackIsComing
<1>1. ClientInv => CallbackIsComing
  <2> SUFFICES ASSUME ClientInv, told \in {"waiting", "session"}
               PROVE  IF Ended THEN io = "join" \/ \E i \in DOMAIN shutdowns : shutdowns[i]
                      ELSE op # "none" \/ reading \/ io # "idle"
    BY DEF CallbackIsComing
  <2>1. ComingInv /\ Alive
    BY DEF ClientInv, Alive
  <2>2. shutdowns # <<>> /\ tls = "shut" => \E i \in DOMAIN shutdowns : shutdowns[i]
    BY <2>1, NoticeIs DEF NoticeComing
  <2>3. QED
    BY <2>1, <2>2 DEF ComingInv
<1>2. QED
  BY <1>1, Invariance, PTL

\* Every step of the client is one the contract allows, or none of the panel's business:
\* an attempt is answered at most once, an unadmitted one is no session, a refusal is
\* followed by the notice only if the answer could not be handled (Client.cpp:697-702), no
\* session begins once the notice is on its way, and nothing follows it
\* (FlowPanels.cpp:411-428).  That an attempt is answered, and the notice given, is left to
\* the fairness of FairSpec.
THEOREM StepsKeepContract ==
  Spec => Contract!ConnectionInit /\ [][Contract!ConnectionNext]_(Contract!connectionVars)
<1>1. Init => Contract!ConnectionInit
  <2> SUFFICES ASSUME Init PROVE Contract!ConnectionInit
    OBVIOUS
  <2>1. ClientInv
    BY InvInit
  <2>2. told = "setup" /\ tries = 0 /\ ~NoticeComing /\ op = "none"
    BY DEF Init, NoticeComing
  <2>3. ~(Alive /\ \E i \in DOMAIN shutdowns : shutdowns[i])
    BY <2>1, <2>2, NoticeIs
  <2>4. QED
    BY <2>2, <2>3 DEF Contract!ConnectionInit
<1>2. ClientInv /\ ClientInv' /\ [Next]_vars =>
        [Contract!ConnectionNext]_(Contract!connectionVars)
  <2> SUFFICES ASSUME ClientInv, ClientInv', [Next]_vars
               PROVE  [Contract!ConnectionNext]_(Contract!connectionVars)
    OBVIOUS
  <2>1. /\ (Alive /\ \E i \in DOMAIN shutdowns : shutdowns[i]) <=> NoticeComing
        /\ (Alive /\ \E i \in DOMAIN shutdowns : shutdowns[i])' <=> NoticeComing'
    <3>1. (Alive /\ \E i \in DOMAIN shutdowns : shutdowns[i]) <=> NoticeComing
      BY NoticeIs
    <3>2. (Alive /\ \E i \in DOMAIN shutdowns : shutdowns[i])' <=> NoticeComing'
      BY NoticeIs, PTL
    <3>3. QED
      BY <3>1, <3>2
  <2>2. CASE UNCHANGED vars
    <3>1. UNCHANGED <<told, tries, shutdowns, op, tls, peer, sock>>
      BY <2>2 DEF vars
    <3>2. QED
      BY <3>1 DEF Contract!connectionVars, Alive, CutOff
  <2> USE DEF Contract!ConnectionNext, Contract!connectionVars
  <2>3. CASE Next
    <3>1. Nothing \/ Begins \/ Refused \/ Admitted \/ GivenUp \/ Stalls \/ Notified
      BY <2>3, NextIsSteps, ToldNext
    <3>2. CASE Nothing
      BY <2>1, <3>2 DEF Nothing, Stalled
    <3>3. CASE Begins
      BY <2>1, <3>3 DEF Begins, Stalled, Contract!Begin
    <3>4. CASE Refused
      BY <2>1, <3>4 DEF Refused, Stalled, Contract!Refuse
    <3>5. CASE Admitted
      BY <2>1, <3>5 DEF Admitted, Stalled, Contract!Admit
    <3>6. CASE GivenUp
      BY <2>1, <3>6 DEF GivenUp, Stalled, Contract!GiveUp
    <3>7. CASE Stalls
      BY <2>1, <3>7 DEF Stalls, Stalled, Contract!Stall
    <3>8. CASE Notified
      BY <2>1, <3>8 DEF Notified, Stalled, Alive, Contract!End
    <3>9. QED
      BY <3>1, <3>2, <3>3, <3>4, <3>5, <3>6, <3>7, <3>8
  <2>4. QED
    BY <2>2, <2>3
<1>3. QED
  BY <1>1, <1>2, Invariance, PTL DEF Spec
=============================================================================
