---------------------------- MODULE Server_proofs ----------------------------
(***************************************************************************)
(* Proofs about Server, for any number of clients, any bounds, any names,  *)
(* kinds of message and faults.  The first part: type correctness, that    *)
(* there is one host and its place is held by a session that is still      *)
(* there, that no open session is forgotten, and that each waits for one   *)
(* operation of its own.  The second, what the server tells its clients:   *)
(* nobody hears of others before it has been welcomed, a refused client    *)
(* hears nothing, input comes from somebody known and never back to its    *)
(* sender, and the rosters the clients keep are the server's when all is   *)
(* delivered.                                                              *)
(***************************************************************************)
EXTENDS Server, SequenceTheorems, FiniteSetTheorems, TLAPS

Phases == {"none", "ssl", "up", "closing", "closed"}
Views == [outcome : {"none", "accepted", "refused"}, roster : [Clients -> Entries]]

-----------------------------------------------------------------------------
(* Sequences of queue entries *)

LEMMA HeadAndTail ==
  ASSUME NEW S, NEW s \in Seq(S), s # <<>>
  PROVE  Head(s) \in S /\ Tail(s) \in Seq(S)
  BY HeadTailProperties

LEMMA Joins ==
  ASSUME NEW S, NEW s \in Seq(S), NEW t \in Seq(S)
  PROVE  s \o t \in Seq(S)
  BY ConcatProperties

LEMMA Appends ==
  ASSUME NEW S, NEW s \in Seq(S), NEW e \in S
  PROVE  Append(s, e) \in Seq(S)
  BY AppendProperties

LEMMA Singles == ASSUME NEW S, NEW e \in S
                 PROVE  <<e>> \in Seq(S) /\ <<>> \in Seq(S)
  BY EmptySeq

LEMMA NothingQueued == <<>> \in Seq(QueueEntries)
  BY EmptySeq

\* A close for c is in the queue q; r holds every close that q does.
QueuedIn(q, c) == \E i \in 1..Len(q) : q[i].op = "close" /\ c \in q[i].to
Keeps(q, r) == \A c \in Clients : QueuedIn(q, c) => QueuedIn(r, c)

\* What is added to a queue's end takes no close from it.
LEMMA JoinKeeps ==
  ASSUME NEW q \in Seq(QueueEntries), NEW t \in Seq(QueueEntries), NEW e
  PROVE  Keeps(q, q \o t) /\ Keeps(q, Append(q, e))
<1>1. ASSUME NEW c, QueuedIn(q, c)
      PROVE  QueuedIn(q \o t, c) /\ QueuedIn(Append(q, e), c)
  <2>1. PICK i \in 1..Len(q) : q[i].op = "close" /\ c \in q[i].to
    BY <1>1 DEF QueuedIn
  <2>2. i \in 1..Len(q \o t) /\ (q \o t)[i] = q[i]
    OBVIOUS
  <2>3. i \in 1..Len(Append(q, e)) /\ Append(q, e)[i] = q[i]
    OBVIOUS
  <2>4. QED
    BY <2>1, <2>2, <2>3 DEF QueuedIn
<1>2. QED
  BY <1>1 DEF Keeps

\* Taking the head loses a close only if the head is it.
LEMMA TailKeeps ==
  ASSUME NEW q \in Seq(QueueEntries), q # <<>>, NEW c, QueuedIn(q, c),
         ~(Head(q).op = "close" /\ c \in Head(q).to)
  PROVE  QueuedIn(Tail(q), c)
<1>1. PICK i \in 1..Len(q) : q[i].op = "close" /\ c \in q[i].to
  BY DEF QueuedIn
<1>2. i # 1
  BY <1>1
<1>3. i - 1 \in 1..Len(Tail(q)) /\ Tail(q)[i - 1] = q[i]
  BY <1>2
<1>4. QED
  BY <1>1, <1>3 DEF QueuedIn

LEMMA SendEntryType ==
  ASSUME NEW S \in SUBSET Clients, NEW m \in Messages
  PROVE  Entry("send", S, m) \in QueueEntries
  BY DEF Entry, QueueEntries

LEMMA OtherEntryTypes ==
  ASSUME NEW c \in Clients
  PROVE  /\ Close(c) \in QueueEntries
         /\ Entry("shutdown", {c}, [type |-> "shutdown"]) \in QueueEntries
         /\ StopEntry \in QueueEntries
         /\ \A ok \in BOOLEAN :
              Entry("ssl", {c}, [type |-> "ssl", ok |-> ok]) \in QueueEntries
         /\ \A r \in Requests : Entry("read", {c}, r) \in QueueEntries
  BY DEF Entry, QueueEntries, Close, StopEntry

LEMMA AcceptEntryType ==
  \A ok \in BOOLEAN : Entry("accept", {}, [type |-> "accept", ok |-> ok]) \in QueueEntries
  BY DEF Entry, QueueEntries

\* What send() posts is a queue.
LEMMA SendType ==
  ASSUME NEW S \in SUBSET Clients, NEW m \in Messages
  PROVE  Send(S, m) \in Seq(QueueEntries)
<1> DEFINE live == {c \in S : Active(c)}
<1>1. Entry("send", live, m) \in QueueEntries
  <2>1. live \in SUBSET Clients
    OBVIOUS
  <2>2. QED
    BY <2>1, SendEntryType
<1>2. CASE live = {}
  BY <1>2, NothingQueued DEF Send
<1>3. CASE live # {}
  BY <1>1, <1>3, Singles DEF Send
<1>4. QED
  BY <1>2, <1>3

\* What the head of the queue can be, from its op.
LEMMA HeadOfOp ==
  ASSUME NEW e \in QueueEntries
  PROVE  /\ e.to \in SUBSET Clients
         /\ e.op = "send" => e.arg \in Messages
         /\ e.op = "read" => e.arg \in Requests /\ \E c \in Clients : e.to = {c}
         /\ e.op \in {"accept", "ssl"} => e.arg.ok \in BOOLEAN
         /\ e.op = "close" => \E c \in Clients : e.to = {c}
  BY DEF QueueEntries

LEMMA HeadType ==
  ASSUME TypeOK, ioq # <<>>
  PROVE  /\ Head(ioq) \in QueueEntries
         /\ Tail(ioq) \in Seq(QueueEntries)
  BY HeadAndTail DEF TypeOK

\* The messages the server makes.
LEMMA MessageTypes ==
  /\ \A t \in {"answer", "auth_failed", "fs", "chat", "reply", "host_left",
               "you_were_renamed", "server_shutdown_imminent"} : Plain(t) \in Messages
  /\ \A c \in Clients : /\ LeftMsg(c) \in Messages
                        /\ InputMsg(c) \in Messages
                        /\ \A e \in Entries : JoinedMsg(c, e) \in Messages
                        /\ \A n \in AllNames : RenamedMsg(c, n) \in Messages
  /\ \A f \in [Clients -> Entries] : ListMsg(f) \in Messages
  BY DEF Messages, Plain, LeftMsg, InputMsg, JoinedMsg, RenamedMsg, ListMsg

\* A client's view stays a view, whatever it hears.
LEMMA HearType ==
  ASSUME NEW v \in Views, NEW m \in Messages
  PROVE  Hear(v, m) \in Views
<1>1. /\ v.outcome \in {"none", "accepted", "refused"} /\ v.roster \in [Clients -> Entries]
      /\ v = [outcome |-> v.outcome, roster |-> v.roster]
  BY DEF Views
<1>2. CASE m.type = "joined"
  <2>1. m.who \in Clients /\ m.entry \in Entries
    BY <1>2 DEF Messages
  <2>2. QED
    BY <1>1, <1>2, <2>1 DEF Hear, Views
<1>3. CASE m.type = "list"
  <2>1. m.roster \in [Clients -> Entries]
    BY <1>3 DEF Messages
  <2>2. QED
    BY <1>1, <1>3, <2>1 DEF Hear, Views
<1>4. CASE m.type = "left"
  <2>1. m.who \in Clients /\ Absent \in Entries
    BY <1>4 DEF Messages, Entries
  <2>2. QED
    BY <1>1, <1>4, <2>1 DEF Hear, Views
<1>5. CASE m.type = "renamed"
  <2>1. m.who \in Clients /\ m.name \in AllNames
    BY <1>5 DEF Messages
  <2>2. CASE v.roster[m.who] = Absent
    BY <1>1, <1>5, <2>2 DEF Hear, Views
  <2>3. CASE v.roster[m.who] # Absent
    <3>1. v.roster[m.who] \in [name : AllNames, role : AllRoles]
      BY <1>1, <2>1, <2>3 DEF Entries
    <3>2. [v.roster[m.who] EXCEPT !.name = m.name] \in Entries
      BY <2>1, <3>1 DEF Entries
    <3>3. QED
      BY <1>1, <1>5, <2>1, <2>3, <3>2 DEF Hear, Views
  <2>4. QED
    BY <2>2, <2>3
<1>6. CASE m.type \notin {"joined", "list", "left", "renamed"}
  BY <1>1, <1>6 DEF Hear, Views
<1>7. QED
  BY <1>2, <1>3, <1>4, <1>5, <1>6
-----------------------------------------------------------------------------
(* stop()'s closures *)

\* A finite set has an enumeration, so SetToSeq gives one.
LEMMA EnumerationExists ==
  ASSUME NEW S, IsFiniteSet(S)
  PROVE  SetToSeq(S) \in Seq(S)
<1>1. Cardinality(S) \in Nat /\ ExistsBijection(1..Cardinality(S), S)
  BY FS_CardinalityType
<1>2. PICK f \in Bijection(1..Cardinality(S), S) : TRUE
  BY <1>1 DEF ExistsBijection
<1>3. f \in [1..Cardinality(S) -> S] /\ IsInjective(f)
  BY <1>2 DEF Bijection, Injection, IsInjective
<1>4. SetToSeq(S) \in [1..Cardinality(S) -> S]
  BY <1>3 DEF SetToSeq
<1>5. QED
  BY <1>1, <1>4, SeqDef

LEMMA SessionsFinite ==
  ASSUME BoundsAssumption, NEW S \in SUBSET Clients
  PROVE  IsFiniteSet({Close(c) : c \in S})
<1>1. IsFiniteSet(Clients)
  BY FS_Interval DEF BoundsAssumption, Clients
<1>2. IsFiniteSet(S)
  BY <1>1, FS_Subset
<1> DEFINE f == [c \in S |-> Close(c)]
<1>3. f \in Surjection(S, {Close(c) : c \in S})
  BY DEF Surjection
<1>4. QED
  BY <1>2, <1>3, FS_Surjection

LEMMA ClosesType ==
  ASSUME TypeOK
  PROVE  ClosesOfAll \in Seq(QueueEntries)
<1> DEFINE C == {Close(c) : c \in sessions}
<1>1. sessions \in SUBSET Clients
  BY DEF TypeOK
<1>2. C \subseteq QueueEntries
  BY <1>1, OtherEntryTypes
<1>3. SetToSeq(C) \in Seq(C)
  BY <1>1, BoundsAssumption, SessionsFinite, EnumerationExists
<1>4. SetToSeq(C) \in Seq(QueueEntries)
  BY <1>2, <1>3, SeqDef
<1>5. QED
  BY <1>4 DEF ClosesOfAll
-----------------------------------------------------------------------------
(* Type correctness: the pieces actions are made of *)

LEMMA TypeInit == ASSUME BoundsAssumption PROVE Init => TypeOK
<1> SUFFICES ASSUME Init PROVE TypeOK
  OBVIOUS
<1>1. DefaultName \in AllNames /\ Absent \in Entries
  BY DEF AllNames, Entries
<1>2. view \in [Clients -> Views]
  BY <1>1 DEF Init, Views
<1>3. ioq \in Seq(QueueEntries)
  BY NothingQueued DEF Init
<1>4. /\ requests \in 0..MaxRequests /\ updates \in 0..MaxUpdates
      /\ nextClientId \in 1..MaxClients + 1
  BY DEF Init, BoundsAssumption
<1>5. /\ name \in [Clients -> AllNames]
      /\ role \in [Clients -> AllRoles]
      /\ phase \in [Clients -> Phases]
  BY <1>1 DEF Init, AllRoles, Phases
<1>6. QED
  BY <1>2, <1>3, <1>4, <1>5 DEF Init, TypeOK, Views, Phases

LEMMA ReadyType == TypeOK => ReadySessions \in SUBSET Clients /\ Listeners \in SUBSET Clients
  BY DEF TypeOK, ReadySessions, Listeners, ByRole

\* handleDisconnect() of a client, whatever the queue was.
LEMMA HandleDisconnectType ==
  ASSUME TypeOK, NEW c \in Clients, NEW q \in Seq(QueueEntries), HandleDisconnect(c, q)
  PROVE  /\ hostClientId' \in Clients \union {Nobody}
         /\ sessions' \in SUBSET Clients
         /\ ioq' \in Seq(QueueEntries)
         /\ Keeps(q, ioq')
<1> DEFINE left == IF c = hostClientId THEN Send(ReadySessions, Plain("host_left")) ELSE <<>>
<1>1. Plain("host_left") \in Messages /\ LeftMsg(c) \in Messages
  BY MessageTypes
<1>2. /\ Send(ReadySessions, Plain("host_left")) \in Seq(QueueEntries)
      /\ Send(ReadySessions, LeftMsg(c)) \in Seq(QueueEntries)
  BY <1>1, ReadyType, SendType
<1>3. left \in Seq(QueueEntries)
  BY <1>2, NothingQueued
<1>4. q \o left \in Seq(QueueEntries) /\ Keeps(q, q \o left)
  <2> HIDE DEF left
  <2> QED
    BY <1>3, Joins, JoinKeeps
<1>5. /\ q \o left \o Send(ReadySessions, LeftMsg(c)) \in Seq(QueueEntries)
      /\ Keeps(q, q \o left \o Send(ReadySessions, LeftMsg(c)))
  <2> HIDE DEF left
  <2> QED
    BY <1>2, <1>4, Joins, JoinKeeps DEF Keeps
<1>6. QED
  BY <1>5 DEF HandleDisconnect, TypeOK

\* doClose() likewise.
LEMMA DoCloseType ==
  ASSUME TypeOK, NEW c \in Clients, NEW q \in Seq(QueueEntries), DoClose(c, q)
  PROVE  /\ hostClientId' \in Clients \union {Nobody}
         /\ sessions' \in SUBSET Clients
         /\ ioq' \in Seq(QueueEntries)
         /\ phase' \in [Clients -> Phases]
         /\ ready' \in [Clients -> BOOLEAN]
         /\ pending' \in SUBSET Clients
         /\ Keeps(q, ioq')
<1>1. CASE ~Active(c)
  BY <1>1 DEF DoClose, TypeOK, Phases, Keeps
<1>2. CASE Active(c) /\ phase[c] = "up"
  <2>1. /\ phase' = [phase EXCEPT ![c] = "closing"]
        /\ ready' = [ready EXCEPT ![c] = FALSE]
        /\ pending' = pending \union {c}
        /\ ioq' = q
        /\ UNCHANGED <<hostClientId, sessions>>
    BY <1>2 DEF DoClose
  <2>2. Keeps(q, ioq')
    BY <2>1 DEF Keeps
  <2>3. QED
    BY <2>1, <2>2 DEF TypeOK, Phases
<1>3. CASE Active(c) /\ phase[c] # "up"
  <2>1. HandleDisconnect(c, q)
    BY <1>3 DEF DoClose
  <2>2. /\ phase' = [phase EXCEPT ![c] = "closed"]
        /\ ready' = [ready EXCEPT ![c] = FALSE]
        /\ pending' = pending \ {c}
    BY <1>3 DEF DoClose
  <2>3. /\ phase' \in [Clients -> Phases]
        /\ ready' \in [Clients -> BOOLEAN]
        /\ pending' \in SUBSET Clients
    BY <2>2 DEF TypeOK, Phases
  <2>4. QED
    BY <2>1, <2>3, HandleDisconnectType
<1>4. QED
  BY <1>1, <1>2, <1>3

\* What a client can ask for, by the type of its request.
LEMMA RequestTypes ==
  ASSUME NEW r \in Requests
  PROVE  /\ r.type = "handshake" => r.name \in Names /\ r.role \in Roles
         /\ r.type \in {"kick", "rename", "toggle"} => r.who \in Clients
         /\ r.type = "rename" => r.name \in NewNames
         /\ r.type = "toggle" => r.on \in BOOLEAN
  BY DEF Requests

\* A read at the head of the queue: whose, and what it brought.
LEMMA ReadAtHead ==
  ASSUME TypeOK, ioq # <<>>, Head(ioq).op = "read", NEW c \in Head(ioq).to
  PROVE  c \in Clients /\ Head(ioq).arg \in Requests /\ Tail(ioq) \in Seq(QueueEntries)
  BY HeadType, HeadOfOp

\* A handler of a message keeps the types, if what it posts is a queue.
LEMMA PostsType ==
  ASSUME TypeOK, ioq # <<>>, NEW c \in Clients, NEW q \in Seq(QueueEntries), Posts(c, q),
         UNCHANGED <<registry, hostClientId, updates>>,
         name' \in [Clients -> AllNames], canReceive' \in [Clients -> BOOLEAN]
  PROVE  TypeOK'
<1>1. ioq' \in Seq(QueueEntries)
  BY HeadType, Joins DEF Posts
<1>2. QED
  BY <1>1 DEF Posts, ReadAgain, TypeOK, registry, uiVars

\* processHandshake() that lets c in.
LEMMA WelcomeType ==
  ASSUME TypeOK, RolesAssumption, NEW c \in Clients, NEW r \in Requests,
         r.type = "handshake", ioq # <<>>, Welcome(c, r)
  PROVE  /\ name' \in [Clients -> AllNames]
         /\ role' \in [Clients -> AllRoles]
         /\ hostClientId' \in Clients \union {Nobody}
         /\ ioq' \in Seq(QueueEntries)
         /\ Keeps(Tail(ioq), ioq')
<1> DEFINE e == [name |-> r.name, role |-> Granted(c, r.role)]
           list == [d \in Clients |-> IF d \notin ReadySessions THEN Absent
                                      ELSE IF d = c THEN e
                                      ELSE [name |-> name[d], role |-> role[d]]]
           fs == IF e.role = "Host" THEN <<>> ELSE Send({c}, Plain("fs"))
<1>1. r.name \in AllNames /\ r.role \in AllRoles
  BY RequestTypes, RolesAssumption DEF RolesAssumption, AllNames, AllRoles
<1>2. Granted(c, r.role) \in AllRoles
  BY <1>1 DEF Granted, AllRoles
<1>3. e \in Entries
  BY <1>1, <1>2 DEF Entries
<1>4. \A d \in Clients : [name |-> name[d], role |-> role[d]] \in Entries
  BY DEF TypeOK, Entries
<1>5. list \in [Clients -> Entries]
  <2>1. Absent \in Entries
    BY DEF Entries
  <2>2. \A d \in Clients : list[d] \in Entries
    BY <1>3, <1>4, <2>1
  <2> QED
    BY <2>2
<1>6. /\ Plain("answer") \in Messages /\ Plain("fs") \in Messages
      /\ JoinedMsg(c, e) \in Messages /\ ListMsg(list) \in Messages
  BY <1>3, <1>5, MessageTypes
<1>7. /\ Send({c}, Plain("answer")) \in Seq(QueueEntries)
      /\ Send({c}, Plain("fs")) \in Seq(QueueEntries)
      /\ Send({c}, ListMsg(list)) \in Seq(QueueEntries)
  BY <1>6, SendType
<1>8. Send(ReadySessions \ {c}, JoinedMsg(c, e)) \in Seq(QueueEntries)
  BY <1>6, ReadyType, SendType
<1>9. NotifyClientJoined(c, e, list) \in Seq(QueueEntries)
  BY <1>7, <1>8, Joins DEF NotifyClientJoined
<1>10. fs \in Seq(QueueEntries)
  BY <1>7, NothingQueued
<1>11. Tail(ioq) \in Seq(QueueEntries)
  BY HeadType
<1>12. ASSUME NEW a \in Seq(QueueEntries), NEW b \in Seq(QueueEntries),
              NEW d \in Seq(QueueEntries), ioq' = Tail(ioq) \o a \o b \o d
       PROVE  ioq' \in Seq(QueueEntries) /\ Keeps(Tail(ioq), ioq')
  <2>1. Tail(ioq) \o a \in Seq(QueueEntries) /\ Keeps(Tail(ioq), Tail(ioq) \o a)
    BY <1>11, Joins, JoinKeeps
  <2>2. /\ Tail(ioq) \o a \o b \in Seq(QueueEntries)
        /\ Keeps(Tail(ioq), Tail(ioq) \o a \o b)
    BY <2>1, Joins, JoinKeeps DEF Keeps
  <2>3. QED
    BY <1>12, <2>2, Joins, JoinKeeps DEF Keeps
<1>13. ioq' \in Seq(QueueEntries) /\ Keeps(Tail(ioq), ioq')
  <2>1. ioq' = Tail(ioq) \o Send({c}, Plain("answer")) \o NotifyClientJoined(c, e, list) \o fs
    BY DEF Welcome
  <2> HIDE DEF e, list, fs
  <2>2. QED
    BY <1>7, <1>9, <1>10, <1>12, <2>1
<1>14. /\ name' = [name EXCEPT ![c] = r.name]
       /\ role' = [role EXCEPT ![c] = Granted(c, r.role)]
       /\ hostClientId' \in {c, hostClientId}
  BY DEF Welcome
<1>15. QED
  BY <1>1, <1>2, <1>13, <1>14 DEF TypeOK

LEMMA RefusalType ==
  ASSUME TypeOK, NEW c \in Clients, NEW r \in Requests, ioq # <<>>
  PROVE  Refusal(c, r) \in Seq(QueueEntries) /\ Keeps(Tail(ioq), Refusal(c, r))
<1> DEFINE told == IF r.password = "wrong" THEN Send({c}, Plain("auth_failed")) ELSE <<>>
<1>1. Send({c}, Plain("auth_failed")) \in Seq(QueueEntries)
  BY MessageTypes, SendType
<1>2. told \in Seq(QueueEntries)
  BY <1>1, NothingQueued
<1>3. <<Close(c)>> \in Seq(QueueEntries)
  BY OtherEntryTypes, Singles
<1>4. Tail(ioq) \in Seq(QueueEntries)
  BY HeadType
<1>5. Tail(ioq) \o told \in Seq(QueueEntries) /\ Keeps(Tail(ioq), Tail(ioq) \o told)
  <2> HIDE DEF told
  <2> QED
    BY <1>2, <1>4, Joins, JoinKeeps
<1>6. /\ Tail(ioq) \o told \o <<Close(c)>> \in Seq(QueueEntries)
      /\ Keeps(Tail(ioq), Tail(ioq) \o told \o <<Close(c)>>)
  <2> HIDE DEF told
  <2> QED
    BY <1>3, <1>5, Joins, JoinKeeps DEF Keeps
<1>7. QED
  BY <1>6 DEF Refusal
-----------------------------------------------------------------------------
(* Type correctness: the actions *)

\* What clients ask for is a request.
LEMMA RequestsOfType ==
  ASSUME TypeOK, NEW c \in Clients, NEW r \in RequestsOf(c)
  PROVE  r \in Requests
<1>1. sessions \subseteq Clients
  BY DEF TypeOK
<1>2. \/ r \in [type : {"handshake"}, name : Names, role : Roles,
                password : {"right"} \union ({"wrong", "unparsable"} \intersect Faults)]
      \/ r \in [type : {"error"} \intersect Faults]
      \/ r \in [type : Kinds \intersect {"input", "chat", "query", "upload"}]
      \/ r \in [type : Kinds \intersect {"shutdown"}]
      \/ r \in [type : Kinds \intersect {"kick"}, who : sessions]
      \/ r \in [type : Kinds \intersect {"rename"}, who : sessions, name : NewNames]
      \/ r \in [type : Kinds \intersect {"toggle"}, who : sessions, on : BOOLEAN]
  BY Zenon DEF RequestsOf
<1>3. QED
  BY <1>1, <1>2 DEF Requests

\* What completes joins the queue.
LEMMA TypeCompletes ==
  ASSUME TypeOK, BoundsAssumption, RolesAssumption, Completes
  PROVE  TypeOK'
<1>1. ASSUME NEW e \in QueueEntries, Enqueue(e)
      PROVE  ioq' \in Seq(QueueEntries)
  BY <1>1, Appends DEF Enqueue, TypeOK
<1>2. CASE AcceptCompletes
  <2>1. PICK ok \in Outcomes("accept") :
          Enqueue(Entry("accept", {}, [type |-> "accept", ok |-> ok]))
    BY <1>2 DEF AcceptCompletes
  <2>2. ok \in BOOLEAN
    BY <2>1 DEF Outcomes
  <2>3. ioq' \in Seq(QueueEntries)
    BY <1>1, <2>1, <2>2, AcceptEntryType
  <2>4. QED
    BY <1>2, <2>3 DEF AcceptCompletes, TypeOK, attributes, uiVars
<1>3. ASSUME NEW c \in Clients, ReadCompletes(c)
      PROVE  TypeOK'
  <2>1. PICK r \in RequestsOf(c) : Enqueue(Entry("read", {c}, r))
    BY <1>3 DEF ReadCompletes
  <2>2. r \in Requests
    BY <2>1, RequestsOfType
  <2>3. ioq' \in Seq(QueueEntries)
    BY <1>1, <2>1, <2>2, OtherEntryTypes
  <2>4. requests' \in 0..MaxRequests
    BY <1>3, BoundsAssumption DEF ReadCompletes, TypeOK, BoundsAssumption
  <2>5. QED
    BY <1>3, <2>3, <2>4 DEF ReadCompletes, TypeOK, registry, attributes, uiVars
<1>4. ASSUME NEW c \in Clients, SslHandshakeCompletes(c)
      PROVE  TypeOK'
  <2>1. PICK ok \in Outcomes("ssl") :
          Enqueue(Entry("ssl", {c}, [type |-> "ssl", ok |-> ok]))
    BY <1>4 DEF SslHandshakeCompletes
  <2>2. ok \in BOOLEAN
    BY <2>1 DEF Outcomes
  <2>3. ioq' \in Seq(QueueEntries)
    BY <1>1, <2>1, <2>2, OtherEntryTypes
  <2>4. QED
    BY <1>4, <2>3 DEF SslHandshakeCompletes, TypeOK, registry, attributes, uiVars
<1>5. ASSUME NEW c \in Clients, ShutdownCompletes(c)
      PROVE  TypeOK'
  <2>1. ioq' \in Seq(QueueEntries)
    BY <1>1, <1>5, OtherEntryTypes DEF ShutdownCompletes
  <2>2. QED
    BY <1>5, <2>1 DEF ShutdownCompletes, TypeOK, registry, attributes, uiVars
<1>6. QED
  BY <1>2, <1>3, <1>4, <1>5 DEF Completes

LEMMA TypeUIThread ==
  ASSUME TypeOK, BoundsAssumption, UIThread
  PROVE  TypeOK'
<1>1. CASE Start
  <2>1. serverState' \in {"Running", "Error"} /\ acceptor' \in {"armed", acceptor}
    BY <1>1 DEF Start
  <2>2. QED
    BY <1>1, <2>1 DEF Start, TypeOK, attributes, uiVars
<1>2. CASE UpdateBegins
  <2>1. updates' \in 0..MaxUpdates /\ uiLeft' \in SUBSET Clients
    BY <1>2, ReadyType DEF UpdateBegins, TypeOK, BoundsAssumption
  <2>2. QED
    BY <1>2, <2>1 DEF UpdateBegins, TypeOK, registry, attributes
<1>3. ASSUME NEW c \in Clients, UpdateSent(c)
      PROVE  TypeOK'
  <2>1. Send({c}, Plain("fs")) \in Seq(QueueEntries)
    BY MessageTypes, SendType
  <2>2. ioq' \in Seq(QueueEntries)
    BY <1>3, <2>1, Joins DEF UpdateSent, TypeOK
  <2>3. QED
    BY <1>3, <2>2 DEF UpdateSent, TypeOK, registry, attributes
<1>4. QED
  BY <1>1, <1>2, <1>3 DEF UIThread

\* The io thread's own entries: closures and the completions that bring no message.
LEMMA TypeRunClosures ==
  ASSUME TypeOK, BoundsAssumption,
         RunAccept \/ RunSsl \/ RunShutdown \/ RunSend \/ RunClose \/ RunStop
  PROVE  TypeOK'
<1>1. ioq # <<>>
  BY DEF RunAccept, RunSsl, RunShutdown, RunSend, RunClose, RunStop, Takes
<1>2. /\ Head(ioq) \in QueueEntries
      /\ Tail(ioq) \in Seq(QueueEntries)
  BY <1>1, HeadType
<1>3. Head(ioq).to \in SUBSET Clients
  BY <1>2, HeadOfOp
<1>4. CASE RunAccept
  <2>1. ioq' \in Seq(QueueEntries)
    BY <1>2, <1>4 DEF RunAccept
  <2>2. acceptor' \in {"open", "armed", "closed"}
    BY <1>4 DEF RunAccept, TypeOK
  <2>3. CASE Head(ioq).arg.ok /\ nextClientId <= MaxClients
    <3>1. nextClientId \in Clients /\ nextClientId + 1 \in 1..MaxClients + 1
      BY <2>3 DEF TypeOK, Clients, BoundsAssumption
    <3>2. /\ nextClientId' = nextClientId + 1
          /\ sessions' = sessions \union {nextClientId}
          /\ phase' = [phase EXCEPT ![nextClientId] = "ssl"]
          /\ pending' = pending \union {nextClientId}
      BY <1>4, <2>3 DEF RunAccept
    <3>3. QED
      BY <1>4, <2>1, <2>2, <3>1, <3>2 DEF RunAccept, TypeOK, attributes, uiVars
  <2>4. CASE ~(Head(ioq).arg.ok /\ nextClientId <= MaxClients)
    <3>1. UNCHANGED <<nextClientId, sessions, phase, pending>>
      BY <1>4, <2>4 DEF RunAccept
    <3>2. QED
      BY <1>4, <2>1, <2>2, <3>1 DEF RunAccept, TypeOK, attributes, uiVars
  <2>5. QED
    BY <2>3, <2>4
<1>5. CASE RunSsl
  <2>1. PICK c \in Head(ioq).to :
          IF Active(c) /\ Head(ioq).arg.ok
          THEN /\ phase' = [phase EXCEPT ![c] = "up"]
               /\ pending' = pending \union {c}
               /\ ioq' = Tail(ioq)
               /\ UNCHANGED <<ready, hostClientId, sessions>>
          ELSE DoClose(c, Tail(ioq))
    BY <1>5 DEF RunSsl
  <2>2. c \in Clients
    BY <1>3
  <2>3. CASE Active(c) /\ Head(ioq).arg.ok
    <3>1. /\ phase' = [phase EXCEPT ![c] = "up"]
          /\ pending' = pending \union {c}
          /\ ioq' = Tail(ioq)
          /\ UNCHANGED <<ready, hostClientId, sessions>>
      BY <2>1, <2>3
    <3>2. QED
      BY <1>2, <1>5, <2>2, <3>1 DEF RunSsl, TypeOK, registry, attributes, uiVars
  <2>4. CASE ~(Active(c) /\ Head(ioq).arg.ok)
    <3>1. DoClose(c, Tail(ioq))
      BY <2>1, <2>4
    <3>2. QED
      BY <1>2, <1>5, <2>2, <3>1, DoCloseType DEF RunSsl, TypeOK, Phases, registry, attributes, uiVars
  <2>5. QED
    BY <2>3, <2>4
<1>6. CASE RunShutdown
  <2>1. PICK c \in Head(ioq).to : /\ phase' = [phase EXCEPT ![c] = "closed"]
                                  /\ HandleDisconnect(c, Tail(ioq))
    BY <1>6 DEF RunShutdown
  <2>2. c \in Clients
    BY <1>3
  <2>3. QED
    BY <1>2, <1>6, <2>1, <2>2, HandleDisconnectType
       DEF RunShutdown, TypeOK, Phases, registry, attributes, uiVars
<1>7. CASE RunSend
  <2>1. Head(ioq).arg \in Messages
    BY <1>2, <1>7, HeadOfOp DEF RunSend, Takes
  <2>2. view \in [Clients -> Views]
    BY DEF TypeOK, Views
  <2>3. \A c \in Clients : Hear(view[c], Head(ioq).arg) \in Views
    BY <2>1, <2>2, HearType
  <2>4. view' \in [Clients -> Views]
    BY <1>7, <2>2, <2>3 DEF RunSend
  <2>5. ioq' \in Seq(QueueEntries)
    BY <1>2, <1>7 DEF RunSend
  <2>6. QED
    BY <1>7, <2>4, <2>5 DEF RunSend, TypeOK, Views, registry, attributes, uiVars
<1>8. CASE RunClose
  <2>1. PICK c \in Head(ioq).to : DoClose(c, Tail(ioq))
    BY <1>8 DEF RunClose
  <2>2. c \in Clients
    BY <1>3
  <2>3. QED
    BY <1>2, <1>8, <2>1, <2>2, DoCloseType
       DEF RunClose, TypeOK, Phases, registry, attributes, uiVars
<1>9. CASE RunStop
  <2>1. Tail(ioq) \o ClosesOfAll \in Seq(QueueEntries)
    BY <1>2, ClosesType, Joins
  <2>2. /\ ioq' \in {Tail(ioq), Tail(ioq) \o ClosesOfAll}
        /\ sessions' \in {{}, sessions}
        /\ serverState' \in {"Stopped", serverState}
        /\ acceptor' \in {"closed", acceptor}
    BY <1>9 DEF RunStop
  <2>3. QED
    BY <1>2, <1>9, <2>1, <2>2 DEF RunStop, TypeOK, attributes, uiVars
<1>10. QED
  BY <1>4, <1>5, <1>6, <1>7, <1>8, <1>9

\* The two halves of a handshake.
LEMMA TypeHandshake ==
  ASSUME TypeOK, RolesAssumption, RunReadHandshake \/ ProcessHandshake,
         handling => ioq # <<>> /\ Head(ioq).op = "read" /\ Head(ioq).arg.type = "handshake"
  PROVE  TypeOK'
<1>1. CASE RunReadHandshake
  <2>1. PICK c \in Head(ioq).to : ready' = [ready EXCEPT ![c] = TRUE]
    BY <1>1 DEF RunReadHandshake
  <2>2. QED
    BY <1>1, <2>1 DEF RunReadHandshake, TypeOK, registry, attributes, uiVars
<1>2. CASE ProcessHandshake
  <2>1. ioq # <<>> /\ Head(ioq).op = "read" /\ Head(ioq).arg.type = "handshake"
    BY <1>2 DEF ProcessHandshake
  <2>2. PICK c \in Head(ioq).to :
          /\ IF Head(ioq).arg.password = "right"
             THEN Welcome(c, Head(ioq).arg)
             ELSE ioq' = Refusal(c, Head(ioq).arg) /\ UNCHANGED <<name, role, hostClientId>>
          /\ ReadAgain(c)
    BY <1>2 DEF ProcessHandshake
  <2>3. c \in Clients /\ Head(ioq).arg \in Requests
    BY <2>1, <2>2, ReadAtHead
  <2>4. /\ name' \in [Clients -> AllNames]
        /\ role' \in [Clients -> AllRoles]
        /\ hostClientId' \in Clients \union {Nobody}
        /\ ioq' \in Seq(QueueEntries)
    <3>1. CASE Head(ioq).arg.password = "right"
      BY <2>1, <2>2, <2>3, <3>1, WelcomeType
    <3>2. CASE Head(ioq).arg.password # "right"
      <4>1. ioq' = Refusal(c, Head(ioq).arg) /\ UNCHANGED <<name, role, hostClientId>>
        BY <2>2, <3>2
      <4>2. QED
        BY <2>1, <2>3, <4>1, RefusalType DEF TypeOK
    <3>3. QED
      BY <3>1, <3>2
  <2>5. pending' \in SUBSET Clients /\ handling' \in BOOLEAN
    BY <1>2, <2>2, <2>3 DEF ReadAgain, TypeOK, ProcessHandshake
  <2>6. QED
    BY <1>2, <2>4, <2>5 DEF ProcessHandshake, TypeOK, registry, uiVars
<1>3. QED
  BY <1>1, <1>2

LEMMA TypeReadError ==
  ASSUME TypeOK, RunReadError
  PROVE  TypeOK'
<1>1. PICK c \in Head(ioq).to : DoClose(c, Tail(ioq))
  BY DEF RunReadError
<1>2. c \in Clients /\ Tail(ioq) \in Seq(QueueEntries)
  BY <1>1, ReadAtHead DEF RunReadError, Takes
<1>3. QED
  BY <1>1, <1>2, DoCloseType DEF RunReadError, TypeOK, Phases, registry, attributes, uiVars

\* A message of a client that has been let in.
Message(c) ==
  \/ RunInput(c) \/ RunOther(c) \/ RunShutdownCommand(c)
  \/ RunKick(c) \/ RunRename(c) \/ RunToggle(c)

LEMMA MessageAtHead ==
  ASSUME TypeOK, NEW c \in Clients, Message(c)
  PROVE  /\ ioq # <<>> /\ Head(ioq).op = "read" /\ c \in Head(ioq).to /\ ~handling
         /\ Head(ioq).arg \in Requests
<1>1. ioq # <<>> /\ Head(ioq).op = "read" /\ c \in Head(ioq).to /\ ~handling
  BY DEF Message, RunInput, RunOther, RunShutdownCommand, RunKick, RunRename, RunToggle,
         HostCommand, Gets, Takes
<1>2. QED
  BY <1>1, ReadAtHead

LEMMA RenameAsked ==
  ASSUME TypeOK, NEW c \in Clients, RunRename(c)
  PROVE  Head(ioq).arg.who \in Clients /\ Head(ioq).arg.name \in AllNames
<1>1. Head(ioq).arg.type = "rename"
  BY DEF RunRename, HostCommand, Gets
<1>2. QED
  BY <1>1, MessageAtHead, RequestTypes DEF Message, AllNames

\* Its handler posts entries of the queue.
LEMMA MessagePosts ==
  ASSUME TypeOK, NEW c \in Clients, Message(c)
  PROVE  \E q \in Seq(QueueEntries) : Posts(c, q)
<1> DEFINE r == Head(ioq).arg
<1>1. CASE RunInput(c)
  <2>1. Send(Listeners, InputMsg(c)) \in Seq(QueueEntries)
    BY MessageTypes, ReadyType, SendType
  <2>2. QED
    BY <1>1, <2>1, NothingQueued DEF RunInput
<1>2. CASE RunOther(c)
  <2>1. /\ Send(ReadySessions, Plain("chat")) \in Seq(QueueEntries)
        /\ Send({c}, Plain("reply")) \in Seq(QueueEntries)
        /\ Send(ReadySessions, Plain("fs")) \in Seq(QueueEntries)
    BY MessageTypes, ReadyType, SendType
  <2>2. QED
    BY <1>2, <2>1, NothingQueued DEF RunOther
<1>3. CASE RunShutdownCommand(c)
  <2>1. /\ Send(ReadySessions, Plain("server_shutdown_imminent")) \in Seq(QueueEntries)
        /\ <<StopEntry>> \in Seq(QueueEntries)
    <3>1. StopEntry \in QueueEntries
      BY OtherEntryTypes
    <3>2. QED
      BY <3>1, MessageTypes, ReadyType, SendType, Singles
  <2>2. Send(ReadySessions, Plain("server_shutdown_imminent")) \o <<StopEntry>>
          \in Seq(QueueEntries)
    BY <2>1, Joins
  <2>3. QED
    BY <1>3, <2>2 DEF RunShutdownCommand
<1>4. CASE RunKick(c)
  <2>1. r.type = "kick"
    BY <1>4 DEF RunKick, HostCommand, Gets
  <2>2. <<Close(r.who)>> \in Seq(QueueEntries)
    <3>1. r.who \in Clients
      BY <2>1, MessageAtHead, RequestTypes
    <3>2. QED
      BY <3>1, OtherEntryTypes, Singles
  <2>3. QED
    BY <1>4, <2>2, NothingQueued DEF RunKick
<1>5. CASE RunRename(c)
  <2>1. r.who \in Clients /\ r.name \in AllNames
    BY <1>5, RenameAsked
  <2>2. /\ Send({r.who}, Plain("you_were_renamed")) \in Seq(QueueEntries)
        /\ Send(ReadySessions, RenamedMsg(r.who, r.name)) \in Seq(QueueEntries)
    BY <2>1, MessageTypes, ReadyType, SendType
  <2>3. AnnounceRename(r.who, r.name) \in Seq(QueueEntries)
    BY <2>2, Joins DEF AnnounceRename
  <2>4. QED
    BY <1>5, <2>3, NothingQueued DEF RunRename
<1>6. CASE RunToggle(c)
  BY <1>6, NothingQueued DEF RunToggle
<1>7. QED
  BY <1>1, <1>2, <1>3, <1>4, <1>5, <1>6 DEF Message

LEMMA TypeMessage ==
  ASSUME TypeOK, NEW c \in Clients, Message(c)
  PROVE  TypeOK'
<1> DEFINE r == Head(ioq).arg
<1>1. /\ name \in [Clients -> AllNames]
      /\ canReceive \in [Clients -> BOOLEAN]
  BY DEF TypeOK
<1>2. name' \in [Clients -> AllNames]
  <2>1. CASE RunRename(c)
    <3>1. name' \in {[name EXCEPT ![r.who] = r.name], name}
      BY <2>1 DEF RunRename
    <3>2. QED
      BY <1>1, <2>1, <3>1, RenameAsked
  <2>2. CASE ~RunRename(c)
    BY <1>1, <2>2 DEF Message, RunInput, RunOther, RunShutdownCommand, RunKick, RunToggle
  <2>3. QED
    BY <2>1, <2>2
<1>3. canReceive' \in [Clients -> BOOLEAN]
  <2>1. CASE RunToggle(c)
    <3>1. r.type = "toggle"
      BY <2>1 DEF RunToggle, HostCommand, Gets
    <3>2. r.on \in BOOLEAN
      BY <3>1, MessageAtHead, RequestTypes
    <3>3. canReceive' \in {[canReceive EXCEPT ![r.who] = r.on], canReceive}
      BY <2>1 DEF RunToggle
    <3>4. QED
      BY <1>1, <3>2, <3>3
  <2>2. CASE ~RunToggle(c)
    BY <1>1, <2>2 DEF Message, RunInput, RunOther, RunShutdownCommand, RunKick, RunRename
  <2>3. QED
    BY <2>1, <2>2
<1>4. PICK q \in Seq(QueueEntries) : Posts(c, q)
  BY MessagePosts
<1>5. UNCHANGED <<registry, hostClientId, updates>>
  BY <1>4 DEF Posts, uiVars
<1>6. QED
  BY <1>2, <1>3, <1>4, <1>5, MessageAtHead, PostsType
-----------------------------------------------------------------------------
(* The inductive invariant.  TypeOK needs to know what processHandshake() is  *)
(* working on; OneHost that a session not yet up has asked for no role.       *)

\* While the io thread is in processHandshake() the queue's head is the handshake, and
\* the session it came from is open: only the io thread closes sessions.
InHandshake ==
  handling => /\ ioq # <<>>
              /\ Head(ioq).op = "read"
              /\ Head(ioq).arg.type = "handshake"
              /\ \A c \in Head(ioq).to : phase[c] = "up"

\* A session that has not finished TLS, or does not exist, has the role it starts with.
NotYetUp ==
  \A c \in Clients :
    /\ c >= nextClientId => phase[c] \in {"none", "closed"}
    /\ phase[c] = "ssl" \/ c >= nextClientId => role[c] = "Receiver"

HostParts == NotYetUp /\ OneHost /\ HostIsOpen
ServerInv == TypeOK /\ InHandshake /\ HostParts

\* Roles and phases that do not change keep the host.
LEMMA HostUnchanged ==
  ASSUME HostParts, UNCHANGED <<phase, role, hostClientId, nextClientId>>
  PROVE  HostParts'
  BY DEF HostParts, NotYetUp, OneHost, HostIsOpen

\* A session that ends: if it was the host's, nobody is the host.
LEMMA HostDisconnect ==
  ASSUME TypeOK, HostParts, NEW c \in Clients, NEW q, HandleDisconnect(c, q),
         phase' = [phase EXCEPT ![c] = "closed"], UNCHANGED <<role, nextClientId>>
  PROVE  HostParts'
<1>1. hostClientId' = IF c = hostClientId THEN Nobody ELSE hostClientId
  BY DEF HandleDisconnect
<1>2. /\ phase'[c] = "closed"
      /\ \A d \in Clients \ {c} : phase'[d] = phase[d]
  BY DEF TypeOK
<1>3. NotYetUp'
  BY <1>2 DEF HostParts, NotYetUp
<1>4. OneHost'
  BY <1>1, <1>2 DEF HostParts, OneHost
<1>5. HostIsOpen'
  BY <1>1, <1>2 DEF HostParts, HostIsOpen, TypeOK
<1>6. QED
  BY <1>3, <1>4, <1>5 DEF HostParts

LEMMA HostDoClose ==
  ASSUME TypeOK, HostParts, NEW c \in Clients, NEW q, DoClose(c, q),
         UNCHANGED <<role, nextClientId>>
  PROVE  HostParts'
<1>1. CASE ~Active(c)
  BY <1>1, HostUnchanged DEF DoClose
<1>2. CASE Active(c) /\ phase[c] = "up"
  <2>1. phase' = [phase EXCEPT ![c] = "closing"] /\ hostClientId' = hostClientId
    BY <1>2 DEF DoClose
  <2>2. /\ phase'[c] = "closing"
        /\ \A d \in Clients \ {c} : phase'[d] = phase[d]
    BY <2>1 DEF TypeOK
  <2>3. NotYetUp'
    BY <1>2, <2>2 DEF HostParts, NotYetUp
  <2>4. OneHost'
    BY <1>2, <2>1, <2>2 DEF HostParts, OneHost
  <2>5. HostIsOpen'
    BY <1>2, <2>1, <2>2 DEF HostParts, HostIsOpen, TypeOK
  <2>6. QED
    BY <2>3, <2>4, <2>5 DEF HostParts
<1>3. CASE Active(c) /\ phase[c] # "up"
  <2>1. HandleDisconnect(c, q) /\ phase' = [phase EXCEPT ![c] = "closed"]
    BY <1>3 DEF DoClose
  <2>2. QED
    BY <2>1, HostDisconnect
<1>4. QED
  BY <1>1, <1>2, <1>3

\* processHandshake() gives the host's role only where nobody else has the place.
LEMMA HostWelcome ==
  ASSUME TypeOK, HostParts, NEW c \in Clients, NEW r, Welcome(c, r), phase[c] = "up",
         UNCHANGED <<phase, nextClientId>>
  PROVE  HostParts'
<1>1. /\ role' = [role EXCEPT ![c] = Granted(c, r.role)]
      /\ hostClientId' = IF Designated(c, r.role) THEN c ELSE hostClientId
  BY DEF Welcome
<1>2. Granted(c, r.role) = "Host" <=> Designated(c, r.role)
  BY DEF Granted, Designated
<1>3. /\ role'[c] = Granted(c, r.role)
      /\ \A d \in Clients \ {c} : role'[d] = role[d]
  BY <1>1 DEF TypeOK
<1>4. NotYetUp'
  <2>1. ~(c >= nextClientId)
    BY DEF HostParts, NotYetUp
  <2>2. QED
    BY <1>3, <2>1 DEF HostParts, NotYetUp
<1>5. OneHost'
  <2>1. \A d \in Clients : d # Nobody
    BY DEF Clients, Nobody
  <2>2. CASE Designated(c, r.role)
    <3>1. hostClientId \in {Nobody, c} /\ hostClientId' = c
      BY <1>1, <2>2 DEF Designated
    <3>2. QED
      BY <1>3, <2>1, <3>1 DEF HostParts, OneHost
  <2>3. CASE ~Designated(c, r.role)
    <3>1. role'[c] # "Host" /\ hostClientId' = hostClientId
      BY <1>1, <1>2, <1>3, <2>3
    <3>2. QED
      BY <1>3, <3>1 DEF HostParts, OneHost
  <2>4. QED
    BY <2>2, <2>3
<1>6. HostIsOpen'
  BY <1>1 DEF HostParts, HostIsOpen
<1>7. QED
  BY <1>4, <1>5, <1>6 DEF HostParts

LEMMA HeadKept ==
  ASSUME NEW S, NEW s \in Seq(S), s # <<>>, NEW t \in Seq(S), NEW e
  PROVE  /\ s \o t # <<>> /\ Head(s \o t) = Head(s)
         /\ Append(s, e) # <<>> /\ Head(Append(s, e)) = Head(s)
<1>1. Len(s) > 0 /\ Len(t) \in Nat
  BY EmptySeq, LenProperties
<1>2. QED
  BY <1>1

LEMMA ServerInit == ASSUME BoundsAssumption PROVE Init => ServerInv
<1> SUFFICES ASSUME Init PROVE ServerInv
  OBVIOUS
<1>1. TypeOK
  BY TypeInit
<1>2. InHandshake
  BY DEF Init, InHandshake
<1>3. HostParts
  BY DEF Init, HostParts, NotYetUp, OneHost, HostIsOpen, Nobody
<1>4. QED
  BY <1>1, <1>2, <1>3 DEF ServerInv

\* The others only append to the queue.
LEMMA OthersAppend ==
  ASSUME TypeOK, Completes \/ UIThread
  PROVE  \/ \E e : ioq' = Append(ioq, e)
         \/ \E q \in Seq(QueueEntries) : ioq' = ioq \o q
<1>1. \A c \in Clients : Send({c}, Plain("fs")) \in Seq(QueueEntries)
  BY MessageTypes, SendType
<1>2. CASE Completes
  BY <1>2 DEF Completes, AcceptCompletes, ReadCompletes, SslHandshakeCompletes,
              ShutdownCompletes, Enqueue
<1>3. CASE Start \/ UpdateBegins
  <2>1. ioq' = ioq
    BY <1>3 DEF Start, UpdateBegins
  <2>2. ioq \o <<>> = ioq
    BY DEF TypeOK
  <2>3. QED
    BY <2>1, <2>2, NothingQueued
<1>4. CASE \E c \in Clients : UpdateSent(c)
  BY <1>1, <1>4 DEF UpdateSent
<1>5. QED
  BY <1>2, <1>3, <1>4 DEF UIThread

\* What the io thread works on stays where it is.
LEMMA ServerOthers ==
  ASSUME ServerInv, BoundsAssumption, RolesAssumption, Completes \/ UIThread
  PROVE  ServerInv'
<1>1. TypeOK'
  BY TypeCompletes, TypeUIThread DEF ServerInv
<1>2. UNCHANGED <<phase, role, hostClientId, nextClientId, handling>>
  BY DEF Completes, UIThread, AcceptCompletes, ReadCompletes, SslHandshakeCompletes,
         ShutdownCompletes, Start, UpdateBegins, UpdateSent, registry, attributes
<1>3. HostParts'
  BY <1>2, HostUnchanged DEF ServerInv
<1>4. \/ \E e : ioq' = Append(ioq, e)
      \/ \E q \in Seq(QueueEntries) : ioq' = ioq \o q
  BY OthersAppend DEF ServerInv
<1>5. InHandshake'
  <2>1. SUFFICES ASSUME handling PROVE InHandshake'
    BY <1>2 DEF InHandshake
  <2>2. ioq \in Seq(QueueEntries) /\ ioq # <<>>
    BY <2>1 DEF ServerInv, InHandshake, TypeOK
  <2>3. ioq' # <<>> /\ Head(ioq') = Head(ioq)
    BY <1>4, <2>2, HeadKept, NothingQueued
  <2>4. QED
    BY <1>2, <2>1, <2>3 DEF ServerInv, InHandshake
<1>6. QED
  BY <1>1, <1>3, <1>5 DEF ServerInv

\* The io thread.
LEMMA ServerIoThread ==
  ASSUME ServerInv, BoundsAssumption, RolesAssumption, RunHead
  PROVE  ServerInv'
<1>1. TypeOK /\ HostParts /\ InHandshake
  BY DEF ServerInv
<1>2. CASE RunAccept \/ RunSsl \/ RunShutdown \/ RunSend \/ RunClose \/ RunStop
  <2>1. TypeOK'
    BY <1>1, <1>2, TypeRunClosures
  <2>2. ~handling' /\ ioq # <<>>
    BY <1>2 DEF RunAccept, RunSsl, RunShutdown, RunSend, RunClose, RunStop, Takes
  <2>3. Head(ioq).to \in SUBSET Clients
    BY <1>1, <2>2, HeadType, HeadOfOp
  <2>4. CASE RunAccept
    <3>1. UNCHANGED <<role, hostClientId>>
      BY <2>4 DEF RunAccept, attributes
    <3>2. CASE Head(ioq).arg.ok /\ nextClientId <= MaxClients
      <4>1. nextClientId \in Clients /\ nextClientId \in Nat
        BY <1>1, <3>2 DEF TypeOK, Clients, BoundsAssumption
      <4>2. /\ nextClientId' = nextClientId + 1
            /\ phase' = [phase EXCEPT ![nextClientId] = "ssl"]
        BY <2>4, <3>2 DEF RunAccept
      <4>3. /\ phase'[nextClientId] = "ssl"
            /\ \A d \in Clients \ {nextClientId} : phase'[d] = phase[d]
        BY <1>1, <4>1, <4>2 DEF TypeOK
      <4>4. \A d \in Clients : d >= nextClientId + 1 => d >= nextClientId /\ d # nextClientId
        BY <4>1 DEF Clients
      <4>5. role[nextClientId] = "Receiver" /\ phase[nextClientId] \in {"none", "closed"}
        <5>1. nextClientId >= nextClientId
          BY <4>1
        <5>2. QED
          BY <1>1, <4>1, <5>1 DEF HostParts, NotYetUp
      <4>6. NotYetUp'
        BY <1>1, <3>1, <4>2, <4>3, <4>4, <4>5 DEF HostParts, NotYetUp
      <4>7. OneHost'
        BY <1>1, <3>1, <4>3 DEF HostParts, OneHost
      <4>8. HostIsOpen'
        BY <1>1, <3>1, <4>3, <4>5 DEF HostParts, HostIsOpen, TypeOK
      <4>9. QED
        BY <2>1, <2>2, <4>6, <4>7, <4>8 DEF ServerInv, InHandshake, HostParts
    <3>3. CASE ~(Head(ioq).arg.ok /\ nextClientId <= MaxClients)
      <4>1. UNCHANGED <<phase, nextClientId>>
        BY <2>4, <3>3 DEF RunAccept
      <4>2. QED
        BY <1>1, <2>1, <2>2, <3>1, <4>1, HostUnchanged DEF ServerInv, InHandshake
    <3>4. QED
      BY <3>2, <3>3
  <2>5. CASE RunSsl
    <3>1. UNCHANGED <<role, nextClientId>>
      BY <2>5 DEF RunSsl, attributes, registry
    <3>2. PICK c \in Head(ioq).to :
            \/ /\ Active(c)
               /\ phase' = [phase EXCEPT ![c] = "up"]
               /\ hostClientId' = hostClientId
            \/ DoClose(c, Tail(ioq))
      BY <2>5 DEF RunSsl
    <3>3. c \in Clients
      BY <2>3
    <3>4. CASE DoClose(c, Tail(ioq))
      BY <1>1, <2>1, <2>2, <3>1, <3>3, <3>4, HostDoClose DEF ServerInv, InHandshake
    <3>5. CASE Active(c) /\ phase' = [phase EXCEPT ![c] = "up"] /\ hostClientId' = hostClientId
      <4>1. /\ phase'[c] = "up"
            /\ \A d \in Clients \ {c} : phase'[d] = phase[d]
        BY <1>1, <3>3, <3>5 DEF TypeOK
      <4>2. ~(c >= nextClientId) /\ phase[c] \in {"ssl", "up"}
        BY <1>1, <3>3, <3>5 DEF HostParts, NotYetUp, Active
      <4>3. NotYetUp'
        BY <1>1, <3>1, <4>1, <4>2 DEF HostParts, NotYetUp
      <4>4. OneHost'
        BY <1>1, <3>1, <3>5, <4>1, <4>2 DEF HostParts, OneHost, NotYetUp
      <4>5. HostIsOpen'
        BY <1>1, <3>3, <3>5, <4>1 DEF HostParts, HostIsOpen, TypeOK
      <4>6. QED
        BY <2>1, <2>2, <4>3, <4>4, <4>5 DEF ServerInv, InHandshake, HostParts
    <3>6. QED
      BY <3>2, <3>4, <3>5
  <2>6. CASE RunShutdown
    <3>1. UNCHANGED <<role, nextClientId>>
      BY <2>6 DEF RunShutdown, attributes, registry
    <3>2. PICK c \in Head(ioq).to : /\ phase' = [phase EXCEPT ![c] = "closed"]
                                    /\ HandleDisconnect(c, Tail(ioq))
      BY <2>6 DEF RunShutdown
    <3>3. QED
      BY <1>1, <2>1, <2>2, <2>3, <3>1, <3>2, HostDisconnect DEF ServerInv, InHandshake
  <2>7. CASE RunClose
    <3>1. UNCHANGED <<role, nextClientId>>
      BY <2>7 DEF RunClose, attributes, registry
    <3>2. PICK c \in Head(ioq).to : DoClose(c, Tail(ioq))
      BY <2>7 DEF RunClose
    <3>3. QED
      BY <1>1, <2>1, <2>2, <2>3, <3>1, <3>2, HostDoClose DEF ServerInv, InHandshake
  <2>8. CASE RunSend \/ RunStop
    <3>1. UNCHANGED <<phase, role, hostClientId, nextClientId>>
      BY <2>8 DEF RunSend, RunStop, attributes, registry
    <3>2. QED
      BY <1>1, <2>1, <2>2, <3>1, HostUnchanged DEF ServerInv, InHandshake
  <2>9. QED
    BY <1>2, <2>4, <2>5, <2>6, <2>7, <2>8
<1>3. CASE RunReadError
  <2>1. TypeOK'
    BY <1>1, <1>3, TypeReadError
  <2>2. /\ ~handling' /\ ioq # <<>> /\ Head(ioq).op = "read"
        /\ UNCHANGED <<role, nextClientId>>
    BY <1>3 DEF RunReadError, Takes, attributes, registry
  <2>3. PICK c \in Head(ioq).to : DoClose(c, Tail(ioq))
    BY <1>3 DEF RunReadError
  <2>4. c \in Clients
    BY <1>1, <2>2, ReadAtHead
  <2>5. QED
    BY <1>1, <2>1, <2>2, <2>3, <2>4, HostDoClose DEF ServerInv, InHandshake
<1>4. CASE RunReadHandshake
  <2>1. TypeOK'
    BY <1>1, <1>4, RolesAssumption, TypeHandshake DEF InHandshake
  <2>2. UNCHANGED <<phase, role, hostClientId, nextClientId, ioq>>
    BY <1>4 DEF RunReadHandshake, attributes, registry
  <2>3. InHandshake'
    <3>1. ioq # <<>> /\ Head(ioq).op = "read"
      BY <1>4 DEF RunReadHandshake, Takes
    <3>2. PICK c \in Head(ioq).to : phase[c] = "up" /\ Head(ioq).arg.type = "handshake"
      BY <1>4 DEF RunReadHandshake
    <3>3. Head(ioq).to = {c}
      BY <1>1, <3>1, <3>2, HeadType, HeadOfOp
    <3>4. QED
      BY <2>2, <3>1, <3>2, <3>3 DEF InHandshake
  <2>4. QED
    BY <1>1, <2>1, <2>2, <2>3, HostUnchanged DEF ServerInv
<1>5. CASE ProcessHandshake
  <2>1. TypeOK'
    BY <1>1, <1>5, RolesAssumption, TypeHandshake DEF InHandshake
  <2>2. ~handling' /\ UNCHANGED <<phase, nextClientId>>
    BY <1>5 DEF ProcessHandshake, registry
  <2>3. /\ ioq # <<>> /\ Head(ioq).op = "read"
        /\ \A c \in Head(ioq).to : phase[c] = "up"
    BY <1>1, <1>5 DEF ProcessHandshake, InHandshake
  <2>4. PICK c \in Head(ioq).to :
          Welcome(c, Head(ioq).arg) \/ UNCHANGED <<name, role, hostClientId>>
    BY <1>5 DEF ProcessHandshake
  <2>5. c \in Clients /\ phase[c] = "up"
    BY <1>1, <2>3, ReadAtHead
  <2>6. CASE Welcome(c, Head(ioq).arg)
    BY <1>1, <2>1, <2>2, <2>5, <2>6, HostWelcome DEF ServerInv, InHandshake
  <2>7. CASE UNCHANGED <<name, role, hostClientId>>
    BY <1>1, <2>1, <2>2, <2>7, HostUnchanged DEF ServerInv, InHandshake
  <2>8. QED
    BY <2>4, <2>6, <2>7
<1>6. ASSUME NEW c \in Clients, Message(c)
      PROVE  ServerInv'
  <2>1. TypeOK'
    BY <1>1, <1>6, TypeMessage
  <2>2. ~handling /\ \E q : Posts(c, q)
    BY <1>1, <1>6, MessageAtHead, MessagePosts
  <2>3. ~handling' /\ UNCHANGED <<phase, role, hostClientId, nextClientId>>
    BY <2>2 DEF Posts, registry
  <2>4. QED
    BY <1>1, <2>1, <2>3, HostUnchanged DEF ServerInv, InHandshake
<1>7. QED
  BY <1>2, <1>3, <1>4, <1>5, <1>6 DEF RunHead, Message

LEMMA ServerStep ==
  ASSUME BoundsAssumption, RolesAssumption
  PROVE  ServerInv /\ [Next]_vars => ServerInv'
<1> SUFFICES ASSUME ServerInv, [Next]_vars PROVE ServerInv'
  OBVIOUS
<1>1. CASE Next
  BY <1>1, ServerOthers, ServerIoThread DEF Next
<1>2. CASE UNCHANGED vars
  BY <1>2 DEF vars, registry, attributes, uiVars, ServerInv, TypeOK, InHandshake, HostParts,
              NotYetUp, OneHost, HostIsOpen
<1>3. QED
  BY <1>1, <1>2
-----------------------------------------------------------------------------
(* Theorems *)

\* ServerInv holds in every state of the server.
THEOREM Invariance == Spec => []ServerInv
<1>1. Init => ServerInv
  BY BoundsAssumption, ServerInit
<1>2. ServerInv /\ [Next]_vars => ServerInv'
  BY BoundsAssumption, RolesAssumption, ServerStep
<1>3. QED
  BY <1>1, <1>2, PTL DEF Spec

\* The variables stay in their types: ids, phases, queue entries and what clients are
\* told (all of Server.cpp's handlers).
THEOREM TypeCorrect == Spec => []TypeOK
<1>1. ServerInv => TypeOK
  BY DEF ServerInv
<1>2. QED
  BY <1>1, Invariance, PTL

\* At most one open session has the host's role, and hostClientId_ names it: the check
\* and the assignment in processHandshake(), the reset in handleDisconnect() and the
\* two-step close leave no moment with two hosts.
THEOREM AtMostOneHost == Spec => []OneHost
<1>1. ServerInv => OneHost
  BY DEF ServerInv, HostParts
<1>2. QED
  BY <1>1, Invariance, PTL

\* hostClientId_ never names a session that is gone: every way a session ends goes
\* through handleDisconnect() or leaves the TLS shutdown that will.
THEOREM HostStaysOpen == Spec => []HostIsOpen
<1>1. ServerInv => HostIsOpen
  BY DEF ServerInv, HostParts
<1>2. QED
  BY <1>1, Invariance, PTL
-----------------------------------------------------------------------------
(* No session is forgotten unclosed *)

\* An enumeration of a finite set leaves none of its elements out.
LEMMA EnumerationIsComplete ==
  ASSUME NEW S, IsFiniteSet(S)
  PROVE  \A x \in S : \E i \in 1..Len(SetToSeq(S)) : SetToSeq(S)[i] = x
<1> DEFINE n == Cardinality(S)
           f == SetToSeq(S)
           R == {f[i] : i \in 1..n}
<1>1. n \in Nat /\ ExistsBijection(1..n, S)
  BY FS_CardinalityType
<1>2. PICK b \in Bijection(1..n, S) : TRUE
  BY <1>1 DEF ExistsBijection
<1>3. b \in [1..n -> S] /\ IsInjective(b)
  BY <1>2 DEF Bijection, Injection, IsInjective
<1>4. f \in [1..n -> S] /\ IsInjective(f)
  BY <1>3 DEF SetToSeq
<1>5. R \in SUBSET S
  BY <1>4
<1>6. f \in Bijection(1..n, R)
  <2>1. f \in [1..n -> R]
    BY <1>4
  <2>2. QED
    BY <1>4, <2>1 DEF Bijection, Injection, Surjection, IsInjective
<1>7. Cardinality(R) = n
  BY <1>1, <1>6, FS_CountingElements DEF ExistsBijection
<1>8. R = S
  BY <1>5, <1>7, FS_Subset
<1>9. f \in Seq(S) /\ Len(f) = n
  BY <1>1, <1>4, EnumerationExists
<1>10. QED
  <2> HIDE DEF f, n
  <2>1. \A x \in S : \E i \in 1..n : f[i] = x
    BY <1>8
  <2>2. QED
    BY <1>9, <2>1 DEF f


\* A step that opens no session, forgets none that stays open, and loses no close.
LEMMA OrphanKept ==
  ASSUME TypeOK, NoOrphan,
         \A c \in Clients : Active(c)' /\ c \notin sessions' =>
           /\ Active(c) /\ c \notin sessions
           /\ QueuedIn(ioq, c) => QueuedIn(ioq', c)
  PROVE  NoOrphan'
<1>1. \A c \in Clients : CloseQueued(c) <=> QueuedIn(ioq, c)
  BY DEF CloseQueued, QueuedIn
<1>2. \A c \in Clients : CloseQueued(c)' <=> QueuedIn(ioq', c)
  BY DEF CloseQueued, QueuedIn
<1>3. QED
  BY <1>1, <1>2 DEF NoOrphan

\* A step of the io thread that leaves sessions alone, or closes those it takes out of
\* sessions_ and of the queue.
LEMMA OrphanHead ==
  ASSUME TypeOK, NoOrphan, ioq # <<>>, NEW gone \in SUBSET Clients,
         Keeps(Tail(ioq), ioq'),
         \A c \in Clients \ gone : /\ Active(c)' => Active(c)
                                   /\ c \in sessions => c \in sessions',
         \A c \in gone : ~Active(c)',
         Head(ioq).op = "close" => Head(ioq).to \subseteq gone
  PROVE  NoOrphan'
<1>1. ASSUME NEW c \in Clients, Active(c)', c \notin sessions'
      PROVE  /\ Active(c) /\ c \notin sessions
             /\ QueuedIn(ioq, c) => QueuedIn(ioq', c)
  <2>1. c \notin gone
    BY <1>1
  <2>2. QueuedIn(ioq, c) => QueuedIn(Tail(ioq), c)
    BY <2>1, TailKeeps DEF TypeOK
  <2>3. QED
    BY <1>1, <2>1, <2>2 DEF Keeps
<1>2. QED
  BY <1>1, OrphanKept

\* The session that the step closes, or none.
LEMMA OrphanOne ==
  ASSUME TypeOK, NoOrphan, ioq # <<>>, NEW c \in Clients, Keeps(Tail(ioq), ioq'),
         \A d \in Clients \ {c} : /\ Active(d)' => Active(d)
                                  /\ d \in sessions => d \in sessions',
         ~Active(c)',
         Head(ioq).op = "close" => Head(ioq).to = {c}
  PROVE  NoOrphan'
<1> DEFINE gone == {c}
<1>1. gone \in SUBSET Clients /\ \A d \in gone : ~Active(d)'
  OBVIOUS
<1>2. Head(ioq).op = "close" => Head(ioq).to \subseteq gone
  OBVIOUS
<1>3. \A d \in Clients \ gone : /\ Active(d)' => Active(d)
                                /\ d \in sessions => d \in sessions'
  OBVIOUS
<1> HIDE DEF gone
<1>4. QED
  BY <1>1, <1>2, <1>3, OrphanHead

LEMMA OrphanNone ==
  ASSUME TypeOK, NoOrphan, ioq # <<>>, Keeps(Tail(ioq), ioq'),
         \A d \in Clients : Active(d)' => Active(d),
         sessions' = sessions,
         Head(ioq).op # "close"
  PROVE  NoOrphan'
<1> DEFINE gone == {}
<1>1. gone \in SUBSET Clients /\ \A d \in gone : ~Active(d)'
  OBVIOUS
<1>2. Head(ioq).op = "close" => Head(ioq).to \subseteq gone
  OBVIOUS
<1>3. \A d \in Clients \ gone : /\ Active(d)' => Active(d)
                                /\ d \in sessions => d \in sessions'
  OBVIOUS
<1> HIDE DEF gone
<1>4. QED
  BY <1>1, <1>2, <1>3, OrphanHead

\* doClose() ends c; nobody else's session is touched.
LEMMA OrphanDoClose ==
  ASSUME TypeOK, NoOrphan, ioq # <<>>, NEW c \in Clients, DoClose(c, Tail(ioq)),
         Head(ioq).op = "close" => Head(ioq).to = {c}
  PROVE  NoOrphan'
<1>1. Keeps(Tail(ioq), ioq')
  BY HeadType, DoCloseType
<1>2. ~Active(c)'
  BY DEF DoClose, Active, TypeOK
<1>3. \A d \in Clients \ {c} : /\ Active(d)' => Active(d)
                               /\ d \in sessions => d \in sessions'
  <2>1. \/ phase' = phase
        \/ \E p \in Phases : phase' = [phase EXCEPT ![c] = p]
    BY DEF DoClose, Phases
  <2>2. \A d \in Clients \ {c} : phase'[d] = phase[d]
    BY <2>1 DEF TypeOK
  <2>3. sessions' \in {sessions, sessions \ {c}}
    BY DEF DoClose, HandleDisconnect
  <2>4. QED
    BY <2>2, <2>3 DEF Active
<1>4. QED
  BY <1>1, <1>2, <1>3, OrphanOne

\* stop() closes everything it forgets.
LEMMA OrphanStop ==
  ASSUME TypeOK, BoundsAssumption, NoOrphan, RunStop
  PROVE  NoOrphan'
<1>1. ioq # <<>> /\ Head(ioq).op = "stop"
  BY DEF RunStop, Takes
<1>2. /\ Tail(ioq) \in Seq(QueueEntries)
      /\ ClosesOfAll \in Seq(QueueEntries)
  BY <1>1, HeadType, ClosesType
<1>3. \A c \in Clients : Active(c)' <=> Active(c)
  BY DEF RunStop, Active
<1>4. CASE serverState = "Stopped"
  <2>1. ioq' = Tail(ioq) /\ sessions' = sessions
    BY <1>4 DEF RunStop
  <2>2. Keeps(Tail(ioq), ioq')
    BY <2>1 DEF Keeps
  <2>3. QED
    BY <1>1, <1>3, <2>1, <2>2, OrphanNone
<1>5. CASE serverState # "Stopped"
  <2>1. ioq' = Tail(ioq) \o ClosesOfAll /\ sessions' = {}
    BY <1>5 DEF RunStop
  <2>2. ASSUME NEW c \in Clients, Active(c)
        PROVE  QueuedIn(ioq', c)
    <3>1. CASE c \in sessions
      <4>1. PICK i \in 1..Len(ClosesOfAll) : ClosesOfAll[i] = Close(c)
        BY <3>1, BoundsAssumption, SessionsFinite, EnumerationIsComplete DEF ClosesOfAll, TypeOK
      <4>2. ClosesOfAll[i].op = "close" /\ c \in ClosesOfAll[i].to
        BY <4>1 DEF Close, Entry
      <4>3. /\ Len(Tail(ioq)) + i \in 1..Len(ioq')
            /\ ioq'[Len(Tail(ioq)) + i] = ClosesOfAll[i]
        BY <1>2, <2>1
      <4>4. QED
        BY <4>2, <4>3 DEF QueuedIn
    <3>2. CASE c \notin sessions
      <4>1. QueuedIn(ioq, c)
        BY <2>2, <3>2 DEF NoOrphan, CloseQueued, QueuedIn
      <4>2. QueuedIn(Tail(ioq), c)
        BY <1>1, <4>1, TailKeeps DEF TypeOK
      <4>3. QED
        BY <1>2, <2>1, <4>2, JoinKeeps DEF Keeps
    <3>3. QED
      BY <3>1, <3>2
  <2>3. \A c \in Clients : CloseQueued(c)' <=> QueuedIn(ioq', c)
    BY DEF CloseQueued, QueuedIn
  <2>4. QED
    BY <1>3, <2>2, <2>3 DEF NoOrphan
<1>6. QED
  BY <1>4, <1>5

LEMMA OrphanStep ==
  ASSUME ServerInv, BoundsAssumption, RolesAssumption, NoOrphan, Next
  PROVE  NoOrphan'
<1>1. TypeOK /\ InHandshake
  BY DEF ServerInv
<1>2. CASE Completes \/ UIThread
  <2>1. UNCHANGED <<phase, sessions>>
    BY <1>2 DEF Completes, UIThread, AcceptCompletes, ReadCompletes, SslHandshakeCompletes,
                ShutdownCompletes, Start, UpdateBegins, UpdateSent
  <2>2. Keeps(ioq, ioq')
    <3>1. ioq \in Seq(QueueEntries)
      BY <1>1 DEF TypeOK
    <3>2. \/ \E e : ioq' = Append(ioq, e)
          \/ \E q \in Seq(QueueEntries) : ioq' = ioq \o q
      BY <1>1, <1>2, OthersAppend
    <3>3. CASE \E e : ioq' = Append(ioq, e)
      <4>1. PICK e : ioq' = Append(ioq, e)
        BY <3>3
      <4>2. Keeps(ioq, Append(ioq, e))
        BY <3>1, NothingQueued, JoinKeeps
      <4>3. QED
        BY <4>1, <4>2
    <3>4. CASE \E q \in Seq(QueueEntries) : ioq' = ioq \o q
      <4>1. PICK q \in Seq(QueueEntries) : ioq' = ioq \o q
        BY <3>4
      <4>2. Keeps(ioq, ioq \o q)
        BY <3>1, <4>1, JoinKeeps
      <4>3. QED
        BY <4>1, <4>2
    <3>5. QED
      BY <3>2, <3>3, <3>4
  <2>3. QED
    BY <1>1, <2>1, <2>2, OrphanKept DEF Keeps, Active
<1>3. CASE RunAccept
  <2>1. /\ ioq # <<>> /\ Head(ioq).op = "accept" /\ ioq' = Tail(ioq)
        /\ nextClientId \in Nat
    BY <1>1, <1>3 DEF RunAccept, Takes, TypeOK
  <2>2. \A c \in Clients : Active(c)' /\ c \notin sessions' => Active(c) /\ c \notin sessions
    BY <1>1, <1>3 DEF RunAccept, Active, TypeOK
  <2>3. \A c \in Clients : QueuedIn(ioq, c) => QueuedIn(ioq', c)
    BY <1>1, <2>1, TailKeeps DEF TypeOK
  <2>4. QED
    BY <1>1, <2>2, <2>3, OrphanKept
<1>4. CASE RunSsl
  <2>1. ioq # <<>> /\ Head(ioq).op = "ssl"
    BY <1>4 DEF RunSsl, Takes
  <2>2. PICK c \in Head(ioq).to :
          \/ /\ Active(c)
             /\ phase' = [phase EXCEPT ![c] = "up"]
             /\ ioq' = Tail(ioq) /\ sessions' = sessions
          \/ DoClose(c, Tail(ioq))
    BY <1>4 DEF RunSsl
  <2>3. c \in Clients
    BY <1>1, <2>1, HeadType, HeadOfOp
  <2>4. CASE DoClose(c, Tail(ioq))
    BY <1>1, <2>1, <2>3, <2>4, OrphanDoClose
  <2>5. CASE /\ Active(c)
             /\ phase' = [phase EXCEPT ![c] = "up"]
             /\ ioq' = Tail(ioq) /\ sessions' = sessions
    <3>1. \A d \in Clients : Active(d)' => Active(d)
      BY <1>1, <2>3, <2>5 DEF Active, TypeOK
    <3>2. Keeps(Tail(ioq), ioq')
      BY <2>5 DEF Keeps
    <3>3. QED
      BY <1>1, <2>1, <2>5, <3>1, <3>2, OrphanNone
  <2>6. QED
    BY <2>2, <2>4, <2>5
<1>5. CASE RunShutdown
  <2>1. ioq # <<>> /\ Head(ioq).op = "shutdown"
    BY <1>5 DEF RunShutdown, Takes
  <2>2. PICK c \in Head(ioq).to : /\ phase' = [phase EXCEPT ![c] = "closed"]
                                  /\ HandleDisconnect(c, Tail(ioq))
    BY <1>5 DEF RunShutdown
  <2>3. c \in Clients
    BY <1>1, <2>1, HeadType, HeadOfOp
  <2>4. Keeps(Tail(ioq), ioq')
    BY <1>1, <2>1, <2>2, <2>3, HeadType, HandleDisconnectType
  <2>5. /\ ~Active(c)'
        /\ \A d \in Clients \ {c} : /\ Active(d)' => Active(d)
                                    /\ d \in sessions => d \in sessions'
    BY <1>1, <2>2, <2>3 DEF Active, TypeOK, HandleDisconnect
  <2>6. QED
    BY <1>1, <2>1, <2>3, <2>4, <2>5, OrphanOne
<1>6. CASE RunSend
  <2>1. ioq # <<>> /\ Head(ioq).op = "send" /\ UNCHANGED <<phase, sessions>>
        /\ Keeps(Tail(ioq), ioq')
    BY <1>6 DEF RunSend, Takes, Keeps
  <2>2. QED
    BY <1>1, <2>1, OrphanNone DEF Active
<1>7. CASE RunClose
  <2>1. ioq # <<>> /\ Head(ioq).op = "close"
    BY <1>7 DEF RunClose, Takes
  <2>2. PICK c \in Head(ioq).to : DoClose(c, Tail(ioq))
    BY <1>7 DEF RunClose
  <2>3. c \in Clients /\ Head(ioq).to = {c}
    BY <1>1, <2>1, <2>2, HeadType, HeadOfOp
  <2>4. QED
    BY <1>1, <2>1, <2>2, <2>3, OrphanDoClose
<1>8. CASE RunStop
  BY <1>1, <1>8, BoundsAssumption, OrphanStop
<1>9. CASE RunReadError
  <2>1. ioq # <<>> /\ Head(ioq).op = "read"
    BY <1>9 DEF RunReadError, Takes
  <2>2. PICK c \in Head(ioq).to : DoClose(c, Tail(ioq))
    BY <1>9 DEF RunReadError
  <2>3. c \in Clients
    BY <1>1, <2>1, ReadAtHead
  <2>4. QED
    BY <1>1, <2>1, <2>2, <2>3, OrphanDoClose
<1>10. CASE RunReadHandshake
  <2>1. UNCHANGED <<phase, sessions, ioq>>
    BY <1>10 DEF RunReadHandshake
  <2>2. QED
    BY <1>1, <2>1, OrphanKept DEF Active
<1>11. CASE ProcessHandshake
  <2>1. /\ ioq # <<>> /\ Head(ioq).op = "read" /\ Head(ioq).arg.type = "handshake"
        /\ UNCHANGED <<phase, sessions>>
    BY <1>1, <1>11 DEF ProcessHandshake, InHandshake
  <2>2. PICK c \in Head(ioq).to :
          Welcome(c, Head(ioq).arg) \/ ioq' = Refusal(c, Head(ioq).arg)
    BY <1>11 DEF ProcessHandshake
  <2>3. c \in Clients /\ Head(ioq).arg \in Requests
    BY <1>1, <2>1, ReadAtHead
  <2>4. Keeps(Tail(ioq), ioq')
    BY <1>1, <2>1, <2>2, <2>3, RolesAssumption, WelcomeType, RefusalType
  <2>5. QED
    BY <1>1, <2>1, <2>4, OrphanNone DEF Active
<1>12. ASSUME NEW c \in Clients, Message(c)
       PROVE  NoOrphan'
  <2>1. ioq # <<>> /\ Head(ioq).op = "read"
    BY <1>1, <1>12, MessageAtHead
  <2>2. PICK q \in Seq(QueueEntries) : Posts(c, q)
    BY <1>1, <1>12, MessagePosts
  <2>3. UNCHANGED <<phase, sessions>> /\ ioq' = Tail(ioq) \o q
    BY <2>2 DEF Posts
  <2>4. Keeps(Tail(ioq), ioq')
    BY <1>1, <2>1, <2>3, HeadType, JoinKeeps
  <2>5. QED
    BY <1>1, <2>1, <2>3, <2>4, OrphanNone DEF Active
<1>13. QED
  BY <1>2, <1>3, <1>4, <1>5, <1>6, <1>7, <1>8, <1>9, <1>10, <1>11, <1>12
     DEF Next, RunHead, Message

\* An open session that sessions_ has lost has a close() waiting for it: stop() empties
\* the list only after posting one for each, and nothing takes a session out of the list
\* before it is closed.
THEOREM NothingForgotten == Spec => []NoOrphan
<1>1. Init => NoOrphan
  BY DEF Init, NoOrphan, Active
<1>2. ServerInv /\ NoOrphan /\ [Next]_vars => NoOrphan'
  <2> SUFFICES ASSUME ServerInv, NoOrphan, [Next]_vars PROVE NoOrphan'
    OBVIOUS
  <2>1. CASE Next
    BY <2>1, BoundsAssumption, RolesAssumption, OrphanStep
  <2>2. CASE UNCHANGED vars
    BY <2>2 DEF vars, NoOrphan, Active, CloseQueued
  <2>3. QED
    BY <2>1, <2>2
<1>3. QED
  BY <1>1, <1>2, Invariance, PTL DEF Spec
-----------------------------------------------------------------------------
(* What a client will have heard when the queue has been run *)

\* What one entry of the queue makes of the view of c.
Heard(c, x, e) == IF e.op = "send" /\ c \in e.to THEN Hear(x, e.arg) ELSE x

\* May c, with the view x, hear m?
Fits(c, x, m) ==
  /\ m.type \in {"joined", "left", "renamed", "chat", "input"} =>
       x.outcome = "accepted" /\ x.roster[c] # Absent
  /\ m.type = "input" => m.who # c /\ x.roster[m.who] # Absent
  /\ x.outcome = "refused" => m.type = "fs"

Proper(c, x, e) == e.op = "send" /\ c \in e.to => Fits(c, x, e.arg)

Closes(c, e) == e.op = "close" /\ c \in e.to

\* The views c has while the queue q is run, from v to w; what comes after its close it
\* does not hear.
Course(t, c, v, q, w) ==
  /\ t \in [0..Len(q) -> Views] /\ t[0] = v /\ t[Len(q)] = w
  /\ \A i \in 1..Len(q) :
       /\ t[i] = Heard(c, t[i - 1], q[i])
       /\ Proper(c, t[i - 1], q[i]) \/ \E j \in 1..(i - 1) : Closes(c, q[j])

Leads(c, v, q, w) == \E t : Course(t, c, v, q, w)

LEMMA HeardType ==
  ASSUME NEW c, NEW x \in Views, NEW e \in QueueEntries
  PROVE  Heard(c, x, e) \in Views
<1>1. e.op = "send" => e.arg \in Messages
  BY HeadOfOp
<1>2. QED
  BY <1>1, HearType DEF Heard

\* Both ends of a course are views.
LEMMA LeadsType ==
  ASSUME NEW c, NEW q \in Seq(QueueEntries), NEW v, NEW w, Leads(c, v, q, w)
  PROVE  v \in Views /\ w \in Views
<1>1. PICK t : Course(t, c, v, q, w)
  BY DEF Leads
<1>2. 0 \in 0..Len(q) /\ Len(q) \in 0..Len(q)
  BY LenProperties
<1>3. QED
  BY <1>1, <1>2 DEF Course

\* An empty queue changes nothing.
LEMMA LeadsNowhere ==
  ASSUME NEW c, NEW v \in Views, NEW q \in Seq(QueueEntries),
         \A i \in 1..Len(q) : c \notin q[i].to
  PROVE  Leads(c, v, q, v)
<1> DEFINE t == [i \in 0..Len(q) |-> v]
<1>1. Len(q) \in Nat
  BY LenProperties
<1>2. \A i \in 1..Len(q) : t[i] = Heard(c, t[i - 1], q[i]) /\ Proper(c, t[i - 1], q[i])
  BY <1>1 DEF Heard, Proper
<1>3. Course(t, c, v, q, v)
  BY <1>1, <1>2 DEF Course
<1>4. QED
  BY <1>3 DEF Leads

\* An entry is queued.
LEMMA LeadsFurther ==
  ASSUME NEW c, NEW q \in Seq(QueueEntries), NEW e \in QueueEntries, NEW v, NEW w,
         Leads(c, v, q, w), QueuedIn(q, c) \/ Proper(c, w, e)
  PROVE  Leads(c, v, Append(q, e), Heard(c, w, e))
<1>1. PICK t : Course(t, c, v, q, w)
  BY DEF Leads
<1> DEFINE n == Len(q)
           r == Append(q, e)
           u == [i \in 0..(n + 1) |-> IF i <= n THEN t[i] ELSE Heard(c, w, e)]
<1>2. /\ n \in Nat /\ Len(r) = n + 1 /\ r[n + 1] = e
      /\ \A i \in 1..n : r[i] = q[i]
  BY LenProperties, AppendProperties
<1>3. Heard(c, w, e) \in Views
  BY LeadsType, HeardType
<1>4. /\ t \in [0..n -> Views] /\ t[0] = v /\ t[n] = w
      /\ \A i \in 1..n : /\ t[i] = Heard(c, t[i - 1], q[i])
                         /\ Proper(c, t[i - 1], q[i]) \/ \E j \in 1..(i - 1) : Closes(c, q[j])
  BY <1>1 DEF Course
<1> HIDE DEF n, r
<1>5. u \in [0..(n + 1) -> Views] /\ u[0] = v /\ u[n + 1] = Heard(c, w, e) /\ u[n] = w
      /\ \A i \in 0..n : u[i] = t[i]
  BY <1>2, <1>3, <1>4
<1> HIDE DEF u
<1>6. ASSUME NEW i \in 1..(n + 1)
      PROVE  /\ u[i] = Heard(c, u[i - 1], r[i])
             /\ Proper(c, u[i - 1], r[i]) \/ \E j \in 1..(i - 1) : Closes(c, r[j])
  <2>1. CASE i = n + 1
    <3>1. u[i - 1] = w /\ r[i] = e /\ u[i] = Heard(c, w, e)
      BY <1>2, <1>5, <2>1
    <3>2. QueuedIn(q, c) => \E j \in 1..n : Closes(c, r[j])
      BY <1>2 DEF QueuedIn, Closes, n
    <3>3. i - 1 = n
      BY <1>2, <2>1
    <3>4. QED
      BY <3>1, <3>2, <3>3
  <2>2. CASE i \in 1..n
    <3>1. /\ u[i] = t[i] /\ u[i - 1] = t[i - 1] /\ r[i] = q[i]
          /\ \A j \in 1..(i - 1) : r[j] = q[j]
      BY <1>2, <1>5, <2>2
    <3>2. QED
      BY <1>4, <2>2, <3>1
  <2>3. QED
    BY <1>2, <2>1, <2>2
<1>7. Course(u, c, v, r, Heard(c, w, e))
  BY <1>2, <1>5, <1>6 DEF Course
<1>8. QED
  BY <1>7 DEF Leads, r

\* The head of the queue is run.
LEMMA LeadsOn ==
  ASSUME NEW c, NEW q \in Seq(QueueEntries), q # <<>>, NEW v, NEW w,
         Leads(c, v, q, w), ~Closes(c, Head(q))
  PROVE  Leads(c, Heard(c, v, Head(q)), Tail(q), w) /\ Proper(c, v, Head(q))
<1>1. PICK t : Course(t, c, v, q, w)
  BY DEF Leads
<1> DEFINE n == Len(q)
           r == Tail(q)
           u == [i \in 0..(n - 1) |-> t[i + 1]]
<1>2. /\ n \in Nat \ {0} /\ Len(r) = n - 1 /\ Head(q) = q[1]
      /\ \A i \in 1..(n - 1) : r[i] = q[i + 1]
  BY LenProperties, HeadTailProperties
<1>3. /\ t \in [0..n -> Views] /\ t[0] = v /\ t[n] = w
      /\ \A i \in 1..n : /\ t[i] = Heard(c, t[i - 1], q[i])
                         /\ Proper(c, t[i - 1], q[i]) \/ \E j \in 1..(i - 1) : Closes(c, q[j])
  BY <1>1 DEF Course
<1> HIDE DEF n, r
<1>4. t[1] = Heard(c, v, Head(q)) /\ Proper(c, v, Head(q))
  BY <1>2, <1>3
<1>5. u \in [0..(n - 1) -> Views] /\ u[0] = t[1] /\ u[n - 1] = w
      /\ \A i \in 0..(n - 1) : u[i] = t[i + 1]
  BY <1>2, <1>3
<1> HIDE DEF u
<1>6. ASSUME NEW i \in 1..(n - 1)
      PROVE  /\ u[i] = Heard(c, u[i - 1], r[i])
             /\ Proper(c, u[i - 1], r[i]) \/ \E j \in 1..(i - 1) : Closes(c, r[j])
  <2>1. u[i] = t[i + 1] /\ u[i - 1] = t[i] /\ r[i] = q[i + 1] /\ i + 1 \in 1..n
    BY <1>2, <1>5
  <2>2. /\ t[i + 1] = Heard(c, t[i], q[i + 1])
        /\ Proper(c, t[i], q[i + 1]) \/ \E j \in 1..i : Closes(c, q[j])
    <3>1. (i + 1) - 1 = i
      OBVIOUS
    <3>2. QED
      BY <1>3, <2>1, <3>1
  <2>3. ASSUME NEW j \in 1..i, Closes(c, q[j]) PROVE \E k \in 1..(i - 1) : Closes(c, r[k])
    <3>1. j # 1
      BY <1>2, <2>3
    <3>2. j - 1 \in 1..(i - 1) /\ r[j - 1] = q[j]
      BY <1>2, <3>1
    <3>3. QED
      BY <2>3, <3>2
  <2>4. QED
    BY <2>1, <2>2, <2>3
<1>7. Course(u, c, t[1], r, w)
  BY <1>2, <1>5, <1>6 DEF Course
<1>8. QED
  BY <1>4, <1>7 DEF Leads, r

\* Entries that send nothing are queued.
LEMMA LeadsPast ==
  ASSUME NEW c, NEW q \in Seq(QueueEntries), NEW p \in Seq(QueueEntries), NEW v, NEW w,
         Leads(c, v, q, w), \A i \in 1..Len(p) : p[i].op # "send"
  PROVE  Leads(c, v, q \o p, w)
<1>1. PICK t : Course(t, c, v, q, w)
  BY DEF Leads
<1> DEFINE n == Len(q)
           k == Len(p)
           r == q \o p
           u == [i \in 0..(n + k) |-> IF i <= n THEN t[i] ELSE w]
<1>2. /\ n \in Nat /\ k \in Nat /\ Len(r) = n + k
      /\ \A i \in 1..n : r[i] = q[i]
      /\ \A i \in (n + 1)..(n + k) : r[i] = p[i - n]
  BY LenProperties, ConcatProperties
<1>3. /\ t \in [0..n -> Views] /\ t[0] = v /\ t[n] = w
      /\ \A i \in 1..n : /\ t[i] = Heard(c, t[i - 1], q[i])
                         /\ Proper(c, t[i - 1], q[i]) \/ \E j \in 1..(i - 1) : Closes(c, q[j])
  BY <1>1 DEF Course
<1>4. \A i \in 1..k : p[i].op # "send"
  OBVIOUS
<1>5. w \in Views
  BY LeadsType
<1> HIDE DEF n, k, r
<1>6. u \in [0..(n + k) -> Views] /\ u[0] = v /\ u[n + k] = w
      /\ (\A i \in 0..n : u[i] = t[i]) /\ \A i \in n..(n + k) : u[i] = w
  <2>1. 0..n \subseteq 0..(n + k) /\ n..(n + k) \subseteq 0..(n + k)
    BY <1>2
  <2>2. u \in [0..(n + k) -> Views]
    BY <1>3, <1>5
  <2>3. \A i \in 0..n : u[i] = t[i]
    BY <1>2, <2>1
  <2>4. ASSUME NEW i \in n..(n + k) PROVE u[i] = w
    <3>1. i \in 0..(n + k) /\ (i <= n => i = n)
      BY <1>2, <2>1
    <3>2. QED
      BY <1>3, <3>1
  <2>5. 0 \in 0..n /\ n + k \in n..(n + k)
    BY <1>2
  <2>6. QED
    BY <1>3, <2>2, <2>3, <2>4, <2>5
<1> HIDE DEF u
<1>7. ASSUME NEW i \in 1..(n + k)
      PROVE  /\ u[i] = Heard(c, u[i - 1], r[i])
             /\ Proper(c, u[i - 1], r[i]) \/ \E j \in 1..(i - 1) : Closes(c, r[j])
  <2>1. CASE i \in 1..n
    <3>1. /\ u[i] = t[i] /\ u[i - 1] = t[i - 1] /\ r[i] = q[i]
          /\ \A j \in 1..(i - 1) : r[j] = q[j]
      BY <1>2, <1>6, <2>1
    <3>2. QED
      BY <1>3, <2>1, <3>1
  <2>2. CASE i \in (n + 1)..(n + k)
    <3>1. u[i] = w /\ u[i - 1] = w /\ r[i] = p[i - n] /\ i - n \in 1..k
      BY <1>2, <1>6, <2>2
    <3>2. r[i].op # "send"
      BY <1>4, <3>1
    <3>3. QED
      BY <3>1, <3>2 DEF Heard, Proper
  <2>3. QED
    BY <1>2, <2>1, <2>2
<1>8. Course(u, c, v, r, w)
  BY <1>2, <1>6, <1>7 DEF Course
<1>9. QED
  BY <1>8 DEF Leads, r

\* What c expects after send() to the clients of S.
Told(c, x, S, m) == IF c \in S /\ Active(c) THEN Hear(x, m) ELSE x

\* A message is sent.
LEMMA LeadsSend ==
  ASSUME NEW c, NEW q \in Seq(QueueEntries), NEW v, NEW w, Leads(c, v, q, w),
         NEW S \in SUBSET Clients, NEW m \in Messages,
         QueuedIn(q, c) \/ c \notin S \/ Fits(c, w, m)
  PROVE  /\ q \o Send(S, m) \in Seq(QueueEntries)
         /\ Leads(c, v, q \o Send(S, m), Told(c, w, S, m))
         /\ QueuedIn(q, c) => QueuedIn(q \o Send(S, m), c)
<1> DEFINE live == {d \in S : Active(d)}
           e == Entry("send", live, m)
<1>1. e \in QueueEntries
  <2>1. live \in SUBSET Clients
    OBVIOUS
  <2>2. QED
    BY <2>1, SendEntryType
<1>2. CASE live = {}
  <2>1. Send(S, m) = <<>> /\ q \o <<>> = q
    BY <1>2 DEF Send
  <2>2. Told(c, w, S, m) = w
    BY <1>2 DEF Told
  <2>3. QED
    BY <2>1, <2>2
<1>3. CASE live # {}
  <2>1. Send(S, m) = <<e>> /\ q \o <<e>> = Append(q, e)
    BY <1>1, <1>3, AppendIsConcat DEF Send
  <2>2. Append(q, e) \in Seq(QueueEntries)
    BY <1>1, Appends
  <2>3. Heard(c, w, e) = Told(c, w, S, m)
    BY DEF Heard, Told, Entry
  <2>4. QueuedIn(q, c) \/ Proper(c, w, e)
    BY DEF Proper, Entry
  <2>5. QueuedIn(q, c) => QueuedIn(Append(q, e), c)
    <3>1. Len(Append(q, e)) = Len(q) + 1 /\ \A i \in 1..Len(q) : Append(q, e)[i] = q[i]
      BY <1>1, AppendProperties
    <3>2. QED
      BY <3>1, LenProperties DEF QueuedIn
  <2>6. Leads(c, v, Append(q, e), Heard(c, w, e))
    BY <1>1, <2>4, LeadsFurther
  <2>7. QED
    BY <2>1, <2>2, <2>3, <2>5, <2>6
<1>4. QED
  BY <1>2, <1>3
-----------------------------------------------------------------------------
(* The order of things: what the queue and the flags say of the sessions *)

\* c is the client whose handshake the io thread is working on.
Handled(c) == handling /\ c \in Head(ioq).to

\* Entries that name sessions accepted so far, and as ended only those that are ending.
Sound == {e \in QueueEntries :
            /\ \A c \in e.to : c < nextClientId
            /\ e.op = "shutdown" => \A c \in e.to : phase[c] \in {"closing", "closed"}}

\* Of a client not accepted yet nothing is known.
Fresh ==
  \A c \in Clients : c >= nextClientId => c \notin sessions /\ view[c].outcome = "none"

\* Only an open session is ready, and the host's is.
ReadyIsUp ==
  \A c \in Clients : /\ ready[c] => phase[c] = "up"
                     /\ hostClientId = c /\ phase[c] = "up" => ready[c]
                     /\ Handled(c) => ready[c]

\* The queue closes o before the TLS handshake of a session of S completes.
Ahead(q, o, S) ==
  \E i \in 1..Len(q) : /\ Closes(o, q[i])
                       /\ \A j \in 1..i : q[j].op = "ssl" => q[j].to \intersect S = {}

\* A session that stop() has forgotten is closed before a newer one is up.
OrphansFirst ==
  \A o \in Clients : Active(o) /\ o \notin sessions =>
    /\ \A k \in sessions : phase[k] # "up"
    /\ Ahead(ioq, o, sessions)

Order == ioq \in Seq(Sound) /\ Fresh /\ ReadyIsUp /\ OrphansFirst

LEMMA SoundType == Sound \subseteq QueueEntries /\ Seq(Sound) \subseteq Seq(QueueEntries)
<1>1. Sound \subseteq QueueEntries
  BY DEF Sound
<1>2. QED
  BY <1>1, SeqDef

LEMMA NothingSound == <<>> \in Seq(Sound)
  BY EmptySeq

\* Whom a message is sent to has been accepted.
LEMMA SendSound ==
  ASSUME TypeOK, NotYetUp, NEW S \in SUBSET Clients, NEW m \in Messages
  PROVE  Send(S, m) \in Seq(Sound)
<1> DEFINE live == {d \in S : Active(d)}
<1>1. Entry("send", live, m) \in QueueEntries
  <2>1. live \in SUBSET Clients
    OBVIOUS
  <2>2. QED
    BY <2>1, SendEntryType
<1>2. \A d \in live : d < nextClientId
  BY DEF NotYetUp, Active, TypeOK, Clients
<1>3. Entry("send", live, m) \in Sound
  BY <1>1, <1>2 DEF Sound, Entry
<1>4. CASE live = {}
  BY <1>4, NothingSound DEF Send
<1>5. CASE live # {}
  BY <1>3, <1>5, Singles DEF Send
<1>6. QED
  BY <1>4, <1>5

\* Sound entries stay sound.
LEMMA SoundGrows ==
  ASSUME TypeOK, nextClientId' \in Int, nextClientId' >= nextClientId,
         \A c \in Clients : c < nextClientId /\ phase[c] \in {"closing", "closed"} =>
                              phase'[c] \in {"closing", "closed"}
  PROVE  Sound \subseteq Sound' /\ Seq(Sound) \subseteq Seq(Sound')
<1>1. ASSUME NEW e \in Sound PROVE e \in Sound'
  <2>1. e \in QueueEntries /\ e.to \in SUBSET Clients
    BY <1>1, HeadOfOp DEF Sound
  <2>2. \A c \in e.to : c < nextClientId'
    BY <2>1 DEF Sound, TypeOK, Clients
  <2>3. e.op = "shutdown" => \A c \in e.to : phase'[c] \in {"closing", "closed"}
    BY <2>1 DEF Sound
  <2>4. QED
    BY <2>1, <2>2, <2>3 DEF Sound
<1>2. QED
  BY <1>1, SeqDef

\* What is added to the queue's end, and who is closed, gets in nobody's way.
LEMMA AheadJoin ==
  ASSUME NEW q \in Seq(QueueEntries), NEW p \in Seq(QueueEntries), NEW o, NEW S,
         NEW T \in SUBSET S, Ahead(q, o, S)
  PROVE  Ahead(q \o p, o, T)
<1>1. PICK i \in 1..Len(q) :
        Closes(o, q[i]) /\ \A j \in 1..i : q[j].op = "ssl" => q[j].to \intersect S = {}
  BY DEF Ahead
<1>2. /\ i \in 1..Len(q \o p)
      /\ \A j \in 1..i : (q \o p)[j] = q[j]
  BY ConcatProperties, LenProperties
<1>3. (q \o p)[i] = q[i]
  BY <1>2, LenProperties
<1>4. \A j \in 1..i : (q \o p)[j].op = "ssl" => (q \o p)[j].to \intersect T = {}
  BY <1>1, <1>2
<1>5. QED
  BY <1>1, <1>2, <1>3, <1>4 DEF Ahead

LEMMA AheadTail ==
  ASSUME NEW q \in Seq(QueueEntries), q # <<>>, NEW o, NEW S, Ahead(q, o, S),
         ~Closes(o, Head(q))
  PROVE  Ahead(Tail(q), o, S)
<1>1. PICK i \in 1..Len(q) :
        Closes(o, q[i]) /\ \A j \in 1..i : q[j].op = "ssl" => q[j].to \intersect S = {}
  BY DEF Ahead
<1>2. /\ Len(q) \in Nat /\ Len(Tail(q)) = Len(q) - 1 /\ Head(q) = q[1]
      /\ \A j \in 1..(Len(q) - 1) : Tail(q)[j] = q[j + 1]
  BY LenProperties, HeadTailProperties
<1>3. i # 1
  BY <1>1, <1>2
<1>4. i - 1 \in 1..Len(Tail(q)) /\ Tail(q)[i - 1] = q[i]
  BY <1>2, <1>3
<1>5. ASSUME NEW j \in 1..(i - 1), Tail(q)[j].op = "ssl"
      PROVE  Tail(q)[j].to \intersect S = {}
  <2>1. j + 1 \in 1..i /\ Tail(q)[j] = q[j + 1]
    BY <1>2
  <2>2. QED
    BY <1>1, <1>5, <2>1
<1>6. QED
  BY <1>1, <1>4, <1>5 DEF Ahead

\* While somebody is to be closed first, no TLS handshake of a session completes.
LEMMA AheadSsl ==
  ASSUME NEW q \in Seq(QueueEntries), q # <<>>, NEW o, NEW S, Ahead(q, o, S),
         Head(q).op = "ssl"
  PROVE  Head(q).to \intersect S = {}
<1>1. PICK i \in 1..Len(q) :
        Closes(o, q[i]) /\ \A j \in 1..i : q[j].op = "ssl" => q[j].to \intersect S = {}
  BY DEF Ahead
<1>2. 1 \in 1..i /\ Head(q) = q[1]
  BY LenProperties, HeadTailProperties
<1>3. QED
  BY <1>1, <1>2

\* Nothing in the queue is about a session that has just been accepted.
LEMMA AheadAccept ==
  ASSUME NEW q \in Seq(QueueEntries), NEW o, NEW S, NEW k, Ahead(q, o, S),
         \A i \in 1..Len(q) : k \notin q[i].to
  PROVE  Ahead(q, o, S \union {k})
<1>1. PICK i \in 1..Len(q) :
        Closes(o, q[i]) /\ \A j \in 1..i : q[j].op = "ssl" => q[j].to \intersect S = {}
  BY DEF Ahead
<1>2. \A j \in 1..i : j \in 1..Len(q)
  BY LenProperties
<1>3. \A j \in 1..i : q[j].op = "ssl" => q[j].to \intersect (S \union {k}) = {}
  BY <1>1, <1>2
<1>4. QED
  BY <1>1, <1>3 DEF Ahead
-----------------------------------------------------------------------------
(* What steps have in common *)

\* A session x comes to its end, or one step nearer to it; q is the queue before.
Ends(x, q) ==
  /\ ~Active(x)' /\ ~ready'[x]
  /\ \A d \in Clients \ {x} : phase'[d] = phase[d] /\ ready'[d] = ready[d]
  /\ phase[x] \in {"closing", "closed"} => phase'[x] \in {"closing", "closed"}
  /\ phase[x] = "ssl" => phase'[x] = "closed"
  /\ hostClientId' \in {hostClientId, Nobody}
  /\ \/ /\ sessions' = sessions /\ ioq' = q
        /\ phase'[x] = "closing" \/ phase'[x] = phase[x]
     \/ /\ sessions' = sessions \ {x} /\ ~ready[x]
        /\ \E first \in {<<>>, Send(ReadySessions, Plain("host_left"))} :
             ioq' = q \o first \o Send(ReadySessions, LeftMsg(x))

LEMMA DoCloseEnds ==
  ASSUME TypeOK, HostParts, ReadyIsUp, NEW x \in Clients, NEW q, DoClose(x, q)
  PROVE  Ends(x, q)
<1>1. CASE ~Active(x)
  <2>1. ioq' = q /\ UNCHANGED <<phase, ready, hostClientId, sessions>>
    BY <1>1 DEF DoClose
  <2>2. ~ready[x]
    BY <1>1 DEF ReadyIsUp, Active
  <2>3. phase[x] # "ssl"
    BY <1>1 DEF Active
  <2>4. QED
    BY <1>1, <2>1, <2>2, <2>3 DEF Ends, Active
<1>2. CASE phase[x] = "up"
  <2>1. /\ phase' = [phase EXCEPT ![x] = "closing"]
        /\ ready' = [ready EXCEPT ![x] = FALSE]
        /\ ioq' = q /\ UNCHANGED <<hostClientId, sessions>>
    BY <1>2 DEF DoClose, Active
  <2>2. QED
    BY <1>2, <2>1 DEF Ends, Active, TypeOK
<1>3. CASE phase[x] = "ssl"
  <2>1. /\ phase' = [phase EXCEPT ![x] = "closed"]
        /\ ready' = [ready EXCEPT ![x] = FALSE]
        /\ HandleDisconnect(x, q)
    BY <1>3 DEF DoClose, Active
  <2>2. ~ready[x]
    BY <1>3 DEF ReadyIsUp
  <2>3. QED
    BY <1>3, <2>1, <2>2 DEF Ends, Active, TypeOK, HandleDisconnect
<1>4. QED
  BY <1>1, <1>2, <1>3 DEF Active

\* The steps by which sessions end.
Ending(x) ==
  /\ ioq # <<>> /\ ~handling /\ Head(ioq).op # "send"
  /\ Head(ioq).op = "close" => Head(ioq).to = {x}
  /\ Ends(x, Tail(ioq))
  /\ UNCHANGED <<nextClientId, name, role, handling, view>>

\* The TLS handshake of x succeeds.
ComesUp(x) ==
  /\ ioq # <<>> /\ ~handling /\ Head(ioq).op = "ssl" /\ x \in Head(ioq).to /\ Active(x)
  /\ phase' = [phase EXCEPT ![x] = "up"]
  /\ ioq' = Tail(ioq)
  /\ UNCHANGED <<nextClientId, sessions, ready, name, role, hostClientId, handling, view>>

LEMMA EndingOrUp ==
  ASSUME TypeOK, HostParts, ioq \in Seq(Sound), ReadyIsUp,
         RunClose \/ RunShutdown \/ RunReadError \/ RunSsl
  PROVE  \E x \in Clients : Ending(x) \/ ComesUp(x)
<1>1. ioq # <<>> /\ ~handling
  BY DEF RunClose, RunShutdown, RunReadError, RunSsl, Takes
<1>2. Head(ioq) \in QueueEntries /\ Head(ioq).to \subseteq Clients
  BY <1>1, HeadType, HeadOfOp
<1>3. UNCHANGED <<nextClientId, name, role, handling, view>>
  BY DEF RunClose, RunShutdown, RunReadError, RunSsl, registry, attributes
<1>4. CASE RunClose
  <2>1. Head(ioq).op = "close"
    BY <1>4 DEF RunClose, Takes
  <2>2. PICK x \in Head(ioq).to : DoClose(x, Tail(ioq))
    BY <1>4 DEF RunClose
  <2>3. x \in Clients /\ Head(ioq).to = {x}
    BY <1>2, <2>1, <2>2, HeadOfOp
  <2>4. Ends(x, Tail(ioq))
    BY <2>2, <2>3, DoCloseEnds
  <2>5. QED
    BY <1>1, <1>3, <2>1, <2>3, <2>4 DEF Ending
<1>5. CASE RunReadError
  <2>1. Head(ioq).op = "read"
    BY <1>5 DEF RunReadError, Takes
  <2>2. PICK x \in Head(ioq).to : DoClose(x, Tail(ioq))
    BY <1>5 DEF RunReadError
  <2>3. x \in Clients /\ Ends(x, Tail(ioq))
    BY <1>2, <2>2, DoCloseEnds
  <2>4. QED
    BY <1>1, <1>3, <2>1, <2>3 DEF Ending
<1>6. CASE RunShutdown
  <2>1. Head(ioq).op = "shutdown" /\ ready' = ready
    BY <1>6 DEF RunShutdown, Takes
  <2>2. PICK x \in Head(ioq).to : /\ phase' = [phase EXCEPT ![x] = "closed"]
                                  /\ HandleDisconnect(x, Tail(ioq))
    BY <1>6 DEF RunShutdown
  <2>3. Head(ioq) \in Sound
    BY <1>1, HeadAndTail
  <2>4. x \in Clients /\ phase[x] \in {"closing", "closed"}
    BY <1>2, <2>1, <2>2, <2>3 DEF Sound
  <2>5. ~ready[x]
    BY <2>4 DEF ReadyIsUp
  <2>6. Ends(x, Tail(ioq))
    BY <2>1, <2>2, <2>4, <2>5 DEF Ends, Active, TypeOK, HandleDisconnect
  <2>7. QED
    BY <1>1, <1>3, <2>1, <2>4, <2>6 DEF Ending
<1>7. CASE RunSsl
  <2>1. Head(ioq).op = "ssl"
    BY <1>7 DEF RunSsl, Takes
  <2>2. PICK x \in Head(ioq).to :
          \/ /\ Active(x)
             /\ phase' = [phase EXCEPT ![x] = "up"] /\ ioq' = Tail(ioq)
             /\ UNCHANGED <<ready, hostClientId, sessions>>
          \/ DoClose(x, Tail(ioq))
    BY <1>7 DEF RunSsl
  <2>3. x \in Clients
    BY <1>2, <2>2
  <2>4. CASE DoClose(x, Tail(ioq))
    BY <1>1, <1>3, <2>1, <2>3, <2>4, DoCloseEnds DEF Ending
  <2>5. CASE /\ Active(x)
             /\ phase' = [phase EXCEPT ![x] = "up"] /\ ioq' = Tail(ioq)
             /\ UNCHANGED <<ready, hostClientId, sessions>>
    BY <1>1, <1>3, <2>1, <2>2, <2>3, <2>5 DEF ComesUp
  <2>6. QED
    BY <2>2, <2>4, <2>5
<1>8. QED
  BY <1>4, <1>5, <1>6, <1>7
-----------------------------------------------------------------------------
(* What joins the queue is sound *)

\* What the environment and the UI thread leave alone.
Standing == <<nextClientId, sessions, phase, ready, name, role, hostClientId, handling, view>>

\* Entries that send nothing.
Silent(q) == \A i \in 1..Len(q) : q[i].op # "send"

Update(q) == \E c \in Clients : q = Send({c}, Plain("fs"))

LEMMA OthersSound ==
  ASSUME TypeOK, HostParts, Fresh, Completes \/ UIThread
  PROVE  /\ UNCHANGED Standing
         /\ \E q \in Seq(Sound) : ioq' = ioq \o q /\ (Silent(q) \/ Update(q))
<1>1. UNCHANGED Standing
  BY DEF Standing, Completes, UIThread, AcceptCompletes, ReadCompletes, SslHandshakeCompletes,
         ShutdownCompletes, Start, UpdateBegins, UpdateSent, registry, attributes
<1>2. ASSUME NEW e \in QueueEntries, \A c \in e.to : c < nextClientId /\ phase[c] = "closing",
             e.op # "send", Enqueue(e)
      PROVE  \E q \in Seq(Sound) : ioq' = ioq \o q /\ (Silent(q) \/ Update(q))
  <2>1. e \in Sound
    BY <1>2 DEF Sound
  <2>2. ioq' = ioq \o <<e>>
    BY <1>2, AppendIsConcat DEF Enqueue, TypeOK
  <2>3. Silent(<<e>>)
    BY <1>2 DEF Silent
  <2>4. QED
    BY <2>1, <2>2, <2>3, Singles
<1>3. ASSUME NEW e \in QueueEntries, \A c \in e.to : c < nextClientId,
             e.op \notin {"send", "shutdown"}, Enqueue(e)
      PROVE  \E q \in Seq(Sound) : ioq' = ioq \o q /\ (Silent(q) \/ Update(q))
  <2>1. e \in Sound
    BY <1>3 DEF Sound
  <2>2. ioq' = ioq \o <<e>>
    BY <1>3, AppendIsConcat DEF Enqueue, TypeOK
  <2>3. Silent(<<e>>)
    BY <1>3 DEF Silent
  <2>4. QED
    BY <2>1, <2>2, <2>3, Singles
<1>4. CASE AcceptCompletes
  <2>1. PICK ok \in BOOLEAN : Enqueue(Entry("accept", {}, [type |-> "accept", ok |-> ok]))
    BY <1>4 DEF AcceptCompletes, Outcomes
  <2>2. Entry("accept", {}, [type |-> "accept", ok |-> ok]) \in QueueEntries
    BY AcceptEntryType
  <2>3. QED
    BY <1>1, <1>3, <2>1, <2>2 DEF Entry
<1>5. ASSUME NEW c \in Clients, phase[c] \in {"ssl", "up", "closing"}
      PROVE  c < nextClientId
  BY <1>5 DEF HostParts, NotYetUp, TypeOK, Clients
<1>6. ASSUME NEW c \in Clients, ReadCompletes(c)
      PROVE  \E q \in Seq(Sound) : ioq' = ioq \o q /\ (Silent(q) \/ Update(q))
  <2>1. PICK r \in RequestsOf(c) : Enqueue(Entry("read", {c}, r))
    BY <1>6 DEF ReadCompletes
  <2>2. r \in Requests
    BY <2>1, RequestsOfType
  <2>3. Entry("read", {c}, r) \in QueueEntries
    BY <2>2, OtherEntryTypes
  <2>4. c < nextClientId
    BY <1>5, <1>6 DEF ReadCompletes
  <2>5. QED
    BY <1>3, <2>1, <2>3, <2>4 DEF Entry
<1>7. ASSUME NEW c \in Clients, SslHandshakeCompletes(c)
      PROVE  \E q \in Seq(Sound) : ioq' = ioq \o q /\ (Silent(q) \/ Update(q))
  <2>1. PICK ok \in BOOLEAN : Enqueue(Entry("ssl", {c}, [type |-> "ssl", ok |-> ok]))
    BY <1>7 DEF SslHandshakeCompletes, Outcomes
  <2>2. Entry("ssl", {c}, [type |-> "ssl", ok |-> ok]) \in QueueEntries
    BY OtherEntryTypes
  <2>3. c < nextClientId
    BY <1>5, <1>7 DEF SslHandshakeCompletes
  <2>4. QED
    BY <1>3, <2>1, <2>2, <2>3 DEF Entry
<1>8. ASSUME NEW c \in Clients, ShutdownCompletes(c)
      PROVE  \E q \in Seq(Sound) : ioq' = ioq \o q /\ (Silent(q) \/ Update(q))
  <2>1. /\ Enqueue(Entry("shutdown", {c}, [type |-> "shutdown"]))
        /\ phase[c] = "closing"
    BY <1>8 DEF ShutdownCompletes
  <2>2. Entry("shutdown", {c}, [type |-> "shutdown"]) \in QueueEntries
    BY OtherEntryTypes
  <2>3. c < nextClientId
    BY <1>5, <2>1
  <2>4. QED
    BY <1>2, <2>1, <2>2, <2>3 DEF Entry
<1>9. CASE Start \/ UpdateBegins
  <2>1. ioq' = ioq /\ ioq \o <<>> = ioq
    BY <1>9 DEF Start, UpdateBegins, TypeOK
  <2>2. Silent(<<>>)
    BY DEF Silent
  <2>3. QED
    BY <1>1, <2>1, <2>2, NothingSound
<1>10. ASSUME NEW c \in Clients, UpdateSent(c)
       PROVE  \E q \in Seq(Sound) : ioq' = ioq \o q /\ (Silent(q) \/ Update(q))
  <2>1. Send({c}, Plain("fs")) \in Seq(Sound)
    BY MessageTypes, SendSound DEF HostParts
  <2>2. ioq' = ioq \o Send({c}, Plain("fs")) /\ Update(Send({c}, Plain("fs")))
    BY <1>10 DEF UpdateSent, Update
  <2>3. QED
    BY <2>1, <2>2
<1>11. QED
  BY <1>1, <1>4, <1>6, <1>7, <1>8, <1>9, <1>10 DEF Completes, UIThread

LEMMA CloseSound ==
  ASSUME NEW c \in Clients, c < nextClientId
  PROVE  Close(c) \in Sound /\ <<Close(c)>> \in Seq(Sound)
<1>1. Close(c) \in Sound
  BY OtherEntryTypes DEF Sound, Close, Entry
<1>2. QED
  BY <1>1, Singles

\* Messages of clients that have been let in.
LEMMA MessageSound ==
  ASSUME TypeOK, HostParts, Fresh, NEW c \in Clients, Message(c)
  PROVE  \E q \in Seq(Sound) : Posts(c, q)
<1> DEFINE r == Head(ioq).arg
<1>1. \A S \in SUBSET Clients : \A m \in Messages : Send(S, m) \in Seq(Sound)
  BY SendSound DEF HostParts
<1>2. CASE RunInput(c)
  <2>1. Send(Listeners, InputMsg(c)) \in Seq(Sound)
    BY <1>1, MessageTypes, ReadyType
  <2>2. QED
    BY <1>2, <2>1, NothingSound DEF RunInput
<1>3. CASE RunOther(c)
  <2>1. /\ Send(ReadySessions, Plain("chat")) \in Seq(Sound)
        /\ Send({c}, Plain("reply")) \in Seq(Sound)
        /\ Send(ReadySessions, Plain("fs")) \in Seq(Sound)
    BY <1>1, MessageTypes, ReadyType
  <2>2. QED
    BY <1>3, <2>1, NothingSound DEF RunOther
<1>4. CASE RunShutdownCommand(c)
  <2>1. Send(ReadySessions, Plain("server_shutdown_imminent")) \in Seq(Sound)
    BY <1>1, MessageTypes, ReadyType
  <2>2. <<StopEntry>> \in Seq(Sound)
    <3>1. StopEntry \in Sound
      BY OtherEntryTypes DEF Sound, StopEntry, Entry
    <3>2. QED
      BY <3>1, Singles
  <2>3. Send(ReadySessions, Plain("server_shutdown_imminent")) \o <<StopEntry>> \in Seq(Sound)
    BY <2>1, <2>2, Joins
  <2>4. QED
    BY <1>4, <2>3 DEF RunShutdownCommand
<1>5. CASE RunKick(c)
  <2>1. CASE r.who \in sessions \ {hostClientId}
    <3>1. r.who \in Clients /\ r.who \in Int /\ nextClientId \in Int
      <4>1. r.who \in Clients
        BY <2>1 DEF TypeOK
      <4>2. \A d \in Clients : d \in Int
        BY DEF Clients
      <4>3. nextClientId \in Int
        BY DEF TypeOK
      <4>4. QED
        BY <4>1, <4>2, <4>3
    <3>2. r.who < nextClientId
      <4>1. ~(r.who >= nextClientId)
        BY <2>1, <3>1 DEF Fresh
      <4>2. QED
        BY <3>1, <4>1
    <3>3. <<Close(r.who)>> \in Seq(Sound)
      BY <3>1, <3>2, CloseSound
    <3>4. QED
      BY <1>5, <2>1, <3>3 DEF RunKick
  <2>2. CASE r.who \notin sessions \ {hostClientId}
    BY <1>5, <2>2, NothingSound DEF RunKick
  <2>3. QED
    BY <2>1, <2>2
<1>6. CASE RunRename(c)
  <2>1. r.who \in Clients /\ r.name \in AllNames
    BY <1>6, RenameAsked
  <2>2. /\ Send({r.who}, Plain("you_were_renamed")) \in Seq(Sound)
        /\ Send(ReadySessions, RenamedMsg(r.who, r.name)) \in Seq(Sound)
    BY <1>1, <2>1, MessageTypes, ReadyType
  <2>3. AnnounceRename(r.who, r.name) \in Seq(Sound)
    BY <2>2, Joins DEF AnnounceRename
  <2>4. QED
    BY <1>6, <2>3, NothingSound DEF RunRename
<1>7. CASE RunToggle(c)
  BY <1>7, NothingSound DEF RunToggle
<1>8. QED
  BY <1>2, <1>3, <1>4, <1>5, <1>6, <1>7 DEF Message

\* What the answer to a handshake says.
Introduced(c, r) == [name |-> r.name, role |-> Granted(c, r.role)]

Roster(c, r) ==
  [d \in Clients |-> IF d \notin ReadySessions THEN Absent
                     ELSE IF d = c THEN Introduced(c, r)
                     ELSE [name |-> name[d], role |-> role[d]]]

\* Its last part.
Files(c, r) == IF Granted(c, r.role) = "Host" THEN <<>> ELSE Send({c}, Plain("fs"))

LEMMA WelcomePosts ==
  ASSUME TypeOK, RolesAssumption, ioq # <<>>, NEW c \in Clients, NEW r \in Requests,
         r.type = "handshake", Welcome(c, r)
  PROVE  /\ Introduced(c, r) \in [name : AllNames, role : AllRoles]
         /\ JoinedMsg(c, Introduced(c, r)) \in Messages
         /\ ListMsg(Roster(c, r)) \in Messages
         /\ ioq' = Tail(ioq) \o Send({c}, Plain("answer"))
                     \o (Send(ReadySessions \ {c}, JoinedMsg(c, Introduced(c, r)))
                           \o Send({c}, ListMsg(Roster(c, r))))
                     \o Files(c, r)
<1>1. r.name \in AllNames /\ r.role \in AllRoles
  BY RequestTypes, RolesAssumption DEF RolesAssumption, AllNames, AllRoles
<1>2. Granted(c, r.role) \in AllRoles
  BY <1>1 DEF Granted, AllRoles
<1>3. Introduced(c, r) \in [name : AllNames, role : AllRoles]
  BY <1>1, <1>2 DEF Introduced
<1>4. \A d \in Clients : Roster(c, r)[d] \in Entries
  BY <1>3 DEF Roster, TypeOK, Entries
<1>5. Roster(c, r) \in [Clients -> Entries]
  BY <1>4 DEF Roster
<1>6. JoinedMsg(c, Introduced(c, r)) \in Messages /\ ListMsg(Roster(c, r)) \in Messages
  BY <1>3, <1>5, MessageTypes DEF Entries
<1>7. QED
  BY <1>3, <1>6 DEF Welcome, NotifyClientJoined, Introduced, Roster, Files

\* z is h with something after it.
Longer(z, h, S) == \E q \in Seq(S) : z = h \o q

LEMMA StillLonger ==
  ASSUME NEW S, NEW h \in Seq(S), NEW z, NEW p \in Seq(S), Longer(z, h, S)
  PROVE  Longer(z \o p, h, S)
<1>1. PICK q \in Seq(S) : z = h \o q
  BY DEF Longer
<1>2. q \o p \in Seq(S)
  BY Joins
<1>3. (h \o q) \o p = h \o (q \o p)
  OBVIOUS
<1>4. QED
  BY <1>1, <1>2, <1>3 DEF Longer

LEMMA NoLonger ==
  ASSUME NEW S, NEW h \in Seq(S)
  PROVE  Longer(h, h, S)
<1>1. h = h \o <<>> /\ <<>> \in Seq(S)
  BY EmptySeq
<1>2. QED
  BY <1>1 DEF Longer

\* Both answers to a handshake.
LEMMA HandshakeSound ==
  ASSUME TypeOK, HostParts, RolesAssumption, ioq # <<>>, NEW c \in Clients,
         c < nextClientId, NEW r \in Requests, r.type = "handshake",
         Welcome(c, r) \/ ioq' = Refusal(c, r),
         Tail(ioq) \in Seq(Sound)
  PROVE  Longer(ioq', Tail(ioq), Sound)
<1>1. \A S \in SUBSET Clients : \A m \in Messages : Send(S, m) \in Seq(Sound)
  BY SendSound DEF HostParts
<1>2. CASE Welcome(c, r)
  <2> DEFINE answer == Send({c}, Plain("answer"))
             joined == Send(ReadySessions \ {c}, JoinedMsg(c, Introduced(c, r)))
             list == Send({c}, ListMsg(Roster(c, r)))
  <2>1. ioq' = Tail(ioq) \o answer \o (joined \o list) \o Files(c, r)
    BY <1>2, WelcomePosts
  <2>2. answer \in Seq(Sound) /\ joined \in Seq(Sound) /\ list \in Seq(Sound)
    BY <1>1, <1>2, WelcomePosts, MessageTypes, ReadyType
  <2>3. Files(c, r) \in Seq(Sound)
    BY <1>1, MessageTypes, NothingSound DEF Files
  <2>4. joined \o list \in Seq(Sound)
    <3> HIDE DEF joined, list
    <3> QED
      BY <2>2, Joins
  <2>5. Longer(Tail(ioq) \o answer, Tail(ioq), Sound)
    BY <2>2, NoLonger, StillLonger
  <2>6. Longer(Tail(ioq) \o answer \o (joined \o list), Tail(ioq), Sound)
    BY <2>4, <2>5, StillLonger
  <2>7. Longer(Tail(ioq) \o answer \o (joined \o list) \o Files(c, r), Tail(ioq), Sound)
    BY <2>3, <2>6, StillLonger
  <2>8. QED
    BY <2>1, <2>7
<1>3. CASE ioq' = Refusal(c, r)
  <2> DEFINE told == IF r.password = "wrong" THEN Send({c}, Plain("auth_failed")) ELSE <<>>
  <2>1. told \in Seq(Sound)
    BY <1>1, MessageTypes, NothingSound
  <2>2. <<Close(c)>> \in Seq(Sound)
    BY CloseSound
  <2>3. ioq' = Tail(ioq) \o told \o <<Close(c)>>
    BY <1>3 DEF Refusal
  <2> HIDE DEF told
  <2>4. Longer(Tail(ioq) \o told, Tail(ioq), Sound)
    BY <2>1, NoLonger, StillLonger
  <2>5. QED
    BY <2>2, <2>3, <2>4, StillLonger
<1>4. QED
  BY <1>2, <1>3
-----------------------------------------------------------------------------
(* The order of things is kept *)

\* Steps that bring up no session of sessions_, forget none that stays open, and keep
\* the closes of the forgotten ahead.
LEMMA OrphansKept ==
  ASSUME OrphansFirst, sessions' \subseteq sessions,
         \A c \in sessions' : phase'[c] = "up" => phase[c] = "up",
         \A o \in Clients : Active(o)' /\ o \notin sessions' =>
           /\ Active(o) /\ o \notin sessions
           /\ Ahead(ioq, o, sessions) => Ahead(ioq', o, sessions')
  PROVE  OrphansFirst'
  BY DEF OrphansFirst

\* What a step of the io thread leaves of the queue keeps a close ahead that it has not
\* run.
LEMMA AheadOn ==
  ASSUME ioq \in Seq(QueueEntries), ioq # <<>>, NEW o, NEW T \in SUBSET sessions,
         Longer(ioq', Tail(ioq), QueueEntries), ~Closes(o, Head(ioq)),
         Ahead(ioq, o, sessions)
  PROVE  Ahead(ioq', o, T)
<1>1. Tail(ioq) \in Seq(QueueEntries) /\ Ahead(Tail(ioq), o, sessions)
  BY AheadTail, HeadAndTail
<1>2. PICK q \in Seq(QueueEntries) : ioq' = Tail(ioq) \o q
  BY DEF Longer
<1>3. QED
  BY <1>1, <1>2, AheadJoin

LEMMA LongerSeq ==
  ASSUME NEW S, NEW h \in Seq(S), NEW z, Longer(z, h, S)
  PROVE  z \in Seq(S)
  BY Joins DEF Longer

LEMMA LongerQueue ==
  ASSUME NEW h, NEW z, Longer(z, h, Sound)
  PROVE  Longer(z, h, QueueEntries)
  BY SoundType DEF Longer

\* The steps that only make the queue longer.
LEMMA OrderStanding ==
  ASSUME TypeOK, InHandshake, Order, UNCHANGED Standing, NEW q \in Seq(Sound), ioq' = ioq \o q
  PROVE  Order'
<1>1. Sound' = Sound
  BY DEF Standing, Sound
<1>2. ioq' \in Seq(Sound')
  BY <1>1, Joins DEF Order
<1>3. Fresh'
  BY DEF Order, Fresh, Standing
<1>4. handling => ioq # <<>> /\ Head(ioq') = Head(ioq)
  <2>1. ioq # <<>> => Head(ioq \o q) = Head(ioq)
    BY HeadKept DEF Order
  <2>2. QED
    BY <2>1 DEF InHandshake
<1>5. ReadyIsUp'
  BY <1>4 DEF Order, ReadyIsUp, Standing, Handled
<1>6. OrphansFirst'
  <2>1. ASSUME NEW o \in Clients, Ahead(ioq, o, sessions)
        PROVE  Ahead(ioq', o, sessions')
    <3>1. ioq \in Seq(QueueEntries) /\ q \in Seq(QueueEntries) /\ sessions' = sessions
      BY SoundType DEF Order, Standing
    <3>2. QED
      BY <2>1, <3>1, AheadJoin
  <2>2. QED
    BY <2>1, OrphansKept DEF Standing, Active, Order
<1>7. QED
  BY <1>2, <1>3, <1>5, <1>6 DEF Order

\* A step of the io thread that posts what is sound.
LEMMA OrderPosting ==
  ASSUME TypeOK, Order, ioq # <<>>, Longer(ioq', Tail(ioq), Sound),
         UNCHANGED <<phase, sessions, nextClientId>>,
         Head(ioq).op # "close", Fresh', ReadyIsUp'
  PROVE  Order'
<1>1. ioq' \in Seq(Sound')
  <2>1. Sound' = Sound
    BY DEF Sound
  <2>2. Tail(ioq) \in Seq(Sound)
    BY HeadAndTail DEF Order
  <2>3. QED
    BY <2>1, <2>2, LongerSeq
<1>2. OrphansFirst'
  <2>1. ASSUME NEW o \in Clients, Ahead(ioq, o, sessions)
        PROVE  Ahead(ioq', o, sessions')
    <3>1. Longer(ioq', Tail(ioq), QueueEntries) /\ ~Closes(o, Head(ioq))
      BY LongerQueue DEF Closes
    <3>2. QED
      BY <2>1, <3>1, AheadOn DEF TypeOK
  <2>2. QED
    BY <2>1, OrphansKept DEF Active, Order
<1>3. QED
  BY <1>1, <1>2 DEF Order

LEMMA OrderEnding ==
  ASSUME TypeOK, HostParts, Order, NEW x \in Clients, Ending(x)
  PROVE  Order'
<1>1. /\ ioq # <<>> /\ ~handling
      /\ Head(ioq).op = "close" => Head(ioq).to = {x}
      /\ Ends(x, Tail(ioq))
      /\ UNCHANGED <<nextClientId, name, role, handling, view>>
  BY DEF Ending
<1>2. Tail(ioq) \in Seq(Sound)
  BY <1>1, HeadAndTail DEF Order
<1>3. Longer(ioq', Tail(ioq), Sound)
  <2>1. CASE ioq' = Tail(ioq)
    BY <1>2, <2>1, NoLonger
  <2>2. CASE ioq' # Tail(ioq)
    <3>1. PICK first \in {<<>>, Send(ReadySessions, Plain("host_left"))} :
            ioq' = Tail(ioq) \o first \o Send(ReadySessions, LeftMsg(x))
      BY <1>1, <2>2 DEF Ends
    <3>2. first \in Seq(Sound) /\ Send(ReadySessions, LeftMsg(x)) \in Seq(Sound)
      BY MessageTypes, ReadyType, SendSound, NothingSound DEF HostParts
    <3>3. Longer(Tail(ioq) \o first, Tail(ioq), Sound)
      BY <1>2, <3>2, NoLonger, StillLonger
    <3>4. QED
      BY <1>2, <3>1, <3>2, <3>3, StillLonger
  <2>3. QED
    BY <2>1, <2>2
<1>4. ioq' \in Seq(Sound')
  <2>1. \A c \in Clients : phase[c] \in {"closing", "closed"} =>
                             phase'[c] \in {"closing", "closed"}
    BY <1>1 DEF Ends
  <2>2. nextClientId \in Int
    BY DEF TypeOK
  <2>3. Seq(Sound) \subseteq Seq(Sound')
    BY <1>1, <2>1, <2>2, SoundGrows
  <2>4. QED
    BY <1>2, <1>3, <2>3, LongerSeq
<1>5. sessions' \subseteq sessions
  BY <1>1 DEF Ends
<1>6. Fresh'
  BY <1>1, <1>5 DEF Order, Fresh
<1>7. ReadyIsUp'
  BY <1>1 DEF Order, ReadyIsUp, Ends, Handled, Active, Clients, Nobody
<1>8. OrphansFirst'
  <2>1. \A c \in sessions' : phase'[c] = "up" => phase[c] = "up"
    BY <1>1, <1>5 DEF Ends, Active, TypeOK
  <2>2. ASSUME NEW o \in Clients, Active(o)', o \notin sessions'
        PROVE  /\ Active(o) /\ o \notin sessions
               /\ Ahead(ioq, o, sessions) => Ahead(ioq', o, sessions')
    <3>1. o # x
      BY <1>1, <2>2 DEF Ends
    <3>2. Active(o) /\ o \notin sessions
      BY <1>1, <2>2, <3>1 DEF Ends, Active
    <3>3. Longer(ioq', Tail(ioq), QueueEntries) /\ ~Closes(o, Head(ioq))
      BY <1>1, <1>3, <3>1, LongerQueue DEF Closes
    <3>4. QED
      BY <1>1, <1>5, <3>2, <3>3, AheadOn DEF TypeOK
  <2>3. QED
    BY <1>5, <2>1, <2>2, OrphansKept DEF Order
<1>9. QED
  BY <1>4, <1>6, <1>7, <1>8 DEF Order

LEMMA OrderComesUp ==
  ASSUME TypeOK, HostParts, Order, NEW x \in Clients, ComesUp(x)
  PROVE  Order'
<1>1. /\ ioq # <<>> /\ ~handling /\ Head(ioq).op = "ssl" /\ x \in Head(ioq).to
      /\ phase[x] \in {"ssl", "up"} /\ phase' = [phase EXCEPT ![x] = "up"]
      /\ ioq' = Tail(ioq)
      /\ UNCHANGED <<nextClientId, sessions, ready, name, role, hostClientId, handling, view>>
  BY DEF ComesUp, Active
<1>2. phase'[x] = "up" /\ \A c \in Clients \ {x} : phase'[c] = phase[c]
  BY <1>1 DEF TypeOK
<1>3. ioq' \in Seq(Sound')
  <2>1. Tail(ioq) \in Seq(Sound)
    BY <1>1, HeadAndTail DEF Order
  <2>2. \A c \in Clients : phase[c] \in {"closing", "closed"} =>
                             phase'[c] \in {"closing", "closed"}
    BY <1>1, <1>2
  <2>3. nextClientId \in Int
    BY DEF TypeOK
  <2>4. Seq(Sound) \subseteq Seq(Sound')
    BY <1>1, <2>2, <2>3, SoundGrows
  <2>5. QED
    BY <1>1, <2>1, <2>4
<1>4. Fresh'
  BY <1>1 DEF Order, Fresh
<1>5. ReadyIsUp'
  <2>1. hostClientId = x => ready[x]
    <3>1. hostClientId = x => phase[x] = "up"
      BY <1>1 DEF HostParts, HostIsOpen, Nobody, Clients
    <3>2. QED
      BY <3>1 DEF Order, ReadyIsUp
  <2>2. QED
    BY <1>1, <1>2, <2>1 DEF Order, ReadyIsUp, Handled
<1>6. OrphansFirst'
  <2>1. ASSUME NEW o \in Clients, Active(o)', o \notin sessions'
        PROVE  (\A k \in sessions' : phase'[k] # "up") /\ Ahead(ioq', o, sessions')
    <3>1. Active(o) /\ o \notin sessions
      BY <1>1, <1>2, <2>1 DEF Active
    <3>2. Ahead(ioq, o, sessions) /\ \A k \in sessions : phase[k] # "up"
      BY <3>1 DEF Order, OrphansFirst
    <3>3. x \notin sessions
      BY <1>1, <3>2, AheadSsl DEF TypeOK
    <3>4. \A k \in sessions' : phase'[k] # "up"
      BY <1>1, <1>2, <3>2, <3>3 DEF TypeOK
    <3>5. Ahead(ioq', o, sessions')
      BY <1>1, <3>2, AheadTail DEF TypeOK, Closes
    <3>6. QED
      BY <3>4, <3>5
  <2>2. QED
    BY <2>1 DEF OrphansFirst
<1>7. QED
  BY <1>3, <1>4, <1>5, <1>6 DEF Order

LEMMA OrderAccept ==
  ASSUME TypeOK, HostParts, Order, RunAccept
  PROVE  Order'
<1>1. /\ ioq # <<>> /\ ~handling /\ Head(ioq).op = "accept" /\ ioq' = Tail(ioq)
      /\ UNCHANGED <<ready, name, role, hostClientId, handling, view>>
  BY DEF RunAccept, Takes, attributes
<1>2. Tail(ioq) \in Seq(Sound)
  BY <1>1, HeadAndTail DEF Order
<1>3. \A o : Ahead(ioq, o, sessions) => Ahead(ioq', o, sessions)
  BY <1>1, AheadTail DEF Closes, TypeOK
<1>4. CASE UNCHANGED <<nextClientId, sessions, phase>>
  <2>1. Longer(ioq', Tail(ioq), Sound)
    BY <1>1, <1>2, NoLonger
  <2>2. Fresh' /\ ReadyIsUp'
    BY <1>1, <1>4 DEF Order, Fresh, ReadyIsUp, Handled
  <2>3. QED
    BY <1>1, <1>4, <2>1, <2>2, OrderPosting
<1>5. CASE ~UNCHANGED <<nextClientId, sessions, phase>>
  <2> DEFINE k == nextClientId
  <2>1. /\ k <= MaxClients /\ nextClientId' = k + 1
        /\ sessions' = sessions \union {k}
        /\ phase' = [phase EXCEPT ![k] = "ssl"]
    BY <1>5 DEF RunAccept
  <2>2. k \in Clients /\ k \in Int /\ nextClientId' \in Int /\ nextClientId' >= k
    BY <2>1 DEF TypeOK, Clients
  <2>3. phase[k] \in {"none", "closed"}
    BY <2>2 DEF HostParts, NotYetUp
  <2>4. phase'[k] = "ssl" /\ \A c \in Clients \ {k} : phase'[c] = phase[c]
    BY <2>1, <2>2 DEF TypeOK
  <2>5. ioq' \in Seq(Sound')
    <3>1. \A c \in Clients : c < nextClientId /\ phase[c] \in {"closing", "closed"} =>
                               phase'[c] \in {"closing", "closed"}
      BY <2>2, <2>4
    <3>2. Seq(Sound) \subseteq Seq(Sound')
      BY <2>2, <3>1, SoundGrows
    <3>3. QED
      BY <1>1, <1>2, <3>2
  <2>6. Fresh'
    <3>1. ASSUME NEW c \in Clients, c >= nextClientId'
          PROVE  c >= nextClientId /\ c # k
      BY <2>1, <2>2, <3>1 DEF Clients
    <3>2. QED
      BY <1>1, <2>1, <3>1 DEF Order, Fresh
  <2>7. ReadyIsUp'
    <3>1. ~ready[k]
      BY <2>2, <2>3 DEF Order, ReadyIsUp
    <3>2. QED
      BY <1>1, <2>2, <2>4, <3>1 DEF Order, ReadyIsUp, Handled
  <2>8. \A i \in 1..Len(ioq') : k \notin ioq'[i].to
    <3>1. \A i \in 1..Len(ioq') : ioq'[i] \in Sound
      BY <1>1, <1>2
    <3>2. \A e \in Sound : k \notin e.to
      BY <2>2 DEF Sound
    <3>3. QED
      BY <3>1, <3>2
  <2>9. OrphansFirst'
    <3>1. ASSUME NEW o \in Clients, Active(o)', o \notin sessions'
          PROVE  (\A c \in sessions' : phase'[c] # "up") /\ Ahead(ioq', o, sessions')
      <4>1. o # k /\ Active(o) /\ o \notin sessions
        BY <2>1, <2>4, <3>1 DEF Active
      <4>2. Ahead(ioq', o, sessions) /\ \A c \in sessions : phase[c] # "up"
        BY <1>3, <4>1 DEF Order, OrphansFirst
      <4>3. \A c \in sessions' : phase'[c] # "up"
        BY <2>1, <2>4, <4>2 DEF TypeOK
      <4>4. Ahead(ioq', o, sessions')
        <5>1. ioq' \in Seq(QueueEntries)
          BY <1>1, <1>2, SoundType
        <5>2. QED
          BY <2>1, <2>8, <4>2, <5>1, AheadAccept
      <4>5. QED
        BY <4>3, <4>4
    <3>2. QED
      BY <3>1 DEF OrphansFirst
  <2>10. QED
    BY <2>5, <2>6, <2>7, <2>9 DEF Order
<1>6. QED
  BY <1>4, <1>5

LEMMA OrderSend ==
  ASSUME TypeOK, Order, RunSend
  PROVE  Order'
<1>1. /\ ioq # <<>> /\ ~handling /\ Head(ioq).op = "send" /\ ioq' = Tail(ioq)
      /\ UNCHANGED <<nextClientId, sessions, phase, ready, hostClientId, handling>>
  BY DEF RunSend, Takes, registry
<1>2. Longer(ioq', Tail(ioq), Sound) /\ Head(ioq) \in Sound
  BY <1>1, NoLonger, HeadAndTail DEF Order
<1>3. Fresh'
  <2>1. ASSUME NEW c \in Clients, c >= nextClientId
        PROVE  view'[c] = view[c]
    <3>1. c \notin Head(ioq).to
      <4>1. c < nextClientId \/ c \notin Head(ioq).to
        BY <1>2 DEF Sound
      <4>2. ~(c < nextClientId)
        BY <2>1 DEF TypeOK, Clients
      <4>3. QED
        BY <4>1, <4>2
    <3>2. QED
      BY <3>1 DEF RunSend
  <2>2. QED
    BY <1>1, <2>1 DEF Order, Fresh
<1>4. ReadyIsUp'
  BY <1>1 DEF Order, ReadyIsUp, Handled
<1>5. QED
  BY <1>1, <1>2, <1>3, <1>4, OrderPosting

LEMMA OrderStop ==
  ASSUME TypeOK, BoundsAssumption, NoOrphan, Order, RunStop
  PROVE  Order'
<1>1. /\ ioq # <<>> /\ ~handling /\ Head(ioq).op = "stop"
      /\ UNCHANGED <<nextClientId, phase, ready, hostClientId, handling, view>>
  BY DEF RunStop, Takes
<1>2. Tail(ioq) \in Seq(Sound)
  BY <1>1, HeadAndTail DEF Order
<1>3. ReadyIsUp'
  BY <1>1 DEF Order, ReadyIsUp, Handled
<1>4. CASE serverState = "Stopped"
  <2>1. ioq' = Tail(ioq) /\ sessions' = sessions
    BY <1>4 DEF RunStop
  <2>2. Longer(ioq', Tail(ioq), Sound)
    BY <1>2, <2>1, NoLonger
  <2>3. Fresh'
    BY <1>1, <2>1 DEF Order, Fresh
  <2>4. QED
    BY <1>1, <1>3, <2>1, <2>2, <2>3, OrderPosting
<1>5. CASE serverState # "Stopped"
  <2>1. ioq' = Tail(ioq) \o ClosesOfAll /\ sessions' = {}
    BY <1>5 DEF RunStop
  <2>2. ClosesOfAll \in Seq(Sound)
    <3> DEFINE C == {Close(c) : c \in sessions}
    <3>1. \A c \in sessions : c \in Clients /\ c < nextClientId
      <4>1. \A c \in sessions : c \in Clients /\ ~(c >= nextClientId)
        BY DEF Order, Fresh, TypeOK
      <4>2. nextClientId \in Int /\ \A c \in Clients : c \in Int
        BY DEF TypeOK, Clients
      <4>3. QED
        BY <4>1, <4>2
    <3>2. C \subseteq Sound
      BY <3>1, CloseSound
    <3>3. SetToSeq(C) \in Seq(C)
      BY SessionsFinite, EnumerationExists DEF TypeOK
    <3>4. SetToSeq(C) \in Seq(Sound)
      BY <3>2, <3>3, SeqDef
    <3>5. QED
      BY <3>4 DEF ClosesOfAll
  <2>3. ioq' \in Seq(Sound')
    <3>1. Sound' = Sound
      BY <1>1 DEF Sound
    <3>2. QED
      BY <1>2, <2>1, <2>2, <3>1, Joins
  <2>4. Fresh'
    BY <1>1, <2>1 DEF Order, Fresh
  <2>5. OrphansFirst'
    <3>1. NoOrphan'
      BY OrphanStop
    <3>2. ASSUME NEW o \in Clients, Active(o)'
          PROVE  Ahead(ioq', o, {})
      <4>1. PICK i \in 1..Len(ioq') : ioq'[i].op = "close" /\ o \in ioq'[i].to
        BY <2>1, <3>1, <3>2 DEF NoOrphan, CloseQueued
      <4>2. QED
        BY <4>1 DEF Ahead, Closes
    <3>3. QED
      BY <2>1, <3>2 DEF OrphansFirst
  <2>6. QED
    BY <1>3, <2>3, <2>4, <2>5 DEF Order
<1>6. QED
  BY <1>4, <1>5

LEMMA OrderHandshake ==
  ASSUME TypeOK, InHandshake, HostParts, RolesAssumption, Order,
         RunReadHandshake \/ ProcessHandshake
  PROVE  Order'
<1>1. UNCHANGED <<nextClientId, sessions, phase, view>>
  BY DEF RunReadHandshake, ProcessHandshake, registry
<1>2. Fresh'
  BY <1>1 DEF Order, Fresh
<1>3. CASE RunReadHandshake
  <2>1. ioq # <<>> /\ Head(ioq).op = "read" /\ ~handling /\ handling' /\ ioq' = ioq
        /\ hostClientId' = hostClientId
    BY <1>3 DEF RunReadHandshake, Takes
  <2>2. PICK x \in Head(ioq).to : phase[x] = "up" /\ ready' = [ready EXCEPT ![x] = TRUE]
    BY <1>3 DEF RunReadHandshake
  <2>3. x \in Clients /\ Head(ioq).to = {x}
    BY <2>1, <2>2, HeadType, HeadOfOp
  <2>4. ready'[x] /\ \A c \in Clients \ {x} : ready'[c] = ready[c]
    BY <2>2, <2>3 DEF TypeOK
  <2>5. ReadyIsUp'
    BY <1>1, <2>1, <2>2, <2>3, <2>4 DEF Order, ReadyIsUp, Handled
  <2>6. ioq' \in Seq(Sound')
    BY <1>1, <2>1 DEF Order, Sound
  <2>7. OrphansFirst'
    BY <1>1, <2>1, OrphansKept DEF Order, Active
  <2>8. QED
    BY <1>2, <2>5, <2>6, <2>7 DEF Order
<1>4. CASE ProcessHandshake
  <2>1. /\ ioq # <<>> /\ Head(ioq).op = "read" /\ Head(ioq).arg.type = "handshake"
        /\ handling /\ ~handling' /\ ready' = ready
    BY <1>4 DEF ProcessHandshake, InHandshake
  <2>2. PICK x \in Head(ioq).to :
          \/ Welcome(x, Head(ioq).arg)
          \/ ioq' = Refusal(x, Head(ioq).arg) /\ UNCHANGED hostClientId
    BY <1>4 DEF ProcessHandshake
  <2>3. x \in Clients /\ Head(ioq).arg \in Requests /\ phase[x] = "up" /\ ready[x]
    BY <2>1, <2>2, ReadAtHead DEF InHandshake, Order, ReadyIsUp, Handled
  <2>4. Longer(ioq', Tail(ioq), Sound)
    <3>1. x < nextClientId
      BY <2>3 DEF HostParts, NotYetUp, TypeOK, Clients
    <3>2. Tail(ioq) \in Seq(Sound)
      BY <2>1, HeadAndTail DEF Order
    <3>3. QED
      BY <2>1, <2>2, <2>3, <3>1, <3>2, HandshakeSound
  <2>5. ReadyIsUp'
    <3>1. hostClientId' \in {hostClientId, x}
      BY <2>2 DEF Welcome
    <3>2. QED
      BY <1>1, <2>1, <2>3, <3>1 DEF Order, ReadyIsUp, Handled
  <2>6. QED
    BY <1>1, <1>2, <2>1, <2>4, <2>5, OrderPosting
<1>5. QED
  BY <1>3, <1>4

LEMMA OrderMessage ==
  ASSUME TypeOK, HostParts, Order, NEW c \in Clients, Message(c)
  PROVE  Order'
<1>1. ioq # <<>> /\ Head(ioq).op = "read" /\ ~handling
  BY MessageAtHead
<1>2. PICK q \in Seq(Sound) : Posts(c, q)
  BY MessageSound DEF Order
<1>3. /\ UNCHANGED <<nextClientId, sessions, phase, ready, hostClientId, handling, view>>
      /\ Longer(ioq', Tail(ioq), Sound)
  BY <1>2 DEF Posts, registry, Longer
<1>4. Fresh' /\ ReadyIsUp'
  BY <1>1, <1>3 DEF Order, Fresh, ReadyIsUp, Handled
<1>5. QED
  BY <1>1, <1>3, <1>4, OrderPosting

LEMMA OrderStep ==
  ASSUME BoundsAssumption, RolesAssumption, ServerInv, NoOrphan, Order, [Next]_vars
  PROVE  Order'
<1>1. TypeOK /\ InHandshake /\ HostParts
  BY DEF ServerInv
<1>2. CASE Completes \/ UIThread
  BY <1>1, <1>2, OthersSound, OrderStanding DEF Order
<1>3. CASE RunClose \/ RunShutdown \/ RunReadError \/ RunSsl
  BY <1>1, <1>3, EndingOrUp, OrderEnding, OrderComesUp DEF Order
<1>4. CASE RunAccept \/ RunSend \/ RunStop
  BY <1>1, <1>4, OrderAccept, OrderSend, OrderStop
<1>5. CASE RunReadHandshake \/ ProcessHandshake
  BY <1>1, <1>5, OrderHandshake
<1>6. CASE \E c \in Clients : Message(c)
  BY <1>1, <1>6, OrderMessage
<1>7. CASE UNCHANGED vars
  BY <1>7 DEF vars, registry, attributes, uiVars, Order, Sound, Fresh, ReadyIsUp, Handled,
              OrphansFirst, Active
<1>8. QED
  BY <1>2, <1>3, <1>4, <1>5, <1>6, <1>7 DEF Next, RunHead, Message

LEMMA OrderInit == ASSUME BoundsAssumption PROVE Init => Order
<1> SUFFICES ASSUME Init PROVE Order
  OBVIOUS
<1>1. ioq \in Seq(Sound)
  BY NothingSound DEF Init
<1>2. Fresh /\ ReadyIsUp /\ OrphansFirst
  BY DEF Init, Fresh, ReadyIsUp, OrphansFirst, Handled, Active
<1>3. QED
  BY <1>1, <1>2 DEF Order

\* The queue and the flags stay in order: no entry is about a session that does not
\* exist yet, only open sessions are ready, and a session that stop() has forgotten is
\* closed before a newer one has come up.
THEOREM Orderly == Spec => []Order
<1>1. Init => Order
  BY BoundsAssumption, OrderInit
<1>2. ServerInv /\ NoOrphan /\ Order /\ [Next]_vars => Order'
  BY BoundsAssumption, RolesAssumption, OrderStep
<1>3. QED
  BY <1>1, <1>2, Invariance, NothingForgotten, PTL DEF Spec
-----------------------------------------------------------------------------
(* What the sessions wait for *)

Completions == {"ssl", "read", "shutdown"}

\* A completion op for c is not in the queue q; it is there once.
None(q, op, c) == \A i \in 1..Len(q) : ~(q[i].op = op /\ c \in q[i].to)
Once(q, op, c) ==
  \E i \in 1..Len(q) : /\ q[i].op = op /\ c \in q[i].to
                       /\ \A j \in 1..Len(q) : q[j].op = op /\ c \in q[j].to => j = i

\* What handlers post is no completion.
Postings == {e \in QueueEntries : e.op \notin Completions}

LEMMA NoneJoin ==
  ASSUME NEW q \in Seq(QueueEntries), NEW p \in Seq(QueueEntries), NEW op, NEW c,
         None(p, op, c)
  PROVE  /\ None(q, op, c) => None(q \o p, op, c)
         /\ Once(q, op, c) => Once(q \o p, op, c)
<1>1. /\ Len(q) \in Nat /\ Len(p) \in Nat /\ Len(q \o p) = Len(q) + Len(p)
      /\ \A i \in 1..Len(q) : (q \o p)[i] = q[i]
      /\ \A i \in (Len(q) + 1)..(Len(q) + Len(p)) : (q \o p)[i] = p[i - Len(q)]
  BY LenProperties, ConcatProperties
<1>2. ASSUME NEW i \in 1..Len(q \o p), (q \o p)[i].op = op, c \in (q \o p)[i].to
      PROVE  i \in 1..Len(q) /\ (q \o p)[i] = q[i]
  <2>1. CASE i > Len(q)
    <3>1. i - Len(q) \in 1..Len(p) /\ (q \o p)[i] = p[i - Len(q)]
      BY <1>1, <2>1
    <3>2. QED
      BY <1>2, <3>1 DEF None
  <2>2. CASE i <= Len(q)
    BY <1>1, <2>2
  <2>3. QED
    BY <1>1, <2>1, <2>2
<1>3. ASSUME None(q, op, c) PROVE None(q \o p, op, c)
  BY <1>2, <1>3 DEF None
<1>4. ASSUME Once(q, op, c) PROVE Once(q \o p, op, c)
  <2>1. PICK i \in 1..Len(q) :
          /\ q[i].op = op /\ c \in q[i].to
          /\ \A j \in 1..Len(q) : q[j].op = op /\ c \in q[j].to => j = i
    BY <1>4 DEF Once
  <2>2. i \in 1..Len(q \o p) /\ (q \o p)[i] = q[i]
    BY <1>1
  <2>3. \A j \in 1..Len(q \o p) : (q \o p)[j].op = op /\ c \in (q \o p)[j].to => j = i
    BY <1>2, <2>1
  <2>4. QED
    BY <2>1, <2>2, <2>3 DEF Once
<1>5. QED
  BY <1>3, <1>4

\* A completion joins a queue that has none.
LEMMA OnceAppended ==
  ASSUME NEW q \in Seq(QueueEntries), NEW e \in QueueEntries, NEW c, c \in e.to,
         None(q, e.op, c)
  PROVE  Once(Append(q, e), e.op, c)
<1> DEFINE n == Len(q) + 1
<1>1. /\ Len(q) \in Nat /\ Len(Append(q, e)) = n /\ Append(q, e)[n] = e
      /\ \A i \in 1..Len(q) : Append(q, e)[i] = q[i]
  BY LenProperties, AppendProperties
<1>2. n \in 1..Len(Append(q, e))
  BY <1>1
<1>3. ASSUME NEW j \in 1..Len(Append(q, e)), Append(q, e)[j].op = e.op,
             c \in Append(q, e)[j].to
      PROVE  j = n
  <2>1. ASSUME j # n PROVE FALSE
    <3>1. j \in 1..Len(q)
      BY <1>1, <2>1
    <3>2. Append(q, e)[j] = q[j]
      BY <1>1, <3>1
    <3>3. QED
      BY <1>3, <3>1, <3>2 DEF None
  <2>2. QED
    BY <2>1
<1>4. QED
  BY <1>1, <1>2, <1>3 DEF Once

\* Taking the head of the queue.
LEMMA NoneTail ==
  ASSUME NEW q \in Seq(QueueEntries), q # <<>>, NEW op, NEW c
  PROVE  /\ None(q, op, c) => None(Tail(q), op, c)
         /\ Once(q, op, c) /\ ~(Head(q).op = op /\ c \in Head(q).to)
              => Once(Tail(q), op, c)
         /\ Once(q, op, c) /\ Head(q).op = op /\ c \in Head(q).to => None(Tail(q), op, c)
         /\ Head(q).op = op /\ c \in Head(q).to => ~None(q, op, c)
<1>1. /\ Len(q) \in Nat /\ Len(q) # 0 /\ Len(Tail(q)) = Len(q) - 1 /\ Head(q) = q[1]
      /\ \A j \in 1..(Len(q) - 1) : Tail(q)[j] = q[j + 1]
  BY LenProperties, HeadTailProperties, EmptySeq
<1>2. \A i \in 1..Len(Tail(q)) : i + 1 \in 1..Len(q) /\ Tail(q)[i] = q[i + 1]
  BY <1>1
<1>3. 1 \in 1..Len(q)
  BY <1>1
<1>4. ASSUME None(q, op, c) PROVE None(Tail(q), op, c)
  BY <1>2, <1>4 DEF None
<1>5. ASSUME Once(q, op, c)
      PROVE  IF Head(q).op = op /\ c \in Head(q).to
             THEN None(Tail(q), op, c) ELSE Once(Tail(q), op, c)
  <2>1. PICK i \in 1..Len(q) :
          /\ q[i].op = op /\ c \in q[i].to
          /\ \A j \in 1..Len(q) : q[j].op = op /\ c \in q[j].to => j = i
    BY <1>5 DEF Once
  <2>2. CASE Head(q).op = op /\ c \in Head(q).to
    <3>1. i = 1
      BY <1>1, <1>3, <2>1, <2>2
    <3>2. ASSUME NEW j \in 1..Len(Tail(q)), Tail(q)[j].op = op, c \in Tail(q)[j].to
          PROVE  FALSE
      <4>1. j + 1 = 1
        BY <1>2, <2>1, <3>1, <3>2
      <4>2. QED
        BY <4>1
    <3>3. QED
      BY <2>2, <3>2 DEF None
  <2>3. CASE ~(Head(q).op = op /\ c \in Head(q).to)
    <3>1. i # 1
      BY <1>1, <2>1, <2>3
    <3>2. i - 1 \in 1..Len(Tail(q)) /\ Tail(q)[i - 1] = q[i]
      <4>1. i - 1 \in 1..(Len(q) - 1) /\ (i - 1) + 1 = i
        BY <1>1, <3>1
      <4>2. QED
        BY <1>1, <4>1
    <3>3. ASSUME NEW j \in 1..Len(Tail(q)), Tail(q)[j].op = op, c \in Tail(q)[j].to
          PROVE  j = i - 1
      <4>1. j + 1 = i
        BY <1>2, <2>1, <3>3
      <4>2. QED
        BY <4>1
    <3>4. Once(Tail(q), op, c)
      BY <2>1, <3>2, <3>3 DEF Once
    <3>5. QED
      BY <2>3, <3>4
  <2>4. QED
    BY <2>2, <2>3
<1>6. Head(q).op = op /\ c \in Head(q).to => ~None(q, op, c)
  BY <1>1, <1>3 DEF None
<1>7. QED
  BY <1>4, <1>5, <1>6

LEMMA NonePosted ==
  ASSUME NEW p \in Seq(Postings), NEW op \in Completions, NEW c
  PROVE  None(p, op, c)
<1>1. \A i \in 1..Len(p) : p[i] \in Postings
  BY ElementOfSeq
<1>2. QED
  BY <1>1 DEF None, Postings

\* What c waits for: OneOperation, and no completion of what c does not do yet, or is done
\* with, is in the queue.
WaitsFor(p, out, q, c) ==
  /\ p = "ssl" => None(q, "read", c) /\ None(q, "shutdown", c)
  /\ p = "up" => None(q, "ssl", c) /\ None(q, "shutdown", c)
  /\ p \in DOMAIN Awaited => IF out THEN None(q, Awaited[p], c) ELSE Once(q, Awaited[p], c)

Waits == \A c \in Clients : WaitsFor(phase[c], c \in pending, ioq, c)

LEMMA AwaitedIs ==
  /\ DOMAIN Awaited = {"ssl", "up", "closing"}
  /\ Awaited["ssl"] = "ssl" /\ Awaited["up"] = "read" /\ Awaited["closing"] = "shutdown"
  /\ \A p \in DOMAIN Awaited : Awaited[p] \in Completions
  BY DEF Awaited, Completions

\* What handlers post changes nothing of it.
LEMMA WaitsJoin ==
  ASSUME NEW q \in Seq(QueueEntries), NEW p \in Seq(Postings), NEW c, NEW ph, NEW out,
         WaitsFor(ph, out, q, c)
  PROVE  WaitsFor(ph, out, q \o p, c)
<1>1. p \in Seq(QueueEntries)
  <2>1. Postings \subseteq QueueEntries
    BY DEF Postings
  <2>2. QED
    BY <2>1, SeqDef
<1>2. \A op \in Completions : /\ None(q, op, c) => None(q \o p, op, c)
                              /\ Once(q, op, c) => Once(q \o p, op, c)
  BY <1>1, NonePosted, NoneJoin
<1>3. QED
  BY <1>2, AwaitedIs DEF WaitsFor, Completions

\* Nor does an entry about others.
LEMMA WaitsAppend ==
  ASSUME NEW q \in Seq(QueueEntries), NEW e \in QueueEntries, NEW c, c \notin e.to,
         NEW ph, NEW out, WaitsFor(ph, out, q, c)
  PROVE  WaitsFor(ph, out, Append(q, e), c)
<1>1. <<e>> \in Seq(QueueEntries) /\ Append(q, e) = q \o <<e>>
  BY Singles, AppendIsConcat
<1>2. \A op : None(<<e>>, op, c)
  BY DEF None
<1>3. \A op \in Completions : /\ None(q, op, c) => None(Append(q, e), op, c)
                              /\ Once(q, op, c) => Once(Append(q, e), op, c)
  BY <1>1, <1>2, NoneJoin
<1>4. QED
  BY <1>3, AwaitedIs DEF WaitsFor, Completions

\* The head goes: it is about others, or not what c waits for.
LEMMA WaitsTail ==
  ASSUME NEW q \in Seq(QueueEntries), q # <<>>, NEW c, NEW ph, NEW out,
         c \in Head(q).to /\ ph \in DOMAIN Awaited => Head(q).op # Awaited[ph],
         WaitsFor(ph, out, q, c)
  PROVE  WaitsFor(ph, out, Tail(q), c)
<1>1. \A op \in Completions :
        /\ None(q, op, c) => None(Tail(q), op, c)
        /\ Once(q, op, c) /\ ~(Head(q).op = op /\ c \in Head(q).to) => Once(Tail(q), op, c)
  BY NoneTail
<1>2. QED
  BY <1>1, AwaitedIs DEF WaitsFor, Completions

\* The head is what c waits for: now it waits for nothing, and what it starts next is
\* outstanding.
LEMMA WaitsTaken ==
  ASSUME NEW q \in Seq(QueueEntries), q # <<>>, NEW c, c \in Head(q).to,
         NEW ph \in {"ssl", "up"}, NEW out, Head(q).op = Awaited[ph],
         WaitsFor(ph, out, q, c)
  PROVE  WaitsFor("up", TRUE, Tail(q), c) /\ WaitsFor("closing", TRUE, Tail(q), c)
<1>1. Awaited[ph] \in Completions /\ ph \in DOMAIN Awaited
  BY AwaitedIs
<1>2. ~None(q, Awaited[ph], c)
  BY NoneTail
<1>3. Once(q, Awaited[ph], c)
  BY <1>1, <1>2 DEF WaitsFor
<1>4. None(Tail(q), Awaited[ph], c)
  BY <1>3, NoneTail
<1>5. \A op \in Completions : op # Awaited[ph] => None(q, op, c)
  BY AwaitedIs DEF WaitsFor, Completions
<1>6. \A op \in Completions : None(Tail(q), op, c)
  BY <1>4, <1>5, NoneTail
<1>7. QED
  BY <1>6, AwaitedIs DEF WaitsFor, Completions

\* c's session begins to close: the TLS shutdown is outstanding.
LEMMA WaitsClosing ==
  ASSUME NEW q, NEW c, NEW out, WaitsFor("up", out, q, c)
  PROVE  WaitsFor("closing", TRUE, q, c)
  BY AwaitedIs DEF WaitsFor

\* A session that is over waits for nothing.
LEMMA WaitsOver ==
  ASSUME NEW ph \in {"none", "closed"}, NEW out, NEW q, NEW c
  PROVE  WaitsFor(ph, out, q, c)
  BY AwaitedIs DEF WaitsFor

\* What c waits for completes.
LEMMA WaitsCompletes ==
  ASSUME NEW q \in Seq(QueueEntries), NEW e \in QueueEntries, NEW c, c \in e.to,
         NEW ph \in DOMAIN Awaited, e.op = Awaited[ph], WaitsFor(ph, TRUE, q, c)
  PROVE  WaitsFor(ph, FALSE, Append(q, e), c)
<1>1. <<e>> \in Seq(QueueEntries) /\ Append(q, e) = q \o <<e>>
  BY Singles, AppendIsConcat
<1>2. \A op \in Completions : op # e.op => None(<<e>>, op, c)
  BY DEF None
<1>3. \A op \in Completions : op # e.op /\ None(q, op, c) => None(Append(q, e), op, c)
  BY <1>1, <1>2, NoneJoin
<1>4. None(q, e.op, c)
  BY DEF WaitsFor
<1>5. Once(Append(q, e), e.op, c)
  BY <1>4, OnceAppended
<1>6. QED
  BY <1>3, <1>5, AwaitedIs DEF WaitsFor, Completions
-----------------------------------------------------------------------------
(* What handlers post *)

\* z is the queue h with postings after it.
Further(z, h) == \E p \in Seq(Postings) : z = h \o p

LEMMA NoFurther ==
  ASSUME NEW h \in Seq(QueueEntries)
  PROVE  Further(h, h)
<1>1. h = h \o <<>> /\ <<>> \in Seq(Postings)
  BY EmptySeq
<1>2. QED
  BY <1>1 DEF Further

LEMMA StillFurther ==
  ASSUME NEW h \in Seq(QueueEntries), NEW z, NEW p \in Seq(Postings), Further(z, h)
  PROVE  Further(z \o p, h)
<1>1. PICK q \in Seq(Postings) : z = h \o q
  BY DEF Further
<1>2. q \o p \in Seq(Postings)
  BY Joins
<1>3. \A s \in Seq(Postings) : s \in Seq(QueueEntries)
  <2>1. Postings \subseteq QueueEntries
    BY DEF Postings
  <2>2. QED
    BY <2>1, SeqDef
<1>4. (h \o q) \o p = h \o (q \o p)
  BY <1>3, ConcatAssociative
<1>5. QED
  BY <1>1, <1>2, <1>4 DEF Further

LEMMA SendPosted ==
  ASSUME NEW S \in SUBSET Clients, NEW m \in Messages
  PROVE  Send(S, m) \in Seq(Postings)
<1> DEFINE live == {d \in S : Active(d)}
<1>1. live \in SUBSET Clients
  OBVIOUS
<1>2. Entry("send", live, m) \in QueueEntries
  BY <1>1, SendEntryType
<1>3. Entry("send", live, m) \in Postings
  BY <1>2 DEF Postings, Entry, Completions
<1>4. CASE live = {}
  BY <1>4, EmptySeq DEF Send
<1>5. CASE live # {}
  BY <1>3, <1>5, Singles DEF Send
<1>6. QED
  BY <1>4, <1>5

LEMMA ClosePosted ==
  /\ <<>> \in Seq(Postings)
  /\ <<StopEntry>> \in Seq(Postings)
  /\ \A c \in Clients : Close(c) \in Postings /\ <<Close(c)>> \in Seq(Postings)
<1>1. \A c \in Clients : Close(c) \in Postings
  BY OtherEntryTypes DEF Postings, Close, Entry, Completions
<1>2. StopEntry \in Postings
  BY DEF Postings, StopEntry, Entry, Completions, QueueEntries
<1>3. QED
  BY <1>1, <1>2, Singles, EmptySeq

LEMMA ClosesPosted ==
  ASSUME TypeOK, BoundsAssumption
  PROVE  ClosesOfAll \in Seq(Postings)
<1> DEFINE C == {Close(c) : c \in sessions}
<1>1. C \subseteq Postings
  BY ClosePosted DEF TypeOK
<1>2. SetToSeq(C) \in Seq(C)
  BY SessionsFinite, EnumerationExists DEF TypeOK
<1>3. SetToSeq(C) \in Seq(Postings)
  BY <1>1, <1>2, SeqDef
<1>4. QED
  BY <1>3 DEF ClosesOfAll

LEMMA DisconnectPosted ==
  ASSUME TypeOK, NEW c \in Clients, NEW q \in Seq(QueueEntries), HandleDisconnect(c, q)
  PROVE  Further(ioq', q)
<1> DEFINE left == IF c = hostClientId THEN Send(ReadySessions, Plain("host_left")) ELSE <<>>
           told == Send(ReadySessions, LeftMsg(c))
<1>1. Plain("host_left") \in Messages /\ LeftMsg(c) \in Messages
  BY MessageTypes
<1>2. left \in Seq(Postings) /\ told \in Seq(Postings)
  BY <1>1, ReadyType, SendPosted, ClosePosted
<1>3. ioq' = q \o left \o told
  BY DEF HandleDisconnect
<1> HIDE DEF left, told
<1>4. Further(q \o left, q)
  BY <1>2, NoFurther, StillFurther
<1>5. QED
  BY <1>2, <1>3, <1>4, StillFurther

LEMMA HandshakePosted ==
  ASSUME TypeOK, RolesAssumption, ioq # <<>>, NEW c \in Clients, NEW r \in Requests,
         r.type = "handshake", Welcome(c, r) \/ ioq' = Refusal(c, r)
  PROVE  Further(ioq', Tail(ioq))
<1>1. \A S \in SUBSET Clients : \A m \in Messages : Send(S, m) \in Seq(Postings)
  BY SendPosted
<1>2. Tail(ioq) \in Seq(QueueEntries)
  BY HeadType
<1>3. CASE Welcome(c, r)
  <2> DEFINE answer == Send({c}, Plain("answer"))
             joined == Send(ReadySessions \ {c}, JoinedMsg(c, Introduced(c, r)))
             list == Send({c}, ListMsg(Roster(c, r)))
  <2>1. ioq' = Tail(ioq) \o answer \o (joined \o list) \o Files(c, r)
    BY <1>3, WelcomePosts
  <2>2. answer \in Seq(Postings) /\ joined \in Seq(Postings) /\ list \in Seq(Postings)
    BY <1>1, <1>3, WelcomePosts, MessageTypes, ReadyType
  <2>3. Files(c, r) \in Seq(Postings)
    BY <1>1, MessageTypes, ClosePosted DEF Files
  <2> HIDE DEF answer, joined, list
  <2>4. joined \o list \in Seq(Postings)
    BY <2>2, Joins
  <2>5. Further(Tail(ioq) \o answer, Tail(ioq))
    BY <1>2, <2>2, NoFurther, StillFurther
  <2>6. Further(Tail(ioq) \o answer \o (joined \o list), Tail(ioq))
    BY <1>2, <2>4, <2>5, StillFurther
  <2>7. QED
    BY <1>2, <2>1, <2>3, <2>6, StillFurther
<1>4. CASE ioq' = Refusal(c, r)
  <2> DEFINE told == IF r.password = "wrong" THEN Send({c}, Plain("auth_failed")) ELSE <<>>
  <2>1. told \in Seq(Postings)
    BY <1>1, MessageTypes, ClosePosted
  <2>2. ioq' = Tail(ioq) \o told \o <<Close(c)>>
    BY <1>4 DEF Refusal
  <2> HIDE DEF told
  <2>3. Further(Tail(ioq) \o told, Tail(ioq))
    BY <1>2, <2>1, NoFurther, StillFurther
  <2>4. QED
    BY <1>2, <2>2, <2>3, ClosePosted, StillFurther
<1>5. QED
  BY <1>3, <1>4

LEMMA MessagePosted ==
  ASSUME TypeOK, NEW c \in Clients, Message(c)
  PROVE  \E q \in Seq(Postings) : Posts(c, q)
<1> DEFINE r == Head(ioq).arg
<1>1. \A S \in SUBSET Clients : \A m \in Messages : Send(S, m) \in Seq(Postings)
  BY SendPosted
<1>2. CASE RunInput(c)
  <2>1. Send(Listeners, InputMsg(c)) \in Seq(Postings)
    BY <1>1, MessageTypes, ReadyType
  <2>2. QED
    BY <1>2, <2>1, ClosePosted DEF RunInput
<1>3. CASE RunOther(c)
  <2>1. /\ Send(ReadySessions, Plain("chat")) \in Seq(Postings)
        /\ Send({c}, Plain("reply")) \in Seq(Postings)
        /\ Send(ReadySessions, Plain("fs")) \in Seq(Postings)
    BY <1>1, MessageTypes, ReadyType
  <2>2. QED
    BY <1>3, <2>1, ClosePosted DEF RunOther
<1>4. CASE RunShutdownCommand(c)
  <2>1. Send(ReadySessions, Plain("server_shutdown_imminent")) \in Seq(Postings)
    BY <1>1, MessageTypes, ReadyType
  <2>2. Send(ReadySessions, Plain("server_shutdown_imminent")) \o <<StopEntry>>
          \in Seq(Postings)
    BY <2>1, ClosePosted, Joins
  <2>3. QED
    BY <1>4, <2>2 DEF RunShutdownCommand
<1>5. CASE RunKick(c)
  <2>1. r.who \in Clients
    <3>1. r.type = "kick"
      BY <1>5 DEF RunKick, HostCommand, Gets
    <3>2. QED
      BY <1>5, <3>1, MessageAtHead, RequestTypes DEF Message
  <2>2. QED
    BY <1>5, <2>1, ClosePosted DEF RunKick
<1>6. CASE RunRename(c)
  <2>1. r.who \in Clients /\ r.name \in AllNames
    BY <1>6, RenameAsked
  <2>2. /\ Send({r.who}, Plain("you_were_renamed")) \in Seq(Postings)
        /\ Send(ReadySessions, RenamedMsg(r.who, r.name)) \in Seq(Postings)
    BY <1>1, <2>1, MessageTypes, ReadyType
  <2>3. AnnounceRename(r.who, r.name) \in Seq(Postings)
    BY <2>2, Joins DEF AnnounceRename
  <2>4. QED
    BY <1>6, <2>3, ClosePosted DEF RunRename
<1>7. CASE RunToggle(c)
  BY <1>7, ClosePosted DEF RunToggle
<1>8. QED
  BY <1>2, <1>3, <1>4, <1>5, <1>6, <1>7 DEF Message
-----------------------------------------------------------------------------
(* Everybody waits for one thing *)

LEMMA CompletionHead ==
  ASSUME TypeOK, ioq # <<>>, Head(ioq).op \in {"ssl", "read", "close", "shutdown"}
  PROVE  \E c \in Clients : Head(ioq).to = {c}
  BY HeadType DEF QueueEntries

\* A session that the step does not touch; the head is about others, or not what it
\* waits for.
LEMMA WaitsElse ==
  ASSUME TypeOK, ioq # <<>>, Waits, Further(ioq', Tail(ioq)), NEW d \in Clients,
         d \in Head(ioq).to /\ phase[d] \in DOMAIN Awaited => Head(ioq).op # Awaited[phase[d]],
         phase'[d] = phase[d], (d \in pending') = (d \in pending)
  PROVE  WaitsFor(phase'[d], d \in pending', ioq', d)
<1>1. WaitsFor(phase[d], d \in pending, Tail(ioq), d)
  BY WaitsTail DEF Waits, TypeOK
<1>2. PICK p \in Seq(Postings) : ioq' = Tail(ioq) \o p
  BY DEF Further
<1>3. WaitsFor(phase[d], d \in pending, Tail(ioq) \o p, d)
  BY <1>1, HeadType, WaitsJoin
<1>4. QED
  BY <1>2, <1>3

\* The head is what nobody waits for.
LEMMA WaitsNobody ==
  ASSUME TypeOK, ioq # <<>>, Waits, Further(ioq', Tail(ioq)),
         Head(ioq).op \notin Completions, UNCHANGED <<phase, pending>>
  PROVE  Waits'
<1>1. ASSUME NEW d \in Clients
      PROVE  WaitsFor(phase'[d], d \in pending', ioq', d)
  BY AwaitedIs, WaitsElse
<1>2. QED
  BY <1>1 DEF Waits

\* The handler of a read that keeps its session reads again.
LEMMA WaitsRead ==
  ASSUME TypeOK, ioq # <<>>, Waits, Further(ioq', Tail(ioq)), Head(ioq).op = "read",
         NEW c \in Clients, c \in Head(ioq).to, phase[c] = "up", phase' = phase,
         ReadAgain(c)
  PROVE  Waits'
<1>1. Head(ioq).to = {c}
  BY CompletionHead
<1>2. pending' = pending \union {c}
  BY DEF ReadAgain
<1>3. ASSUME NEW d \in Clients, d # c
      PROVE  WaitsFor(phase'[d], d \in pending', ioq', d)
  BY <1>1, <1>2, <1>3, WaitsElse
<1>4. WaitsFor("up", TRUE, Tail(ioq), c)
  BY AwaitedIs, WaitsTaken DEF Waits, TypeOK
<1>5. PICK p \in Seq(Postings) : ioq' = Tail(ioq) \o p
  BY DEF Further
<1>6. WaitsFor("up", TRUE, Tail(ioq) \o p, c)
  BY <1>4, HeadType, WaitsJoin
<1>7. WaitsFor(phase'[c], c \in pending', ioq', c)
  BY <1>2, <1>5, <1>6
<1>8. QED
  BY <1>3, <1>7 DEF Waits

\* doClose(): a session that was up waits for the TLS shutdown, any other for nothing.
LEMMA WaitsDoClose ==
  ASSUME TypeOK, ioq # <<>>, Waits, NEW c \in Clients, Head(ioq).to = {c},
         Head(ioq).op \in {"ssl", "read", "close"}, DoClose(c, Tail(ioq))
  PROVE  Waits'
<1>1. Tail(ioq) \in Seq(QueueEntries) /\ ioq \in Seq(QueueEntries)
  BY HeadType DEF TypeOK
<1>2. CASE ~Active(c)
  <2>1. ioq' = Tail(ioq) /\ UNCHANGED <<phase, pending>>
    BY <1>2 DEF DoClose
  <2>2. Further(ioq', Tail(ioq))
    BY <1>1, <2>1, NoFurther
  <2>3. phase[c] \in DOMAIN Awaited => Awaited[phase[c]] = "shutdown"
    BY <1>2, AwaitedIs DEF Active
  <2>4. ASSUME NEW d \in Clients
        PROVE  WaitsFor(phase'[d], d \in pending', ioq', d)
    BY <2>1, <2>2, <2>3, WaitsElse
  <2>5. QED
    BY <2>4 DEF Waits
<1>3. CASE phase[c] = "up"
  <2>1. /\ phase' = [phase EXCEPT ![c] = "closing"]
        /\ pending' = pending \union {c}
        /\ ioq' = Tail(ioq)
    BY <1>3 DEF DoClose, Active
  <2>2. Further(ioq', Tail(ioq))
    BY <1>1, <2>1, NoFurther
  <2>3. ASSUME NEW d \in Clients, d # c
        PROVE  WaitsFor(phase'[d], d \in pending', ioq', d)
    <3>1. phase'[d] = phase[d] /\ (d \in pending') = (d \in pending)
      BY <2>1, <2>3 DEF TypeOK
    <3>2. QED
      BY <2>2, <2>3, <3>1, WaitsElse
  <2>4. WaitsFor("closing", TRUE, Tail(ioq), c)
    <3>1. WaitsFor("up", c \in pending, ioq, c)
      BY <1>3 DEF Waits
    <3>2. CASE Head(ioq).op = "read"
      BY <1>1, <3>1, <3>2, AwaitedIs, WaitsTaken
    <3>3. CASE Head(ioq).op # "read"
      <4>1. WaitsFor("up", c \in pending, Tail(ioq), c)
        BY <1>1, <3>1, <3>3, AwaitedIs, WaitsTail
      <4>2. QED
        BY <4>1, WaitsClosing
    <3>4. QED
      BY <3>2, <3>3
  <2>5. phase'[c] = "closing" /\ c \in pending'
    BY <2>1 DEF TypeOK
  <2>6. QED
    BY <2>1, <2>3, <2>4, <2>5 DEF Waits
<1>4. CASE phase[c] = "ssl"
  <2>1. /\ phase' = [phase EXCEPT ![c] = "closed"]
        /\ pending' = pending \ {c}
        /\ HandleDisconnect(c, Tail(ioq))
    BY <1>4 DEF DoClose, Active
  <2>2. Further(ioq', Tail(ioq))
    BY <1>1, <2>1, DisconnectPosted
  <2>3. ASSUME NEW d \in Clients, d # c
        PROVE  WaitsFor(phase'[d], d \in pending', ioq', d)
    <3>1. phase'[d] = phase[d] /\ (d \in pending') = (d \in pending)
      BY <2>1, <2>3 DEF TypeOK
    <3>2. QED
      BY <2>2, <2>3, <3>1, WaitsElse
  <2>4. WaitsFor(phase'[c], c \in pending', ioq', c)
    <3>1. phase'[c] = "closed"
      BY <2>1 DEF TypeOK
    <3>2. QED
      BY <3>1, WaitsOver
  <2>5. QED
    BY <2>3, <2>4 DEF Waits
<1>5. QED
  BY <1>2, <1>3, <1>4 DEF Active

\* A new session: nothing in the queue is about it.
LEMMA WaitsAccept ==
  ASSUME TypeOK, BoundsAssumption, Order, Waits, RunAccept
  PROVE  Waits'
<1>1. /\ ioq # <<>> /\ Head(ioq).op = "accept" /\ ioq' = Tail(ioq)
      /\ ioq \in Seq(QueueEntries) /\ nextClientId \in Int
  BY DEF RunAccept, Takes, TypeOK
<1>2. Further(ioq', Tail(ioq))
  BY <1>1, HeadType, NoFurther
<1>3. CASE ~(Head(ioq).arg.ok /\ nextClientId <= MaxClients)
  <2>1. UNCHANGED <<phase, pending>>
    BY <1>3 DEF RunAccept
  <2>2. Head(ioq).op \notin Completions
    BY <1>1 DEF Completions
  <2>3. QED
    BY <1>1, <1>2, <2>1, <2>2, WaitsNobody
<1>4. CASE Head(ioq).arg.ok /\ nextClientId <= MaxClients
  <2> DEFINE k == nextClientId
  <2>1. /\ phase' = [phase EXCEPT ![k] = "ssl"]
        /\ pending' = pending \union {k}
    BY <1>4 DEF RunAccept
  <2>2. ASSUME NEW d \in Clients, d # k
        PROVE  WaitsFor(phase'[d], d \in pending', ioq', d)
    <3>1. phase'[d] = phase[d] /\ (d \in pending') = (d \in pending)
      BY <2>1, <2>2 DEF TypeOK
    <3>2. Head(ioq).op \notin Completions
      BY <1>1 DEF Completions
    <3>3. QED
      BY <1>1, <1>2, <3>1, <3>2, AwaitedIs, WaitsElse
  <2>3. ASSUME k \in Clients
        PROVE  WaitsFor(phase'[k], k \in pending', ioq', k)
    <3>1. Tail(ioq) \in Seq(Sound)
      BY <1>1, HeadAndTail DEF Order
    <3>2. \A i \in 1..Len(Tail(ioq)) : Tail(ioq)[i] \in Sound
      BY <3>1, ElementOfSeq
    <3>3. \A i \in 1..Len(Tail(ioq)) : k \notin Tail(ioq)[i].to
      <4>1. ~(k < k)
        BY <1>1
      <4>2. QED
        BY <3>2, <4>1 DEF Sound
    <3>4. \A op : None(Tail(ioq), op, k)
      BY <3>3 DEF None
    <3>5. phase'[k] = "ssl" /\ k \in pending'
      BY <2>1, <2>3 DEF TypeOK
    <3>6. QED
      BY <1>1, <3>4, <3>5, AwaitedIs DEF WaitsFor
  <2>4. QED
    BY <2>2, <2>3 DEF Waits
<1>5. QED
  BY <1>3, <1>4

LEMMA WaitsSsl ==
  ASSUME TypeOK, Waits, RunSsl
  PROVE  Waits'
<1>1. /\ ioq # <<>> /\ Head(ioq).op = "ssl"
      /\ ioq \in Seq(QueueEntries) /\ Tail(ioq) \in Seq(QueueEntries)
  BY HeadType DEF RunSsl, Takes, TypeOK
<1>2. PICK c \in Head(ioq).to :
        \/ /\ Active(c) /\ ioq' = Tail(ioq)
           /\ phase' = [phase EXCEPT ![c] = "up"]
           /\ pending' = pending \union {c}
        \/ DoClose(c, Tail(ioq))
  BY DEF RunSsl
<1>3. c \in Clients /\ Head(ioq).to = {c}
  BY <1>1, CompletionHead
<1>4. CASE DoClose(c, Tail(ioq))
  BY <1>1, <1>3, <1>4, WaitsDoClose
<1>5. CASE /\ Active(c) /\ ioq' = Tail(ioq)
           /\ phase' = [phase EXCEPT ![c] = "up"]
           /\ pending' = pending \union {c}
  <2>1. Further(ioq', Tail(ioq))
    BY <1>1, <1>5, NoFurther
  <2>2. phase[c] = "ssl"
    <3>1. ~None(ioq, "ssl", c)
      BY <1>1, <1>3, NoneTail
    <3>2. phase[c] # "up"
      BY <1>3, <3>1 DEF Waits, WaitsFor
    <3>3. QED
      BY <1>5, <3>2 DEF Active
  <2>3. ASSUME NEW d \in Clients, d # c
        PROVE  WaitsFor(phase'[d], d \in pending', ioq', d)
    <3>1. phase'[d] = phase[d] /\ (d \in pending') = (d \in pending)
      BY <1>5, <2>3 DEF TypeOK
    <3>2. QED
      BY <1>1, <1>3, <2>1, <2>3, <3>1, WaitsElse
  <2>4. WaitsFor("up", TRUE, Tail(ioq), c)
    BY <1>1, <1>3, <2>2, AwaitedIs, WaitsTaken DEF Waits
  <2>5. phase'[c] = "up" /\ c \in pending'
    BY <1>3, <1>5 DEF TypeOK
  <2>6. QED
    BY <1>5, <2>3, <2>4, <2>5 DEF Waits
<1>6. QED
  BY <1>2, <1>4, <1>5

LEMMA WaitsShutdown ==
  ASSUME TypeOK, Waits, RunShutdown
  PROVE  Waits'
<1>1. ioq # <<>> /\ Head(ioq).op = "shutdown" /\ Tail(ioq) \in Seq(QueueEntries)
  BY HeadType DEF RunShutdown, Takes
<1>2. PICK c \in Head(ioq).to : /\ phase' = [phase EXCEPT ![c] = "closed"]
                                /\ HandleDisconnect(c, Tail(ioq))
  BY DEF RunShutdown
<1>3. c \in Clients /\ Head(ioq).to = {c} /\ pending' = pending
  BY <1>1, CompletionHead DEF RunShutdown
<1>4. Further(ioq', Tail(ioq))
  BY <1>1, <1>2, <1>3, DisconnectPosted
<1>5. ASSUME NEW d \in Clients, d # c
      PROVE  WaitsFor(phase'[d], d \in pending', ioq', d)
  <2>1. phase'[d] = phase[d]
    BY <1>2, <1>5 DEF TypeOK
  <2>2. QED
    BY <1>1, <1>3, <1>4, <1>5, <2>1, WaitsElse
<1>6. WaitsFor(phase'[c], c \in pending', ioq', c)
  <2>1. phase'[c] = "closed"
    BY <1>2, <1>3 DEF TypeOK
  <2>2. QED
    BY <2>1, WaitsOver
<1>7. QED
  BY <1>5, <1>6 DEF Waits

\* An operation completes.
LEMMA WaitsDone ==
  ASSUME TypeOK, Waits, NEW c \in Clients, c \in pending, phase[c] \in DOMAIN Awaited,
         NEW e \in QueueEntries, e.to = {c}, e.op = Awaited[phase[c]],
         ioq' = Append(ioq, e), phase' = phase, pending' = pending \ {c}
  PROVE  Waits'
<1>1. ioq \in Seq(QueueEntries)
  BY DEF TypeOK
<1>2. ASSUME NEW d \in Clients, d # c
      PROVE  WaitsFor(phase'[d], d \in pending', ioq', d)
  <2>1. WaitsFor(phase[d], d \in pending, Append(ioq, e), d)
    BY <1>1, <1>2, WaitsAppend DEF Waits
  <2>2. (d \in pending') = (d \in pending)
    BY <1>2
  <2>3. QED
    BY <2>1, <2>2
<1>3. WaitsFor(phase[c], TRUE, ioq, c)
  <2>1. (c \in pending) = TRUE
    OBVIOUS
  <2>2. WaitsFor(phase[c], c \in pending, ioq, c)
    BY DEF Waits
  <2>3. QED
    BY <2>1, <2>2
<1>4. WaitsFor(phase[c], FALSE, Append(ioq, e), c)
  BY <1>1, <1>3, WaitsCompletes
<1>5. (c \in pending') = FALSE
  OBVIOUS
<1>6. WaitsFor(phase'[c], c \in pending', ioq', c)
  BY <1>4, <1>5
<1>7. QED
  BY <1>2, <1>6 DEF Waits

LEMMA WaitsOthers ==
  ASSUME TypeOK, Waits, Completes \/ UIThread
  PROVE  Waits'
<1>1. ioq \in Seq(QueueEntries)
  BY DEF TypeOK
<1>2. CASE AcceptCompletes
  <2>1. UNCHANGED <<phase, pending>>
    BY <1>2 DEF AcceptCompletes
  <2>2. PICK ok \in BOOLEAN :
          ioq' = Append(ioq, Entry("accept", {}, [type |-> "accept", ok |-> ok]))
    BY <1>2 DEF AcceptCompletes, Outcomes, Enqueue
  <2> DEFINE e == Entry("accept", {}, [type |-> "accept", ok |-> ok])
  <2>3. e \in QueueEntries /\ \A c : c \notin e.to
    BY AcceptEntryType DEF Entry
  <2>4. ioq' = Append(ioq, e)
    BY <2>2
  <2> HIDE DEF e
  <2>5. \A c \in Clients : WaitsFor(phase[c], c \in pending, Append(ioq, e), c)
    BY <1>1, <2>3, WaitsAppend DEF Waits
  <2>6. QED
    BY <2>1, <2>4, <2>5 DEF Waits
<1>3. ASSUME NEW c \in Clients, ReadCompletes(c)
      PROVE  Waits'
  <2>1. PICK r \in RequestsOf(c) : ioq' = Append(ioq, Entry("read", {c}, r))
    BY <1>3 DEF ReadCompletes, Enqueue
  <2>2. Entry("read", {c}, r) \in QueueEntries
    BY RequestsOfType, OtherEntryTypes
  <2>3. Entry("read", {c}, r).to = {c} /\ Entry("read", {c}, r).op = "read"
    BY DEF Entry
  <2>4. phase[c] = "up" /\ c \in pending /\ phase' = phase /\ pending' = pending \ {c}
    BY <1>3 DEF ReadCompletes
  <2>5. QED
    BY <2>1, <2>2, <2>3, <2>4, AwaitedIs, WaitsDone
<1>4. ASSUME NEW c \in Clients, SslHandshakeCompletes(c)
      PROVE  Waits'
  <2>1. PICK ok \in BOOLEAN :
          ioq' = Append(ioq, Entry("ssl", {c}, [type |-> "ssl", ok |-> ok]))
    BY <1>4 DEF SslHandshakeCompletes, Outcomes, Enqueue
  <2> DEFINE e == Entry("ssl", {c}, [type |-> "ssl", ok |-> ok])
  <2>2. e \in QueueEntries
    BY OtherEntryTypes
  <2>3. e.to = {c} /\ e.op = "ssl"
    BY DEF Entry
  <2>4. phase[c] = "ssl" /\ c \in pending /\ phase' = phase /\ pending' = pending \ {c}
    BY <1>4 DEF SslHandshakeCompletes
  <2>5. ioq' = Append(ioq, e)
    BY <2>1
  <2> HIDE DEF e
  <2>6. QED
    BY <2>2, <2>3, <2>4, <2>5, AwaitedIs, WaitsDone
<1>5. ASSUME NEW c \in Clients, ShutdownCompletes(c)
      PROVE  Waits'
  <2> DEFINE e == Entry("shutdown", {c}, [type |-> "shutdown"])
  <2>1. e \in QueueEntries
    BY OtherEntryTypes
  <2>2. e.to = {c} /\ e.op = "shutdown"
    BY DEF Entry
  <2>3. /\ phase[c] = "closing" /\ c \in pending /\ phase' = phase
        /\ pending' = pending \ {c}
        /\ ioq' = Append(ioq, e)
    BY <1>5 DEF ShutdownCompletes, Enqueue
  <2> HIDE DEF e
  <2>4. QED
    BY <2>1, <2>2, <2>3, AwaitedIs, WaitsDone
<1>6. CASE Start \/ UpdateBegins
  BY <1>6 DEF Start, UpdateBegins, Waits
<1>7. ASSUME NEW c \in Clients, UpdateSent(c)
      PROVE  Waits'
  <2>1. Send({c}, Plain("fs")) \in Seq(Postings)
    BY MessageTypes, SendPosted
  <2>2. ioq' = ioq \o Send({c}, Plain("fs")) /\ UNCHANGED <<phase, pending>>
    BY <1>7 DEF UpdateSent
  <2>3. \A d \in Clients :
          WaitsFor(phase[d], d \in pending, ioq \o Send({c}, Plain("fs")), d)
    BY <1>1, <2>1, WaitsJoin DEF Waits
  <2>4. QED
    BY <2>2, <2>3 DEF Waits
<1>8. QED
  BY <1>2, <1>3, <1>4, <1>5, <1>6, <1>7 DEF Completes, UIThread

LEMMA WaitsStep ==
  ASSUME BoundsAssumption, RolesAssumption, ServerInv, Order, Waits, Next
  PROVE  Waits'
<1>1. TypeOK /\ InHandshake
  BY DEF ServerInv
<1>2. CASE Completes \/ UIThread
  BY <1>1, <1>2, WaitsOthers
<1>3. CASE RunAccept
  BY <1>1, <1>3, WaitsAccept
<1>4. CASE RunSsl
  BY <1>1, <1>4, WaitsSsl
<1>5. CASE RunShutdown
  BY <1>1, <1>5, WaitsShutdown
<1>6. CASE RunSend
  <2>1. /\ ioq # <<>> /\ Head(ioq).op = "send" /\ ioq' = Tail(ioq)
        /\ UNCHANGED <<phase, pending>>
    BY <1>6 DEF RunSend, Takes
  <2>2. Further(ioq', Tail(ioq)) /\ Head(ioq).op \notin Completions
    BY <1>1, <2>1, HeadType, NoFurther DEF Completions
  <2>3. QED
    BY <1>1, <2>1, <2>2, WaitsNobody
<1>7. CASE RunClose
  <2>1. ioq # <<>> /\ Head(ioq).op = "close"
    BY <1>7 DEF RunClose, Takes
  <2>2. PICK c \in Head(ioq).to : DoClose(c, Tail(ioq))
    BY <1>7 DEF RunClose
  <2>3. c \in Clients /\ Head(ioq).to = {c}
    BY <1>1, <2>1, <2>2, CompletionHead
  <2>4. QED
    BY <1>1, <2>1, <2>2, <2>3, WaitsDoClose
<1>8. CASE RunStop
  <2>1. /\ ioq # <<>> /\ Head(ioq).op = "stop" /\ UNCHANGED <<phase, pending>>
        /\ ioq' \in {Tail(ioq), Tail(ioq) \o ClosesOfAll}
    BY <1>8 DEF RunStop, Takes
  <2>2. Further(ioq', Tail(ioq))
    <3>1. Further(Tail(ioq), Tail(ioq))
      BY <1>1, <2>1, HeadType, NoFurther
    <3>2. Further(Tail(ioq) \o ClosesOfAll, Tail(ioq))
      BY <1>1, ClosesPosted DEF Further
    <3>3. QED
      BY <2>1, <3>1, <3>2
  <2>3. Head(ioq).op \notin Completions
    BY <2>1 DEF Completions
  <2>4. QED
    BY <1>1, <2>1, <2>2, <2>3, WaitsNobody
<1>9. CASE RunReadError
  <2>1. ioq # <<>> /\ Head(ioq).op = "read"
    BY <1>9 DEF RunReadError, Takes
  <2>2. PICK c \in Head(ioq).to : DoClose(c, Tail(ioq))
    BY <1>9 DEF RunReadError
  <2>3. c \in Clients /\ Head(ioq).to = {c}
    BY <1>1, <2>1, <2>2, CompletionHead
  <2>4. QED
    BY <1>1, <2>1, <2>2, <2>3, WaitsDoClose
<1>10. CASE RunReadHandshake
  BY <1>10 DEF RunReadHandshake, Waits
<1>11. CASE ProcessHandshake
  <2>1. /\ ioq # <<>> /\ Head(ioq).op = "read" /\ Head(ioq).arg.type = "handshake"
        /\ \A d \in Head(ioq).to : phase[d] = "up"
        /\ phase' = phase
    BY <1>1, <1>11 DEF ProcessHandshake, InHandshake
  <2>2. PICK c \in Head(ioq).to :
          /\ Welcome(c, Head(ioq).arg) \/ ioq' = Refusal(c, Head(ioq).arg)
          /\ ReadAgain(c)
    BY <1>11 DEF ProcessHandshake
  <2>3. c \in Clients /\ Head(ioq).arg \in Requests
    BY <1>1, <2>1, ReadAtHead
  <2>4. Further(ioq', Tail(ioq))
    BY <1>1, <2>1, <2>2, <2>3, HandshakePosted
  <2>5. QED
    BY <1>1, <2>1, <2>2, <2>3, <2>4, WaitsRead
<1>12. ASSUME NEW c \in Clients, Message(c)
       PROVE  Waits'
  <2>1. /\ ioq # <<>> /\ Head(ioq).op = "read" /\ c \in Head(ioq).to
        /\ Active(c) /\ ready[c]
    BY <1>1, <1>12, MessageAtHead
       DEF Message, RunInput, RunOther, RunShutdownCommand, RunKick, RunRename, RunToggle,
           HostCommand, Gets
  <2>2. PICK q \in Seq(Postings) : Posts(c, q)
    BY <1>1, <1>12, MessagePosted
  <2>3. ioq' = Tail(ioq) \o q /\ phase' = phase /\ ReadAgain(c)
    BY <2>2 DEF Posts
  <2>4. phase[c] = "up" /\ Further(ioq', Tail(ioq))
    BY <2>1, <2>3 DEF Order, ReadyIsUp, Further
  <2>5. QED
    BY <1>1, <2>1, <2>3, <2>4, WaitsRead
<1>13. QED
  BY <1>2, <1>3, <1>4, <1>5, <1>6, <1>7, <1>8, <1>9, <1>10, <1>11, <1>12
     DEF Next, RunHead, Message

\* None and Once say what OneOperation does.
LEMMA WaitsOne == Waits => OneOperation
<1> SUFFICES ASSUME Waits, NEW c \in Clients, phase[c] \in DOMAIN Awaited
             PROVE  LET done == {i \in 1..Len(ioq) : /\ ioq[i].op = Awaited[phase[c]]
                                                     /\ c \in ioq[i].to}
                    IN  IF c \in pending THEN done = {} ELSE \E i \in 1..Len(ioq) : done = {i}
  BY DEF OneOperation
<1> DEFINE op == Awaited[phase[c]]
           done == {i \in 1..Len(ioq) : ioq[i].op = op /\ c \in ioq[i].to}
<1>1. IF c \in pending THEN None(ioq, op, c) ELSE Once(ioq, op, c)
  BY DEF Waits, WaitsFor
<1> HIDE DEF op
<1>2. None(ioq, op, c) => done = {}
  BY DEF None
<1>3. ASSUME Once(ioq, op, c) PROVE \E i \in 1..Len(ioq) : done = {i}
  <2>1. PICK i \in 1..Len(ioq) :
          /\ ioq[i].op = op /\ c \in ioq[i].to
          /\ \A j \in 1..Len(ioq) : ioq[j].op = op /\ c \in ioq[j].to => j = i
    BY <1>3 DEF Once
  <2>2. done = {i}
    BY <2>1
  <2>3. QED
    BY <2>2
<1>4. QED
  BY <1>1, <1>2, <1>3 DEF op

\* Every open or closing session waits for exactly one completion: no handler that keeps
\* a session forgets to read again, and none starts a second operation beside the first
\* (Session's handlers, Server::handleMessage()).
THEOREM OneAtATime == Spec => []OneOperation
<1>1. Init => Waits
  BY WaitsOver DEF Init, Waits
<1>2. ServerInv /\ Order /\ Waits /\ [Next]_vars => Waits'
  <2> SUFFICES ASSUME ServerInv, Order, Waits, [Next]_vars PROVE Waits'
    OBVIOUS
  <2>1. CASE Next
    BY <2>1, BoundsAssumption, RolesAssumption, WaitsStep
  <2>2. CASE UNCHANGED vars
    BY <2>2 DEF vars, Waits
  <2>3. QED
    BY <2>1, <2>2
<1>3. QED
  BY <1>1, <1>2, Invariance, Orderly, WaitsOne, PTL DEF Spec
-----------------------------------------------------------------------------
(* What a client will know *)

Current(d) == [name |-> name[d], role |-> role[d]]

\* c has been let in and nothing is about to end its session.
Settled(c) == c \in ReadySessions /\ ~CloseQueued(c) /\ ~Handled(c)

\* An entry e for d, in the roster of a settled client, once what is queued has been
\* heard: right if d is settled or the host, and until d has gone nothing but the truth.
Agrees(d, e) ==
  IF d \in ReadySessions
  THEN /\ e \in {Absent, Current(d)}
       /\ Settled(d) \/ hostClientId = d => e = Current(d)
  ELSE phase[d] = "closing" \/ e = Absent

Informed(w) == w.outcome = "accepted" /\ \A d \in Clients : Agrees(d, w.roster[d])

\* w is the view c will have when the queue has been run.
Future(c, w) ==
  /\ Leads(c, view[c], ioq, w)
  /\ w.outcome = "refused" => QueuedIn(ioq, c)
  /\ Settled(c) => Informed(w)

Futures == \A c \in Clients : Active(c) => \E w : Future(c, w)

LEMMA QueuedIsQueued == \A c : /\ CloseQueued(c) <=> QueuedIn(ioq, c)
                               /\ CloseQueued(c)' <=> QueuedIn(ioq', c)
  BY DEF CloseQueued, QueuedIn

\* A client that is known is not absent.
LEMMA CurrentKnown == ASSUME TypeOK, NEW d \in Clients PROVE Current(d) # Absent
<1>1. role[d] # ""
  BY DEF TypeOK, AllRoles
<1>2. QED
  BY <1>1 DEF Current, Absent

\* What d is does not change, nor does it settle.
LEMMA AgreesKept ==
  ASSUME NEW d \in Clients, NEW e, Agrees(d, e),
         d \in ReadySessions' <=> d \in ReadySessions,
         name'[d] = name[d], role'[d] = role[d],
         phase[d] = "closing" => phase'[d] = "closing",
         hostClientId' = d => hostClientId = d,
         Settled(d)' => Settled(d)
  PROVE  Agrees(d, e)'
  BY DEF Agrees, Current

\* The io thread takes an entry that sends nothing and does not close c.
LEMMA FutureOn ==
  ASSUME TypeOK, ioq # <<>>, NEW c \in Clients, NEW w, Future(c, w),
         Head(ioq).op # "send", ~Closes(c, Head(ioq))
  PROVE  /\ Tail(ioq) \in Seq(QueueEntries)
         /\ Leads(c, view[c], Tail(ioq), w)
         /\ w.outcome = "refused" => QueuedIn(Tail(ioq), c)
         /\ CloseQueued(c) => QueuedIn(Tail(ioq), c)
<1>1. Tail(ioq) \in Seq(QueueEntries) /\ ioq \in Seq(QueueEntries)
  BY HeadType DEF TypeOK
<1>2. Leads(c, Heard(c, view[c], Head(ioq)), Tail(ioq), w)
  BY <1>1, LeadsOn DEF Future
<1>3. Heard(c, view[c], Head(ioq)) = view[c]
  BY DEF Heard
<1>4. QueuedIn(ioq, c) => QueuedIn(Tail(ioq), c)
  BY <1>1, TailKeeps DEF Closes
<1>5. QED
  BY <1>1, <1>2, <1>3, <1>4, QueuedIsQueued DEF Future

\* A ready client that is not about to be closed will have been let in.
LEMMA ReadyFits ==
  ASSUME TypeOK, NEW c \in ReadySessions, NEW w, Future(c, w), ~Handled(c), ~CloseQueued(c)
  PROVE  /\ Informed(w) /\ w.outcome = "accepted" /\ w.roster[c] # Absent
         /\ \A m : m.type # "input" => Fits(c, w, m)
<1>1. c \in Clients /\ Settled(c)
  BY DEF ReadySessions, TypeOK, Settled
<1>2. Informed(w)
  BY <1>1 DEF Future
<1>3. w.outcome = "accepted" /\ Agrees(c, w.roster[c])
  BY <1>1, <1>2 DEF Informed
<1>4. w.roster[c] # Absent
  BY <1>1, <1>3, CurrentKnown DEF Agrees
<1>5. \A m : m.type # "input" => Fits(c, w, m)
  BY <1>3, <1>4 DEF Fits
<1>6. QED
  BY <1>2, <1>3, <1>4, <1>5

\* The messages that tell nothing of anybody.
Neutral == {"fs", "chat", "reply", "host_left", "you_were_renamed",
            "server_shutdown_imminent", "input"}

LEMMA NeutralTold == ASSUME NEW c, NEW w, NEW S, NEW m, m.type \in Neutral
                     PROVE  Told(c, w, S, m) = w
  BY DEF Neutral, Told, Hear

\* Who is not settled does not settle.
LEMMA SettledKept ==
  ASSUME NEW d, QueuedIn(ioq, d) => QueuedIn(ioq', d),
         d \in ReadySessions' => d \in ReadySessions,
         Handled(d) => Handled(d)'
  PROVE  Settled(d)' => Settled(d)
  BY QueuedIsQueued DEF Settled

\* A step that changes nothing a roster depends on.
LEMMA InformedKept ==
  ASSUME NEW w, Informed(w),
         UNCHANGED <<ready, sessions, name, role, phase, hostClientId>>,
         \A d \in Clients : Settled(d)' => Settled(d)
  PROVE  Informed(w)'
<1>1. ASSUME NEW d \in Clients PROVE Agrees(d, w.roster[d])'
  <2>1. d \in ReadySessions' <=> d \in ReadySessions
    BY DEF ReadySessions
  <2>2. Agrees(d, w.roster[d])
    BY DEF Informed
  <2>3. QED
    BY <2>1, <2>2, AgreesKept
<1>2. QED
  BY <1>1 DEF Informed
-----------------------------------------------------------------------------
(* The futures are kept *)

LEMMA FutureOthers ==
  ASSUME TypeOK, InHandshake, UNCHANGED Standing, NEW q \in Seq(Sound), ioq' = ioq \o q,
         Silent(q) \/ Update(q), NEW c \in Clients, NEW w, Future(c, w)
  PROVE  Future(c, w)'
<1>1. ioq \in Seq(QueueEntries) /\ q \in Seq(QueueEntries)
  BY SoundType DEF TypeOK
<1>2. \A d \in Clients : QueuedIn(ioq, d) => QueuedIn(ioq', d)
  BY <1>1, JoinKeeps DEF Keeps
<1>3. handling => ioq # <<>> /\ Head(ioq') = Head(ioq)
  BY <1>1, HeadKept DEF InHandshake
<1>4. \A d \in Clients : Settled(d)' => Settled(d)
  <2>1. ASSUME NEW d \in Clients PROVE Settled(d)' => Settled(d)
    <3>1. Handled(d) => Handled(d)'
      BY <1>3 DEF Handled, Standing
    <3>2. d \in ReadySessions' => d \in ReadySessions
      BY DEF ReadySessions, Standing
    <3>3. QED
      BY <1>2, <3>1, <3>2, SettledKept
  <2>2. QED
    BY <2>1
<1>5. Informed(w) => Informed(w)'
  BY <1>4, InformedKept DEF Standing
<1>6. Leads(c, view[c], ioq', w)
  <2>1. CASE Silent(q)
    BY <1>1, <2>1, LeadsPast DEF Silent, Future
  <2>2. CASE Update(q)
    <3>1. PICK d \in Clients : q = Send({d}, Plain("fs"))
      BY <2>2 DEF Update
    <3>2. Fits(c, w, Plain("fs"))
      BY DEF Fits, Plain
    <3>3. Told(c, w, {d}, Plain("fs")) = w
      BY NeutralTold DEF Plain, Neutral
    <3>4. {d} \in SUBSET Clients /\ Plain("fs") \in Messages
      BY MessageTypes
    <3>5. QED
      BY <1>1, <3>1, <3>2, <3>3, <3>4, LeadsSend DEF Future
  <2>3. QED
    BY <2>1, <2>2
<1>7. view' = view
  BY DEF Standing
<1>8. QED
  BY <1>2, <1>4, <1>5, <1>6, <1>7 DEF Future

\* What a step of the io thread, with what it takes from the queue, leaves of the future
\* of c if what it posts tells c nothing new.
LEMMA FutureEnding ==
  ASSUME TypeOK, TypeOK', HostParts, Order, NEW x \in Clients, Ending(x),
         NEW c \in Clients, Active(c)', NEW v, Future(c, v)
  PROVE  \E w : Future(c, w)'
<1>1. /\ ioq # <<>> /\ ~handling /\ ~handling' /\ Head(ioq).op # "send"
      /\ Head(ioq).op = "close" => Head(ioq).to = {x}
      /\ UNCHANGED <<name, role, view>>
  BY DEF Ending
<1>2. /\ ~Active(x)' /\ ~ready'[x]
      /\ \A d \in Clients \ {x} : phase'[d] = phase[d] /\ ready'[d] = ready[d]
      /\ hostClientId' \in {hostClientId, Nobody}
      /\ sessions' \in {sessions, sessions \ {x}}
  BY DEF Ending, Ends
<1>3. c # x /\ ~Closes(c, Head(ioq))
  BY <1>1, <1>2 DEF Closes
<1>4. /\ Tail(ioq) \in Seq(QueueEntries)
      /\ Leads(c, view[c], Tail(ioq), v)
      /\ v.outcome = "refused" => QueuedIn(Tail(ioq), c)
      /\ CloseQueued(c) => QueuedIn(Tail(ioq), c)
  BY <1>1, <1>3, FutureOn
<1>5. Active(c)
  BY <1>2, <1>3 DEF Active
<1>6. /\ x \notin ReadySessions'
      /\ \A d \in Clients \ {x} : d \in ReadySessions' <=> d \in ReadySessions
  BY <1>2 DEF ReadySessions, TypeOK
<1>7. ioq' \in Seq(QueueEntries)
  BY DEF TypeOK
<1>8. ASSUME Longer(ioq', Tail(ioq), QueueEntries)
      PROVE  \A d \in Clients \ {x} : Settled(d)' => Settled(d)
  <2>1. Keeps(Tail(ioq), ioq')
    BY <1>4, <1>8, JoinKeeps DEF Longer
  <2>2. ASSUME NEW d \in Clients \ {x} PROVE Settled(d)' => Settled(d)
    <3>1. QueuedIn(ioq, d) => QueuedIn(Tail(ioq), d)
      BY <1>1, TailKeeps DEF TypeOK
    <3>2. QueuedIn(ioq, d) => QueuedIn(ioq', d)
      BY <2>1, <3>1 DEF Keeps
    <3>3. ~Handled(d)
      BY <1>1 DEF Handled
    <3>4. QED
      BY <1>6, <3>2, <3>3, SettledKept
  <2>3. QED
    BY <2>2
<1>9. ASSUME NEW d \in Clients \ {x}, NEW e, Agrees(d, e), Settled(d)' => Settled(d)
      PROVE  Agrees(d, e)'
  <2>1. hostClientId' = d => hostClientId = d
    BY <1>2 DEF Nobody, Clients
  <2>2. QED
    BY <1>1, <1>2, <1>6, <1>9, <2>1, AgreesKept
<1>10. CASE /\ ioq' = Tail(ioq) /\ sessions' = sessions
            /\ phase'[x] = "closing" \/ phase'[x] = phase[x]
  <2>1. \A d \in Clients \ {x} : Settled(d)' => Settled(d)
    BY <1>4, <1>8, <1>10, NoLonger
  <2>2. Informed(v) /\ Settled(c) => Informed(v)'
    <3>1. SUFFICES ASSUME Informed(v) PROVE Informed(v)'
      OBVIOUS
    <3>2. \A d \in Clients \ {x} : Agrees(d, v.roster[d])'
      BY <1>9, <2>1, <3>1 DEF Informed
    <3>3. Agrees(x, v.roster[x])'
      <4>1. CASE phase'[x] = "closing"
        BY <1>6, <4>1 DEF Agrees
      <4>2. CASE phase'[x] # "closing"
        <5>1. phase[x] = phase'[x] /\ ~ready[x]
          BY <1>2, <1>10, <4>2 DEF Order, ReadyIsUp, Active
        <5>2. v.roster[x] = Absent
          BY <4>2, <5>1, <3>1 DEF Informed, Agrees, ReadySessions
        <5>3. QED
          BY <1>6, <5>2 DEF Agrees
      <4>3. QED
        BY <4>1, <4>2
    <3>4. QED
      BY <3>1, <3>2, <3>3 DEF Informed
  <2>3. Future(c, v)'
    BY <1>1, <1>3, <1>4, <1>10, <2>1, <2>2 DEF Future
  <2>4. QED
    BY <2>3
<1>11. CASE ~(ioq' = Tail(ioq) /\ sessions' = sessions
              /\ (phase'[x] = "closing" \/ phase'[x] = phase[x]))
  <2>1. PICK first \in {<<>>, Send(ReadySessions, Plain("host_left"))} :
          /\ sessions' = sessions \ {x} /\ ~ready[x]
          /\ ioq' = Tail(ioq) \o first \o Send(ReadySessions, LeftMsg(x))
    BY <1>11 DEF Ending, Ends
  <2>14. PICK w : w = Told(c, v, ReadySessions, LeftMsg(x))
    OBVIOUS
  <2>2. /\ Plain("host_left") \in Messages /\ LeftMsg(x) \in Messages
        /\ ReadySessions \in SUBSET Clients
    BY MessageTypes, ReadyType
  <2>3. \A m : m.type # "input" =>
          QueuedIn(Tail(ioq), c) \/ c \notin ReadySessions \/ Fits(c, v, m)
    <3>1. ~Handled(c)
      BY <1>1 DEF Handled
    <3>2. QED
      BY <1>4, <3>1, ReadyFits
  <2>4. /\ Tail(ioq) \o first \in Seq(QueueEntries)
        /\ Leads(c, view[c], Tail(ioq) \o first, v)
        /\ QueuedIn(Tail(ioq), c) => QueuedIn(Tail(ioq) \o first, c)
    <3>1. CASE first = <<>>
      <4>1. Tail(ioq) \o first = Tail(ioq)
        BY <1>4, <3>1, ConcatEmptySeq
      <4>2. QED
        BY <1>4, <4>1
    <3>2. CASE first = Send(ReadySessions, Plain("host_left"))
      <4>1. Told(c, v, ReadySessions, Plain("host_left")) = v
        BY NeutralTold DEF Plain, Neutral
      <4>2. Plain("host_left").type # "input"
        BY DEF Plain
      <4>3. QED
        BY <1>4, <2>2, <2>3, <3>2, <4>1, <4>2, LeadsSend
    <3>3. QED
      BY <3>1, <3>2
  <2>5. /\ Leads(c, view[c], ioq', w)
        /\ QueuedIn(Tail(ioq), c) => QueuedIn(ioq', c)
    <3>1. LeftMsg(x).type # "input"
      BY DEF LeftMsg
    <3>2. QueuedIn(Tail(ioq) \o first, c) \/ c \notin ReadySessions \/ Fits(c, v, LeftMsg(x))
      BY <2>3, <2>4, <3>1
    <3>3. QED
      BY <2>1, <2>2, <2>4, <2>14, <3>2, LeadsSend
  <2>6. v \in Views
    BY <1>4, LeadsType
  <2>7. w.outcome = v.outcome /\ \A d \in Clients \ {x} : w.roster[d] = v.roster[d]
    BY <2>6, <2>14 DEF Told, Hear, LeftMsg, Views
  <2>8. c \in ReadySessions => w.roster[x] = Absent
    BY <1>5, <2>6, <2>14 DEF Told, Hear, LeftMsg, Views
  <2>9. Longer(ioq', Tail(ioq), QueueEntries)
    <3>1. first \in Seq(QueueEntries) /\ Send(ReadySessions, LeftMsg(x)) \in Seq(QueueEntries)
      BY <2>2, SendType, NothingQueued
    <3>2. Longer(Tail(ioq) \o first, Tail(ioq), QueueEntries)
      BY <1>4, <3>1, NoLonger, StillLonger
    <3>3. QED
      BY <1>4, <2>1, <3>1, <3>2, StillLonger
  <2>10. \A d \in Clients \ {x} : Settled(d)' => Settled(d)
    BY <1>8, <2>9
  <2>11. Settled(c)' => Informed(w)'
    <3>1. SUFFICES ASSUME Settled(c)' PROVE Informed(w)'
      OBVIOUS
    <3>2. Settled(c) /\ Informed(v) /\ c \in ReadySessions
      BY <1>3, <2>10, <3>1 DEF Future, Settled
    <3>3. \A d \in Clients \ {x} : Agrees(d, w.roster[d])'
      BY <1>9, <2>7, <2>10, <3>2 DEF Informed
    <3>4. Agrees(x, w.roster[x])'
      BY <1>6, <2>8, <3>2 DEF Agrees
    <3>5. w.outcome = "accepted"
      BY <2>7, <3>2 DEF Informed
    <3>6. QED
      BY <3>3, <3>4, <3>5 DEF Informed
  <2>12. Future(c, w)'
    BY <1>1, <1>4, <2>5, <2>7, <2>11 DEF Future
  <2>13. QED
    BY <2>12
<1>12. QED
  BY <1>10, <1>11

\* The end of a TLS handshake tells nobody anything.
LEMMA FutureComesUp ==
  ASSUME TypeOK, HostParts, Order, NEW x \in Clients, ComesUp(x),
         NEW c \in Clients, NEW w, Future(c, w)
  PROVE  Future(c, w)'
<1>1. /\ ioq # <<>> /\ ~handling /\ ~handling' /\ Head(ioq).op = "ssl"
      /\ phase[x] # "closing" /\ phase' = [phase EXCEPT ![x] = "up"]
      /\ ioq' = Tail(ioq)
      /\ UNCHANGED <<sessions, ready, name, role, hostClientId, view>>
  BY DEF ComesUp, Active
<1>2. /\ Leads(c, view[c], Tail(ioq), w)
      /\ w.outcome = "refused" => QueuedIn(Tail(ioq), c)
  BY <1>1, FutureOn DEF Closes
<1>3. ReadySessions' = ReadySessions
  BY <1>1 DEF ReadySessions
<1>4. \A d \in Clients : Settled(d)' => Settled(d)
  <2>1. ASSUME NEW d \in Clients PROVE Settled(d)' => Settled(d)
    <3>1. QueuedIn(ioq, d) => QueuedIn(ioq', d)
      BY <1>1, TailKeeps DEF TypeOK
    <3>2. QED
      BY <1>1, <1>3, <3>1, SettledKept DEF Handled
  <2>2. QED
    BY <2>1
<1>5. Informed(w) => Informed(w)'
  <2>1. SUFFICES ASSUME Informed(w) PROVE Informed(w)'
    OBVIOUS
  <2>2. ASSUME NEW d \in Clients PROVE Agrees(d, w.roster[d])'
    <3>1. Agrees(d, w.roster[d]) /\ (phase[d] = "closing" => phase'[d] = "closing")
      BY <1>1, <2>1 DEF Informed, TypeOK
    <3>2. QED
      BY <1>1, <1>3, <1>4, <3>1, AgreesKept
  <2>3. QED
    BY <2>1, <2>2 DEF Informed
<1>6. QED
  BY <1>1, <1>2, <1>4, <1>5 DEF Future

\* A step that leaves what a roster is about alone, takes an entry that sends nothing,
\* and posts nothing that c hears.
LEMMA FutureStep ==
  ASSUME TypeOK, ioq # <<>>, ~handling, ~handling', Longer(ioq', Tail(ioq), QueueEntries),
         Head(ioq).op \notin {"send", "close"},
         UNCHANGED <<ready, sessions, name, role, phase, hostClientId, view>>,
         NEW c \in Clients, NEW w, Future(c, w), Leads(c, view[c], ioq', w)
  PROVE  Future(c, w)'
<1>1. \A d \in Clients : QueuedIn(ioq, d) => QueuedIn(ioq', d)
  <2>1. Tail(ioq) \in Seq(QueueEntries)
    BY HeadType
  <2>2. Keeps(Tail(ioq), ioq')
    BY <2>1, JoinKeeps DEF Longer
  <2>3. \A d : QueuedIn(ioq, d) => QueuedIn(Tail(ioq), d)
    BY TailKeeps DEF TypeOK
  <2>4. QED
    BY <2>2, <2>3 DEF Keeps
<1>2. ASSUME NEW d \in Clients PROVE Settled(d)' => Settled(d)
  BY <1>1, SettledKept DEF Handled, ReadySessions
<1>3. Informed(w) => Informed(w)'
  BY <1>2, InformedKept
<1>4. QED
  BY <1>1, <1>2, <1>3 DEF Future

LEMMA FutureAccept ==
  ASSUME TypeOK, HostParts, Order, RunAccept, Futures, NEW c \in Clients, Active(c)'
  PROVE  \E w : Future(c, w)'
<1>1. /\ ioq # <<>> /\ ~handling /\ ~handling' /\ Head(ioq).op = "accept" /\ ioq' = Tail(ioq)
      /\ UNCHANGED <<ready, name, role, hostClientId, view>>
  BY DEF RunAccept, Takes, attributes
<1>2. Tail(ioq) \in Seq(QueueEntries) /\ Tail(ioq) \in Seq(Sound)
  BY <1>1, HeadType, HeadAndTail DEF Order
<1>3. CASE UNCHANGED <<nextClientId, sessions, phase>>
  <2>1. PICK w : Future(c, w)
    BY <1>3 DEF Futures, Active
  <2>2. Leads(c, view[c], ioq', w)
    BY <1>1, <2>1, FutureOn DEF Closes
  <2>3. Longer(ioq', Tail(ioq), QueueEntries)
    BY <1>1, <1>2, NoLonger
  <2>4. QED
    BY <1>1, <1>3, <2>1, <2>2, <2>3, FutureStep
<1>4. CASE ~UNCHANGED <<nextClientId, sessions, phase>>
  <2> DEFINE k == nextClientId
  <2>1. /\ k <= MaxClients
        /\ sessions' = sessions \union {k}
        /\ phase' = [phase EXCEPT ![k] = "ssl"]
    BY <1>4 DEF RunAccept
  <2>2. k \in Clients /\ k \in Int
    BY <2>1 DEF TypeOK, Clients
  <2>3. phase[k] \in {"none", "closed"} /\ phase'[k] = "ssl"
        /\ \A d \in Clients \ {k} : phase'[d] = phase[d]
    BY <2>1, <2>2 DEF HostParts, NotYetUp, TypeOK
  <2>4. ~ready[k]
    BY <2>2, <2>3 DEF Order, ReadyIsUp
  <2>5. ReadySessions' = ReadySessions /\ k \notin ReadySessions
    BY <1>1, <2>1, <2>4 DEF ReadySessions
  <2>6. CASE c = k
    <3>1. \A i \in 1..Len(ioq') : c \notin ioq'[i].to
      <4>1. \A i \in 1..Len(ioq') : ioq'[i] \in Sound
        BY <1>1, <1>2
      <4>2. \A e \in Sound : k \notin e.to
        BY <2>2 DEF Sound
      <4>3. QED
        BY <2>6, <4>1, <4>2
    <3>2. view[c] \in Views
      BY DEF TypeOK, Views
    <3>3. Leads(c, view[c], ioq', view[c])
      BY <1>1, <1>2, <3>1, <3>2, LeadsNowhere
    <3>4. view[c].outcome = "none"
      BY <2>2, <2>6 DEF Order, Fresh
    <3>5. ~Settled(c)'
      BY <2>5, <2>6 DEF Settled
    <3>6. PICK w : w = view[c]
      OBVIOUS
    <3>7. Future(c, w)'
      BY <1>1, <3>3, <3>4, <3>5, <3>6 DEF Future
    <3>8. QED
      BY <3>7
  <2>7. CASE c # k
    <3>1. PICK w : Future(c, w)
      BY <2>3, <2>7 DEF Futures, Active
    <3>2. /\ Leads(c, view[c], Tail(ioq), w)
          /\ w.outcome = "refused" => QueuedIn(Tail(ioq), c)
      BY <1>1, <3>1, FutureOn DEF Closes
    <3>3. ASSUME NEW d \in Clients PROVE Settled(d)' => Settled(d)
      <4>1. QueuedIn(ioq, d) => QueuedIn(ioq', d)
        BY <1>1, TailKeeps DEF TypeOK
      <4>2. QED
        BY <1>1, <2>5, <4>1, SettledKept DEF Handled
    <3>4. Informed(w) => Informed(w)'
      <4>1. SUFFICES ASSUME Informed(w) PROVE Informed(w)'
        OBVIOUS
      <4>2. ASSUME NEW d \in Clients PROVE Agrees(d, w.roster[d])'
        <5>1. Agrees(d, w.roster[d])
          BY <4>1 DEF Informed
        <5>2. CASE d # k
          BY <1>1, <2>3, <2>5, <3>3, <5>1, <5>2, AgreesKept
        <5>3. CASE d = k
          BY <2>3, <2>5, <5>1, <5>3 DEF Agrees
        <5>4. QED
          BY <5>2, <5>3
      <4>3. QED
        BY <4>1, <4>2 DEF Informed
    <3>5. Future(c, w)'
      BY <1>1, <3>1, <3>2, <3>3, <3>4 DEF Future
    <3>6. QED
      BY <3>5
  <2>8. QED
    BY <2>6, <2>7
<1>5. QED
  BY <1>3, <1>4

LEMMA FutureSend ==
  ASSUME TypeOK, RunSend, NEW c \in Clients, Active(c), NEW w, Future(c, w)
  PROVE  Future(c, w)'
<1>1. /\ ioq # <<>> /\ ~handling /\ ~handling' /\ Head(ioq).op = "send" /\ ioq' = Tail(ioq)
      /\ UNCHANGED <<ready, sessions, name, role, phase, hostClientId>>
  BY DEF RunSend, Takes, attributes
<1>2. view'[c] = Heard(c, view[c], Head(ioq))
  BY <1>1 DEF RunSend, Heard
<1>3. Leads(c, view'[c], ioq', w)
  BY <1>1, <1>2, LeadsOn DEF Future, Closes, TypeOK
<1>4. ASSUME NEW d \in Clients
      PROVE  (QueuedIn(ioq, d) => QueuedIn(ioq', d)) /\ (Settled(d)' => Settled(d))
  <2>1. QueuedIn(ioq, d) => QueuedIn(ioq', d)
    BY <1>1, TailKeeps DEF TypeOK
  <2>2. QED
    BY <1>1, <2>1, SettledKept DEF Handled, ReadySessions
<1>5. Informed(w) => Informed(w)'
  BY <1>1, <1>4, InformedKept
<1>6. QED
  BY <1>3, <1>4, <1>5 DEF Future

LEMMA FutureStop ==
  ASSUME TypeOK, BoundsAssumption, RunStop, NEW c \in Clients, NEW w, Future(c, w)
  PROVE  Future(c, w)'
<1>1. /\ ioq # <<>> /\ ~handling /\ ~handling' /\ Head(ioq).op = "stop"
      /\ UNCHANGED <<phase, ready, name, role, hostClientId, view>>
  BY DEF RunStop, Takes, attributes
<1>2. /\ Tail(ioq) \in Seq(QueueEntries)
      /\ Leads(c, view[c], Tail(ioq), w)
      /\ w.outcome = "refused" => QueuedIn(Tail(ioq), c)
  BY <1>1, FutureOn DEF Closes
<1>3. CASE serverState = "Stopped"
  <2>1. ioq' = Tail(ioq) /\ sessions' = sessions
    BY <1>3 DEF RunStop
  <2>2. Longer(ioq', Tail(ioq), QueueEntries)
    BY <1>2, <2>1, NoLonger
  <2>3. QED
    BY <1>1, <1>2, <2>1, <2>2, FutureStep
<1>4. CASE serverState # "Stopped"
  <2>1. ioq' = Tail(ioq) \o ClosesOfAll /\ sessions' = {}
    BY <1>4 DEF RunStop
  <2>2. ClosesOfAll \in Seq(QueueEntries)
    BY ClosesType
  <2>3. \A i \in 1..Len(ClosesOfAll) : ClosesOfAll[i].op # "send"
    <3> DEFINE C == {Close(d) : d \in sessions}
    <3>1. SetToSeq(C) \in Seq(C)
      BY SessionsFinite, EnumerationExists DEF TypeOK
    <3>2. ClosesOfAll \in Seq(C)
      BY <3>1 DEF ClosesOfAll
    <3>3. \A e \in C : e.op # "send"
      BY DEF Close, Entry
    <3> HIDE DEF C
    <3>4. \A i \in 1..Len(ClosesOfAll) : ClosesOfAll[i] \in C
      BY <3>2
    <3>5. QED
      BY <3>3, <3>4
  <2>4. Leads(c, view[c], ioq', w)
    BY <1>2, <2>1, <2>2, <2>3, LeadsPast
  <2>5. QueuedIn(Tail(ioq), c) => QueuedIn(ioq', c)
    BY <1>2, <2>1, <2>2, JoinKeeps DEF Keeps
  <2>6. ~Settled(c)'
    BY <2>1 DEF Settled, ReadySessions
  <2>7. QED
    BY <1>1, <1>2, <2>4, <2>5, <2>6 DEF Future
<1>5. QED
  BY <1>3, <1>4

\* The session is ready, but what the others have been told of it is not yet required.
LEMMA FutureReadHandshake ==
  ASSUME TypeOK, Order, RunReadHandshake, NEW c \in Clients, NEW w, Future(c, w)
  PROVE  Future(c, w)'
<1>1. /\ ioq # <<>> /\ ~handling /\ handling' /\ Head(ioq).op = "read" /\ ioq' = ioq
      /\ UNCHANGED <<sessions, name, role, phase, hostClientId, view>>
  BY DEF RunReadHandshake, Takes, attributes
<1>2. PICK x \in Head(ioq).to : phase[x] = "up" /\ ready' = [ready EXCEPT ![x] = TRUE]
  BY DEF RunReadHandshake
<1>3. x \in Clients /\ Head(ioq).to = {x}
  BY <1>1, <1>2, HeadType, HeadOfOp
<1>4. ready'[x] /\ \A d \in Clients \ {x} : ready'[d] = ready[d]
  BY <1>2, <1>3 DEF TypeOK
<1>5. \A d \in Clients \ {x} : d \in ReadySessions' <=> d \in ReadySessions
  BY <1>1, <1>4 DEF ReadySessions
<1>6. ASSUME NEW d \in Clients
      PROVE  Settled(d)' => d # x /\ Settled(d)
  <2>1. Handled(x)'
    BY <1>1, <1>3 DEF Handled
  <2>2. d # x => (Settled(d)' => Settled(d))
    BY <1>1, <1>5, SettledKept DEF Handled
  <2>3. QED
    BY <2>1, <2>2 DEF Settled
<1>7. Informed(w) => Informed(w)'
  <2>1. SUFFICES ASSUME Informed(w) PROVE Informed(w)'
    OBVIOUS
  <2>2. ASSUME NEW d \in Clients PROVE Agrees(d, w.roster[d])'
    <3>1. Agrees(d, w.roster[d])
      BY <2>1 DEF Informed
    <3>2. CASE d # x
      BY <1>1, <1>5, <1>6, <3>1, <3>2, AgreesKept
    <3>3. CASE d = x
      <4>1. hostClientId = x => ready[x]
        BY <1>2, <1>3 DEF Order, ReadyIsUp
      <4>2. ~Settled(x)'
        BY <1>3, <1>6
      <4>3. CASE x \in ReadySessions
        <5>1. x \in ReadySessions'
          BY <1>1, <1>4, <4>3 DEF ReadySessions
        <5>2. QED
          BY <1>1, <3>1, <3>3, <4>2, <4>3, <5>1 DEF Agrees, Current
      <4>4. CASE x \notin ReadySessions /\ x \in sessions
        <5>1. x \in ReadySessions' /\ hostClientId # x
          BY <1>1, <1>4, <4>1, <4>4 DEF ReadySessions
        <5>2. w.roster[d] = Absent
          BY <1>2, <3>1, <3>3, <4>4 DEF Agrees
        <5>3. QED
          BY <1>1, <3>3, <4>2, <5>1, <5>2 DEF Agrees, Current
      <4>5. CASE x \notin sessions
        <5>1. x \notin ReadySessions /\ x \notin ReadySessions'
          BY <1>1, <4>5 DEF ReadySessions
        <5>2. QED
          BY <1>1, <3>1, <3>3, <5>1 DEF Agrees
      <4>6. QED
        BY <4>3, <4>4, <4>5 DEF ReadySessions
    <3>4. QED
      BY <3>2, <3>3
  <2>3. QED
    BY <2>1, <2>2 DEF Informed
<1>8. QED
  BY <1>1, <1>6, <1>7 DEF Future

\* A refused client is told and will be closed; the others need not know of it.
LEMMA FutureRefusal ==
  ASSUME TypeOK, ioq # <<>>, handling, ~handling', NEW x \in Clients, NEW r \in Requests,
         Head(ioq).op = "read", Head(ioq).to = {x}, ioq' = Refusal(x, r),
         UNCHANGED <<ready, sessions, name, role, phase, hostClientId, view>>,
         NEW c \in Clients, NEW v, Future(c, v)
  PROVE  \E w : Future(c, w)'
<1>1. /\ Tail(ioq) \in Seq(QueueEntries)
      /\ Leads(c, view[c], Tail(ioq), v)
      /\ v.outcome = "refused" => QueuedIn(Tail(ioq), c)
  BY FutureOn DEF Closes
<1> DEFINE told == IF r.password = "wrong" THEN Send({x}, Plain("auth_failed")) ELSE <<>>
           q == Tail(ioq) \o told
<1>2. \E w : /\ q \in Seq(QueueEntries) /\ Leads(c, view[c], q, w)
             /\ w.roster = v.roster
             /\ c # x => w = v
             /\ QueuedIn(Tail(ioq), c) => QueuedIn(q, c)
  <2>1. CASE r.password = "wrong"
    <3> DEFINE m == Plain("auth_failed")
    <3>1. m \in Messages /\ m.type = "auth_failed"
      BY MessageTypes DEF Plain
    <3> HIDE DEF m
    <3>2. PICK w : w = Told(c, v, {x}, m)
      OBVIOUS
    <3>3. QueuedIn(Tail(ioq), c) \/ Fits(c, v, m)
      BY <1>1, <3>1 DEF Fits
    <3>4. /\ Tail(ioq) \o Send({x}, m) \in Seq(QueueEntries)
          /\ Leads(c, view[c], Tail(ioq) \o Send({x}, m), w)
          /\ QueuedIn(Tail(ioq), c) => QueuedIn(Tail(ioq) \o Send({x}, m), c)
      BY <1>1, <3>1, <3>2, <3>3, LeadsSend
    <3>5. v \in Views
      BY <1>1, LeadsType
    <3>6. w.roster = v.roster /\ (c # x => w = v)
      BY <3>1, <3>2, <3>5 DEF Told, Hear, Views
    <3>7. q = Tail(ioq) \o Send({x}, m)
      BY <2>1 DEF m
    <3>8. QED
      BY <3>4, <3>6, <3>7
  <2>2. CASE r.password # "wrong"
    <3>1. q = Tail(ioq)
      BY <1>1, <2>2, ConcatEmptySeq
    <3>2. QED
      BY <1>1, <3>1
  <2>3. QED
    BY <2>1, <2>2
<1>3. ioq' = q \o <<Close(x)>>
  BY DEF Refusal
<1>4. <<Close(x)>> \in Seq(QueueEntries)
  BY OtherEntryTypes, Singles
<1>5. Keeps(Tail(ioq), ioq')
  BY RefusalType
<1> HIDE DEF q
<1>6. PICK w : /\ q \in Seq(QueueEntries) /\ Leads(c, view[c], q, w)
               /\ w.roster = v.roster
               /\ c # x => w = v
               /\ QueuedIn(Tail(ioq), c) => QueuedIn(q, c)
  BY <1>2
<1>7. Leads(c, view[c], ioq', w)
  <2>1. \A i \in 1..Len(<<Close(x)>>) : <<Close(x)>>[i].op # "send"
    BY DEF Close, Entry
  <2>2. QED
    BY <1>3, <1>4, <1>6, <2>1, LeadsPast
<1>8. QueuedIn(ioq', x)
  <2>1. Len(q) + 1 \in 1..Len(ioq') /\ ioq'[Len(q) + 1] = Close(x)
    BY <1>3, <1>4, <1>6
  <2>2. QED
    BY <2>1 DEF QueuedIn, Close, Entry
<1>9. ASSUME NEW d \in Clients PROVE Settled(d)' => d # x /\ Settled(d)
  <2>1. d # x => ~Handled(d)
    BY DEF Handled
  <2>2. QueuedIn(ioq, d) => QueuedIn(ioq', d)
    BY <1>5, TailKeeps DEF Keeps, TypeOK
  <2>3. d = x => CloseQueued(d)'
    BY <1>8, QueuedIsQueued
  <2>4. QED
    BY <2>1, <2>2, <2>3, SettledKept DEF Settled, ReadySessions
<1>10. Settled(c)' => Informed(w)'
  <2>1. SUFFICES ASSUME Settled(c)' PROVE Informed(w)'
    OBVIOUS
  <2>2. w = v /\ Informed(w)
    BY <1>6, <1>9, <2>1 DEF Future
  <2>3. QED
    BY <1>9, <2>2, InformedKept
<1>11. w.outcome = "refused" => QueuedIn(ioq', c)
  BY <1>1, <1>5, <1>6, <1>8 DEF Keeps
<1>12. Future(c, w)'
  BY <1>7, <1>10, <1>11 DEF Future
<1>13. QED
  BY <1>12

\* While an open session is forgotten nobody is ready.
LEMMA NobodyReady ==
  ASSUME TypeOK, Order, NEW x \in Clients, Active(x), x \notin sessions
  PROVE  ReadySessions = {}
  BY DEF Order, OrphansFirst, ReadyIsUp, ReadySessions, TypeOK

\* What the answer to a handshake tells of d is so.
LEMMA Announced ==
  ASSUME TypeOK, Order, NEW x \in Clients, NEW r \in Requests, Welcome(x, r), ready[x],
         UNCHANGED <<ready, sessions, phase>>
  PROVE  /\ Current(x)' = Introduced(x, r)
         /\ \A d \in Clients \ {x} : Current(d)' = Current(d)
         /\ ReadySessions' = ReadySessions
         /\ \A d \in Clients : \A e : e = Roster(x, r)[d] => Agrees(d, e)'
<1>1. /\ name' = [name EXCEPT ![x] = r.name]
      /\ role' = [role EXCEPT ![x] = Granted(x, r.role)]
  BY DEF Welcome
<1>2. Current(x)' = Introduced(x, r)
  BY <1>1 DEF Current, Introduced, TypeOK
<1>3. \A d \in Clients \ {x} : Current(d)' = Current(d)
  BY <1>1 DEF Current, TypeOK
<1>4. ReadySessions' = ReadySessions
  BY DEF ReadySessions
<1>5. ASSUME NEW d \in Clients, NEW e, e = Roster(x, r)[d] PROVE Agrees(d, e)'
  <2>2. CASE d \notin ReadySessions
    <3>1. e = Absent
      BY <1>5, <2>2 DEF Roster
    <3>2. QED
      BY <1>4, <2>2, <3>1 DEF Agrees
  <2>3. CASE d \in ReadySessions
    <3>1. e = Current(d)'
      <4>1. CASE d = x
        BY <1>2, <1>5, <2>3, <4>1 DEF Roster
      <4>2. CASE d # x
        BY <1>3, <1>5, <2>3, <4>2 DEF Roster, Current
      <4>3. QED
        BY <4>1, <4>2
    <3>2. QED
      BY <1>4, <2>3, <3>1 DEF Agrees
  <2>4. QED
    BY <2>2, <2>3
<1>6. QED
  BY <1>2, <1>3, <1>4, <1>5

LEMMA Associates ==
  ASSUME NEW S, NEW p \in Seq(S), NEW q \in Seq(S), NEW s \in Seq(S)
  PROVE  p \o (q \o s) = p \o q \o s
  OBVIOUS

\* The queue after processHandshake() has let x in: the answer, then the announcements.
LEMMA LeadsWelcome ==
  ASSUME TypeOK, RolesAssumption, ioq # <<>>, NEW x \in Clients, NEW r \in Requests,
         r.type = "handshake", Welcome(x, r),
         NEW answer \in Messages, answer = Plain("answer"),
         NEW joined \in Messages, joined = JoinedMsg(x, Introduced(x, r)),
         NEW list \in Messages, list = ListMsg(Roster(x, r)),
         NEW c \in Clients, NEW v, Leads(c, view[c], Tail(ioq), v),
         NEW w1, w1 = Told(c, v, {x}, answer),
         NEW w2, w2 = Told(c, w1, ReadySessions \ {x}, joined),
         NEW w, w = Told(c, w2, {x}, list),
         QueuedIn(Tail(ioq), c) \/ c # x \/ (Fits(c, v, answer) /\ Fits(c, w2, list)),
         QueuedIn(Tail(ioq), c) \/ c \notin ReadySessions \ {x} \/ Fits(c, w1, joined)
  PROVE  Leads(c, view[c], ioq', w) /\ (QueuedIn(Tail(ioq), c) => QueuedIn(ioq', c))
<1>1. Tail(ioq) \in Seq(QueueEntries)
  BY HeadType
<1>2. {x} \in SUBSET Clients /\ ReadySessions \ {x} \in SUBSET Clients
  BY ReadyType
<1>3. PICK A, J, L, F : /\ A = Send({x}, answer)
                        /\ J = Send(ReadySessions \ {x}, joined)
                        /\ L = Send({x}, list)
                        /\ F = Files(x, r)
  OBVIOUS
<1>4. ioq' = Tail(ioq) \o A \o (J \o L) \o F
  BY <1>3, WelcomePosts
<1>5. J \in Seq(QueueEntries) /\ L \in Seq(QueueEntries)
  BY <1>2, <1>3, SendType
<1>6. PICK q1 : q1 = Tail(ioq) \o A
  OBVIOUS
<1>7. /\ q1 \in Seq(QueueEntries) /\ Leads(c, view[c], q1, w1)
      /\ QueuedIn(Tail(ioq), c) => QueuedIn(q1, c)
  <2>1. QueuedIn(Tail(ioq), c) \/ c \notin {x} \/ Fits(c, v, answer)
    OBVIOUS
  <2>2. QED
    BY <1>1, <1>2, <1>3, <1>6, <2>1, LeadsSend
<1>8. PICK q2 : q2 = q1 \o J
  OBVIOUS
<1>9. /\ q2 \in Seq(QueueEntries) /\ Leads(c, view[c], q2, w2)
      /\ QueuedIn(Tail(ioq), c) => QueuedIn(q2, c)
  <2>1. QueuedIn(q1, c) \/ c \notin ReadySessions \ {x} \/ Fits(c, w1, joined)
    BY <1>7
  <2>2. QED
    BY <1>2, <1>3, <1>7, <1>8, <2>1, LeadsSend
<1>10. PICK q3 : q3 = q2 \o L
  OBVIOUS
<1>11. /\ q3 \in Seq(QueueEntries) /\ Leads(c, view[c], q3, w)
       /\ QueuedIn(Tail(ioq), c) => QueuedIn(q3, c)
  <2>1. QueuedIn(q2, c) \/ c \notin {x} \/ Fits(c, w2, list)
    BY <1>9
  <2>2. QED
    BY <1>2, <1>3, <1>9, <1>10, <2>1, LeadsSend
<1>12. ioq' = q3 \o F
  <2>1. q1 \o (J \o L) = q1 \o J \o L
    BY <1>5, <1>7, Associates
  <2>2. QED
    BY <1>4, <1>6, <1>8, <1>10, <2>1
<1>13. CASE F = <<>>
  <2>1. q3 \o <<>> = q3
    BY <1>11, ConcatEmptySeq
  <2>2. QED
    BY <1>11, <1>12, <1>13, <2>1
<1>14. CASE F = Send({x}, Plain("fs"))
  <2>1. PICK m \in Messages : m = Plain("fs")
    BY MessageTypes
  <2>2. Told(c, w, {x}, m) = w /\ Fits(c, w, m)
    BY <2>1, NeutralTold DEF Plain, Neutral, Fits
  <2>3. /\ Leads(c, view[c], q3 \o Send({x}, m), Told(c, w, {x}, m))
        /\ QueuedIn(q3, c) => QueuedIn(q3 \o Send({x}, m), c)
    <3>1. QueuedIn(q3, c) \/ c \notin {x} \/ Fits(c, w, m)
      BY <2>2
    <3>2. QED
      BY <1>2, <1>11, <3>1, LeadsSend
  <2>4. QED
    BY <1>11, <1>12, <1>14, <2>1, <2>2, <2>3
<1>15. QED
  BY <1>3, <1>13, <1>14 DEF Files

\* processHandshake() that lets x in: x hears of everybody, everybody hears of x.
LEMMA FutureWelcome ==
  ASSUME TypeOK, RolesAssumption, Order, ioq # <<>>, handling, ~handling', NEW x \in Clients,
         NEW r \in Requests, r.type = "handshake", Head(ioq).op = "read", Head(ioq).to = {x},
         Active(x), ready[x], Welcome(x, r),
         UNCHANGED <<ready, sessions, phase, view>>,
         NEW c \in Clients, Active(c), NEW v, Future(c, v)
  PROVE  \E w : Future(c, w)'
<1>1. /\ Tail(ioq) \in Seq(QueueEntries)
      /\ Leads(c, view[c], Tail(ioq), v)
      /\ v.outcome = "refused" => QueuedIn(Tail(ioq), c)
      /\ CloseQueued(c) => QueuedIn(Tail(ioq), c)
  BY FutureOn DEF Closes
<1>2. v \in Views
  BY <1>1, LeadsType
<1>3. PICK answer \in Messages, joined \in Messages, list \in Messages :
        /\ answer = Plain("answer")
        /\ joined = JoinedMsg(x, Introduced(x, r))
        /\ list = ListMsg(Roster(x, r))
  BY WelcomePosts, MessageTypes
<1>4. /\ answer.type = "answer" /\ joined.type = "joined" /\ list.type = "list"
      /\ list.roster = Roster(x, r) /\ joined.who = x /\ joined.entry = Introduced(x, r)
  BY <1>3 DEF Plain, JoinedMsg, ListMsg
<1>5. PICK w1, w2, w : /\ w1 = Told(c, v, {x}, answer)
                       /\ w2 = Told(c, w1, ReadySessions \ {x}, joined)
                       /\ w = Told(c, w2, {x}, list)
  OBVIOUS
<1>6. CASE c = x
  <2>1. /\ w1 = [v EXCEPT !.outcome = "accepted"] /\ w2 = w1
        /\ w = [w1 EXCEPT !.roster = Roster(x, r)]
    BY <1>4, <1>5, <1>6 DEF Told, Hear
  <2>2. w1.outcome = "accepted" /\ w.outcome = "accepted" /\ w.roster = Roster(x, r)
    BY <1>2, <2>1 DEF Views
  <2>3. QueuedIn(Tail(ioq), c) \/ Fits(c, v, answer)
    BY <1>1, <1>4 DEF Fits
  <2>4. Fits(c, w2, list)
    BY <1>4, <2>1, <2>2 DEF Fits
  <2>5. c \notin ReadySessions \ {x}
    BY <1>6
  <2>6. Leads(c, view[c], ioq', w)
    BY <1>1, <1>3, <1>5, <2>3, <2>4, <2>5, LeadsWelcome
  <2>7. Informed(w)'
    <3>1. \A d \in Clients : w.roster[d] = Roster(x, r)[d]
      BY <2>2
    <3>2. QED
      BY <2>2, <3>1, Announced DEF Informed
  <2>8. Future(c, w)'
    BY <2>2, <2>6, <2>7 DEF Future
  <2>9. QED
    BY <2>8
<1>7. CASE c # x
  <2>1. w1 = v /\ w = w2
    BY <1>5, <1>7 DEF Told
  <2>2. QueuedIn(Tail(ioq), c) \/ c \notin ReadySessions \ {x} \/ Fits(c, w1, joined)
    <3>1. c \in ReadySessions /\ ~CloseQueued(c) => Fits(c, v, joined)
      BY <1>4, <1>7, ReadyFits DEF Handled
    <3>2. QED
      BY <1>1, <2>1, <3>1
  <2>3. Leads(c, view[c], ioq', w) /\ (QueuedIn(Tail(ioq), c) => QueuedIn(ioq', c))
    BY <1>1, <1>3, <1>5, <1>7, <2>2, LeadsWelcome
  <2>4. /\ w.outcome = v.outcome
        /\ \A d \in Clients \ {x} : w.roster[d] = v.roster[d]
        /\ c \in ReadySessions => w.roster[x] = Introduced(x, r)
    <3>1. CASE c \in ReadySessions
      <4>1. w = [v EXCEPT !.roster[x] = Introduced(x, r)]
        BY <1>4, <1>5, <1>7, <2>1, <3>1 DEF Told, Hear
      <4>2. QED
        BY <1>2, <4>1 DEF Views
    <3>2. CASE c \notin ReadySessions
      BY <1>5, <2>1, <3>2 DEF Told
    <3>3. QED
      BY <3>1, <3>2
  <2>5. ASSUME NEW d \in Clients \ {x} PROVE Settled(d)' => Settled(d)
    <3>1. Keeps(Tail(ioq), ioq')
      BY WelcomeType
    <3>2. QueuedIn(ioq, d) => QueuedIn(ioq', d)
      BY <3>1, TailKeeps DEF Keeps, TypeOK
    <3>3. QED
      BY <3>2, SettledKept DEF Handled, ReadySessions
  <2>6. Settled(c)' => Informed(w)'
    <3>1. SUFFICES ASSUME Settled(c)' PROVE Informed(w)'
      OBVIOUS
    <3>2. Settled(c) /\ c \in ReadySessions /\ Informed(v)
      BY <1>7, <2>5, <3>1 DEF Future, Settled
    <3>3. x \in ReadySessions
      BY <3>2, NobodyReady DEF ReadySessions
    <3>4. ASSUME NEW d \in Clients \ {x} PROVE Agrees(d, w.roster[d])'
      <4>1. PICK e : e = w.roster[d]
        OBVIOUS
      <4>2. Agrees(d, e)
        BY <2>4, <3>2, <4>1 DEF Informed
      <4>3. /\ hostClientId' = d => hostClientId = d
            /\ name'[d] = name[d] /\ role'[d] = role[d]
        BY DEF Welcome, TypeOK
      <4>4. d \in ReadySessions' <=> d \in ReadySessions
        BY DEF ReadySessions
      <4>5. Agrees(d, e)'
        BY <2>5, <4>2, <4>3, <4>4, AgreesKept
      <4>6. QED
        BY <4>1, <4>5
    <3>5. Agrees(x, w.roster[x])'
      <4>1. w.roster[x] = Roster(x, r)[x]
        BY <2>4, <3>2, <3>3 DEF Roster
      <4>2. QED
        BY <4>1, Announced
    <3>6. w.outcome = "accepted"
      BY <2>4, <3>2 DEF Informed
    <3>7. QED
      BY <3>4, <3>5, <3>6 DEF Informed
  <2>7. Future(c, w)'
    BY <1>1, <2>3, <2>4, <2>6 DEF Future
  <2>8. QED
    BY <2>7
<1>8. QED
  BY <1>6, <1>7

\* Messages: the io thread posts to those it finds ready.
LEMMA FutureMessage ==
  ASSUME TypeOK, HostParts, Order, NEW x \in Clients, Message(x),
         NEW c \in Clients, Active(c), NEW v, Future(c, v)
  PROVE  \E w : Future(c, w)'
<1>1. ioq # <<>> /\ Head(ioq).op = "read" /\ ~handling
  BY MessageAtHead
<1>2. PICK q \in Seq(QueueEntries) : Posts(x, q)
  BY MessagePosts
<1>3. /\ UNCHANGED <<sessions, phase, ready, hostClientId, role, handling, view>>
      /\ Longer(ioq', Tail(ioq), QueueEntries)
  BY <1>2 DEF Posts, Longer
<1>4. /\ Tail(ioq) \in Seq(QueueEntries)
      /\ Leads(c, view[c], Tail(ioq), v)
      /\ v.outcome = "refused" => QueuedIn(Tail(ioq), c)
      /\ CloseQueued(c) => QueuedIn(Tail(ioq), c)
  BY <1>1, FutureOn DEF Closes
<1>5. ReadySessions \in SUBSET Clients /\ Listeners \in SUBSET Clients
      /\ Listeners \subseteq ReadySessions
  BY ReadyType DEF Listeners, ByRole
\* Who is ready may hear of the others.
<1>6. ASSUME NEW m, m.type # "input"
      PROVE  QueuedIn(Tail(ioq), c) \/ c \notin ReadySessions \/ Fits(c, v, m)
  BY <1>1, <1>4, <1>6, ReadyFits DEF Handled
<1>7. ASSUME UNCHANGED name, Leads(c, view[c], ioq', v)
      PROVE  Future(c, v)'
  BY <1>1, <1>3, <1>7, FutureStep
\* One message that tells nothing of anybody.
<1>8. ASSUME NEW S \in SUBSET Clients, NEW m \in Messages, m.type \in Neutral,
             QueuedIn(Tail(ioq), c) \/ c \notin S \/ Fits(c, v, m)
      PROVE  Leads(c, view[c], Tail(ioq) \o Send(S, m), v)
  <2>1. Told(c, v, S, m) = v
    BY <1>8, NeutralTold
  <2>2. Leads(c, view[c], Tail(ioq) \o Send(S, m), Told(c, v, S, m))
    BY <1>4, <1>8, LeadsSend
  <2>3. QED
    BY <2>1, <2>2
<1>9. Tail(ioq) \o <<>> = Tail(ioq)
  BY <1>4, ConcatEmptySeq
<1>10. CASE RunInput(x)
  <2>1. UNCHANGED name
    BY <1>10 DEF RunInput
  <2>2. CASE x = hostClientId
    <3>1. PICK m \in Messages : m = InputMsg(x)
      BY MessageTypes
    <3>2. m.type = "input" /\ m.who = x
      BY <3>1 DEF InputMsg
    <3>3. QueuedIn(Tail(ioq), c) \/ c \notin Listeners \/ Fits(c, v, m)
      <4>1. SUFFICES ASSUME ~QueuedIn(Tail(ioq), c), c \in Listeners PROVE Fits(c, v, m)
        OBVIOUS
      <4>2. c \in ReadySessions /\ c # x
        BY <1>5, <2>2, <4>1 DEF Listeners
      <4>3. Informed(v) /\ v.outcome = "accepted" /\ v.roster[c] # Absent
        BY <1>1, <1>4, <4>1, <4>2, ReadyFits DEF Handled
      <4>4. Active(x) /\ ready[x]
        BY <1>10 DEF RunInput, Gets
      <4>5. x \in ReadySessions
        BY <4>2, <4>4, NobodyReady DEF ReadySessions
      <4>6. v.roster[x] # Absent
        BY <2>2, <4>3, <4>5, CurrentKnown DEF Informed, Agrees
      <4>7. QED
        BY <3>2, <4>2, <4>3, <4>6 DEF Fits
    <3>4. ioq' = Tail(ioq) \o Send(Listeners, m)
      BY <1>10, <2>2, <3>1 DEF RunInput, Posts
    <3>5. Leads(c, view[c], ioq', v)
      BY <1>5, <1>8, <3>2, <3>3, <3>4 DEF Neutral
    <3>6. QED
      BY <1>7, <2>1, <3>5
  <2>3. CASE x # hostClientId
    <3>1. ioq' = Tail(ioq)
      BY <1>9, <1>10, <2>3 DEF RunInput, Posts
    <3>2. QED
      BY <1>4, <1>7, <2>1, <3>1
  <2>4. QED
    BY <2>2, <2>3
<1>11. CASE RunOther(x)
  <2>1. UNCHANGED name
    BY <1>11 DEF RunOther
  <2>2. PICK chat \in Messages, reply \in Messages, fs \in Messages :
          chat = Plain("chat") /\ reply = Plain("reply") /\ fs = Plain("fs")
    BY MessageTypes
  <2>3. chat.type = "chat" /\ reply.type = "reply" /\ fs.type = "fs"
    BY <2>2 DEF Plain
  <2>4. \/ ioq' = Tail(ioq) \o Send(ReadySessions, chat)
        \/ ioq' = Tail(ioq) \o Send({x}, reply)
        \/ ioq' = Tail(ioq) \o Send(ReadySessions, fs)
        \/ ioq' = Tail(ioq)
    BY <1>9, <1>11, <2>2 DEF RunOther, Posts
  <2>5. Leads(c, view[c], Tail(ioq) \o Send(ReadySessions, chat), v)
    BY <1>5, <1>6, <1>8, <2>3 DEF Neutral
  <2>6. Leads(c, view[c], Tail(ioq) \o Send(ReadySessions, fs), v)
    BY <1>5, <1>6, <1>8, <2>3 DEF Neutral
  <2>7. Leads(c, view[c], Tail(ioq) \o Send({x}, reply), v)
    <3>1. QueuedIn(Tail(ioq), c) \/ Fits(c, v, reply)
      BY <1>4, <2>3 DEF Fits
    <3>2. {x} \in SUBSET Clients
      OBVIOUS
    <3>3. QED
      BY <1>8, <2>3, <3>1, <3>2 DEF Neutral
  <2>8. QED
    BY <1>4, <1>7, <2>1, <2>4, <2>5, <2>6, <2>7
<1>12. CASE RunShutdownCommand(x)
  <2>1. UNCHANGED name
    BY <1>12 DEF RunShutdownCommand
  <2>2. PICK m \in Messages : m = Plain("server_shutdown_imminent")
    BY MessageTypes
  <2>3. m.type = "server_shutdown_imminent"
    BY <2>2 DEF Plain
  <2>4. Leads(c, view[c], Tail(ioq) \o Send(ReadySessions, m), v)
    BY <1>5, <1>6, <1>8, <2>3 DEF Neutral
  <2>5. Send(ReadySessions, m) \in Seq(QueueEntries) /\ <<StopEntry>> \in Seq(QueueEntries)
    <3>1. StopEntry \in QueueEntries
      BY OtherEntryTypes
    <3>2. QED
      BY <1>5, <3>1, SendType, Singles
  <2>6. PICK p : p = Send(ReadySessions, m)
    OBVIOUS
  <2>7. ioq' = Tail(ioq) \o p \o <<StopEntry>>
    <3>1. ioq' = Tail(ioq) \o (p \o <<StopEntry>>)
      BY <1>12, <2>2, <2>6 DEF RunShutdownCommand, Posts
    <3>2. p \in Seq(QueueEntries)
      BY <2>5, <2>6
    <3>3. QED
      BY <1>4, <2>5, <3>1, <3>2, Associates
  <2>8. \A i \in 1..Len(<<StopEntry>>) : <<StopEntry>>[i].op # "send"
    BY DEF StopEntry, Entry
  <2>9. Tail(ioq) \o p \in Seq(QueueEntries)
    BY <1>4, <2>5, <2>6, Joins
  <2>10. Leads(c, view[c], ioq', v)
    BY <2>4, <2>5, <2>6, <2>7, <2>8, <2>9, LeadsPast
  <2>11. QED
    BY <1>7, <2>1, <2>10
<1>13. CASE RunKick(x)
  <2>1. UNCHANGED name
    BY <1>13 DEF RunKick
  <2>2. ioq' = Tail(ioq) \o q
    BY <1>2 DEF Posts
  <2>3. PICK d : d = Head(ioq).arg.who
    OBVIOUS
  <2>4. ioq' \in {Tail(ioq) \o <<Close(d)>>, Tail(ioq)}
    BY <1>9, <1>13, <2>3 DEF RunKick, Posts
  <2>5. \A i \in 1..Len(<<Close(d)>>) : <<Close(d)>>[i].op # "send"
    BY DEF Close, Entry
  <2>6. <<Close(d)>> \in Seq(QueueEntries)
    <3>1. Head(ioq).arg.type = "kick" /\ Head(ioq).arg \in Requests
      BY <1>13, MessageAtHead DEF RunKick, HostCommand, Gets
    <3>2. d \in Clients
      BY <2>3, <3>1, RequestTypes
    <3>3. QED
      BY <3>2, OtherEntryTypes, Singles
  <2>7. Leads(c, view[c], ioq', v)
    BY <1>4, <2>4, <2>5, <2>6, LeadsPast
  <2>8. QED
    BY <1>7, <2>1, <2>7
<1>14. CASE RunToggle(x)
  <2>1. UNCHANGED name /\ ioq' = Tail(ioq)
    BY <1>9, <1>14 DEF RunToggle, Posts
  <2>2. QED
    BY <1>4, <1>7, <2>1
<1>15. CASE RunRename(x)
  <2>1. PICK d, n : d = Head(ioq).arg.who /\ n = Head(ioq).arg.name
    OBVIOUS
  <2>2. d \in Clients /\ n \in AllNames
    BY <1>15, <2>1, RenameAsked
  <2>3. CASE d \notin sessions
    <3>1. UNCHANGED name /\ ioq' = Tail(ioq)
      BY <1>9, <1>15, <2>1, <2>3 DEF RunRename, Posts
    <3>2. QED
      BY <1>4, <1>7, <3>1
  <2>4. CASE d \in sessions
    <3>1. PICK told \in Messages, m \in Messages :
            told = Plain("you_were_renamed") /\ m = RenamedMsg(d, n)
      BY <2>2, MessageTypes
    <3>2. told.type = "you_were_renamed" /\ m.type = "renamed" /\ m.who = d /\ m.name = n
      BY <3>1 DEF Plain, RenamedMsg
    <3>3. name' = [name EXCEPT ![d] = n]
          /\ ioq' = Tail(ioq) \o (Send({d}, told) \o Send(ReadySessions, m))
      BY <1>15, <2>1, <2>4, <3>1 DEF RunRename, AnnounceRename, Posts
    <3>4. PICK p, s : p = Send({d}, told) /\ s = Send(ReadySessions, m)
      OBVIOUS
    <3>5. {d} \in SUBSET Clients
      BY <2>2
    <3>6. p \in Seq(QueueEntries) /\ s \in Seq(QueueEntries)
      BY <1>5, <3>4, <3>5, SendType
    <3>7. ioq' = Tail(ioq) \o p \o s
      BY <1>4, <3>3, <3>4, <3>6, Associates
    <3>8. Told(c, v, {d}, told) = v
      BY <3>2, NeutralTold DEF Neutral
    <3>9. QueuedIn(Tail(ioq), c) \/ c \notin {d} \/ Fits(c, v, told)
      BY <1>4, <3>2 DEF Fits
    <3>10. /\ Tail(ioq) \o p \in Seq(QueueEntries)
           /\ Leads(c, view[c], Tail(ioq) \o p, Told(c, v, {d}, told))
           /\ QueuedIn(Tail(ioq), c) => QueuedIn(Tail(ioq) \o p, c)
      BY <1>4, <3>4, <3>5, <3>9, LeadsSend
    <3>11. PICK w : w = Told(c, v, ReadySessions, m)
      OBVIOUS
    <3>12. Leads(c, view[c], ioq', w) /\ (QueuedIn(Tail(ioq), c) => QueuedIn(ioq', c))
      <4>1. QueuedIn(Tail(ioq) \o p, c) \/ c \notin ReadySessions \/ Fits(c, v, m)
        BY <1>6, <3>2, <3>10
      <4>2. Leads(c, view[c], Tail(ioq) \o p, v)
        BY <3>8, <3>10
      <4>3. QED
        BY <1>5, <3>4, <3>7, <3>10, <3>11, <4>1, <4>2, LeadsSend
    <3>13. v \in Views
      BY <1>4, LeadsType
    <3>14. /\ w.outcome = v.outcome
           /\ \A b \in Clients \ {d} : w.roster[b] = v.roster[b]
           /\ v.roster[d] = Absent => w.roster[d] = Absent
           /\ c \in ReadySessions /\ v.roster[d] # Absent =>
                w.roster[d] = [v.roster[d] EXCEPT !.name = n]
      <4>1. CASE c \in ReadySessions /\ v.roster[d] # Absent
        <5>1. w = [v EXCEPT !.roster[d].name = n]
          BY <3>2, <3>11, <4>1 DEF Told, Hear
        <5>2. QED
          BY <2>2, <3>13, <4>1, <5>1 DEF Views
      <4>2. CASE ~(c \in ReadySessions /\ v.roster[d] # Absent)
        <5>1. w = v
          BY <3>2, <3>11, <4>2 DEF Told, Hear
        <5>2. QED
          BY <4>2, <5>1
      <4>3. QED
        BY <4>1, <4>2
    <3>15. ASSUME NEW b \in Clients PROVE Settled(b)' => Settled(b)
      <4>1. Keeps(Tail(ioq), ioq')
        BY <1>3, <1>4, JoinKeeps DEF Longer
      <4>2. QueuedIn(ioq, b) => QueuedIn(ioq', b)
        BY <1>1, <4>1, TailKeeps DEF Keeps, TypeOK
      <4>3. QED
        BY <1>1, <1>3, <4>2, SettledKept DEF Handled, ReadySessions
    <3>16. Settled(c)' => Informed(w)'
      <4>1. SUFFICES ASSUME Settled(c)' PROVE Informed(w)'
        OBVIOUS
      <4>2. Settled(c) /\ c \in ReadySessions /\ Informed(v)
        BY <3>15, <4>1 DEF Future, Settled
      <4>3. ReadySessions' = ReadySessions
        BY <1>3 DEF ReadySessions
      <4>4. ASSUME NEW b \in Clients \ {d} PROVE Agrees(b, w.roster[b])'
        <5>1. Agrees(b, w.roster[b]) /\ name'[b] = name[b]
          BY <3>3, <3>14, <4>2 DEF Informed, TypeOK
        <5>2. QED
          BY <1>3, <3>15, <4>3, <5>1, AgreesKept
      <4>5. Agrees(d, w.roster[d])'
        <5>1. Agrees(d, v.roster[d])
          BY <2>2, <4>2 DEF Informed
        <5>2. Current(d)' = [Current(d) EXCEPT !.name = n]
          BY <1>3, <2>2, <3>3 DEF Current, TypeOK
        <5>3. CASE d \in ReadySessions
          <6>1. \/ v.roster[d] = Absent /\ w.roster[d] = Absent
                \/ v.roster[d] = Current(d) /\ w.roster[d] = Current(d)'
            BY <3>14, <4>2, <5>1, <5>2, <5>3 DEF Agrees
          <6>2. v.roster[d] = Absent => ~(Settled(d) \/ hostClientId = d)
            BY <2>2, <5>1, <5>3, CurrentKnown DEF Agrees
          <6>3. QED
            BY <1>3, <2>2, <3>15, <4>3, <5>3, <6>1, <6>2 DEF Agrees
        <5>4. CASE d \notin ReadySessions
          BY <1>3, <3>14, <4>3, <5>1, <5>4 DEF Agrees
        <5>5. QED
          BY <5>3, <5>4
      <4>6. w.outcome = "accepted"
        BY <3>14, <4>2 DEF Informed
      <4>7. QED
        BY <4>4, <4>5, <4>6 DEF Informed
    <3>17. Future(c, w)'
      BY <1>3, <1>4, <3>12, <3>14, <3>16 DEF Future
    <3>18. QED
      BY <3>17
  <2>5. QED
    BY <2>3, <2>4
<1>16. QED
  BY <1>10, <1>11, <1>12, <1>13, <1>14, <1>15 DEF Message
-----------------------------------------------------------------------------
(* The futures are invariant *)

LEMMA FutureHandshake ==
  ASSUME TypeOK, InHandshake, RolesAssumption, Order, ProcessHandshake,
         NEW c \in Clients, Active(c), NEW v, Future(c, v)
  PROVE  \E w : Future(c, w)'
<1>1. /\ ioq # <<>> /\ Head(ioq).op = "read" /\ Head(ioq).arg.type = "handshake"
      /\ handling /\ ~handling'
      /\ UNCHANGED <<ready, sessions, phase, view>>
  BY DEF ProcessHandshake, InHandshake
<1>2. PICK x \in Head(ioq).to :
        \/ Welcome(x, Head(ioq).arg)
        \/ ioq' = Refusal(x, Head(ioq).arg) /\ UNCHANGED <<name, role, hostClientId>>
  BY DEF ProcessHandshake
<1>3. x \in Clients /\ Head(ioq).arg \in Requests /\ Active(x) /\ ready[x]
  BY <1>1, <1>2, ReadAtHead DEF InHandshake, Order, ReadyIsUp, Handled, Active
<1>4. Head(ioq).to = {x}
  BY <1>1, <1>2, HeadType, HeadOfOp
<1>5. CASE Welcome(x, Head(ioq).arg)
  BY <1>1, <1>3, <1>4, <1>5, FutureWelcome
<1>6. CASE ioq' = Refusal(x, Head(ioq).arg) /\ UNCHANGED <<name, role, hostClientId>>
  BY <1>1, <1>3, <1>4, <1>6, FutureRefusal
<1>7. QED
  BY <1>2, <1>5, <1>6

LEMMA FuturesStep ==
  ASSUME BoundsAssumption, RolesAssumption, ServerInv, TypeOK', Order, Futures, [Next]_vars
  PROVE  Futures'
<1>1. TypeOK /\ InHandshake /\ HostParts
  BY DEF ServerInv
<1> SUFFICES ASSUME NEW c \in Clients, Active(c)' PROVE \E w : Future(c, w)'
  BY DEF Futures
<1>2. CASE Completes \/ UIThread
  <2>1. UNCHANGED Standing /\ \E q \in Seq(Sound) : ioq' = ioq \o q /\ (Silent(q) \/ Update(q))
    BY <1>1, <1>2, OthersSound DEF Order
  <2>2. PICK w : Future(c, w)
    BY <2>1 DEF Futures, Active, Standing
  <2>3. Future(c, w)'
    BY <1>1, <2>1, <2>2, FutureOthers
  <2>4. QED
    BY <2>3
<1>3. CASE RunClose \/ RunShutdown \/ RunReadError \/ RunSsl
  <2>1. PICK x \in Clients : Ending(x) \/ ComesUp(x)
    BY <1>1, <1>3, EndingOrUp DEF Order
  <2>2. CASE Ending(x)
    <3>1. Active(c)
      BY <2>2 DEF Ending, Ends, Active
    <3>2. PICK w : Future(c, w)
      BY <3>1 DEF Futures
    <3>3. QED
      BY <1>1, <2>2, <3>2, FutureEnding
  <2>3. CASE ComesUp(x)
    <3>1. Active(c)
      BY <1>1, <2>3 DEF ComesUp, Active, TypeOK
    <3>2. PICK w : Future(c, w)
      BY <3>1 DEF Futures
    <3>3. Future(c, w)'
      BY <1>1, <2>3, <3>2, FutureComesUp
    <3>4. QED
      BY <3>3
  <2>4. QED
    BY <2>1, <2>2, <2>3
<1>4. CASE RunAccept
  BY <1>1, <1>4, FutureAccept
<1>5. CASE RunSend \/ RunStop \/ RunReadHandshake \/ ProcessHandshake
           \/ (\E x \in Clients : Message(x)) \/ UNCHANGED vars
  <2>1. phase' = phase
    <3>1. ASSUME NEW x \in Clients, Message(x) PROVE phase' = phase
      BY <1>1, <3>1, MessagePosts DEF Posts
    <3>2. QED
      BY <1>5, <3>1 DEF RunSend, RunStop, RunReadHandshake, ProcessHandshake, vars
  <2>2. PICK w : Future(c, w)
    BY <2>1 DEF Futures, Active
  <2>3. Active(c)
    BY <2>1 DEF Active
  <2>4. CASE RunSend \/ RunStop \/ RunReadHandshake
    <3>1. Future(c, w)'
      BY <1>1, <2>2, <2>3, <2>4, FutureSend, FutureStop, FutureReadHandshake
    <3>2. QED
      BY <3>1
  <2>5. CASE ProcessHandshake
    BY <1>1, <2>2, <2>3, <2>5, FutureHandshake
  <2>6. CASE \E x \in Clients : Message(x)
    BY <1>1, <2>2, <2>3, <2>6, FutureMessage
  <2>7. CASE UNCHANGED vars
    <3>1. Future(c, w)'
      BY <2>2, <2>7 DEF vars, registry, attributes, uiVars, Future, QueuedIn, Settled,
         ReadySessions, CloseQueued, Handled, Informed, Agrees, Current
    <3>2. QED
      BY <3>1
  <2>8. QED
    BY <1>5, <2>4, <2>5, <2>6, <2>7
<1>6. QED
  BY <1>2, <1>3, <1>4, <1>5 DEF Next, RunHead, Message

\* Every open session has a future: what is queued for it may be heard in its order, and
\* leaves a settled client with the server's own roster.
THEOREM FutureKnown == Spec => []Futures
<1>1. Init => Futures
  BY DEF Init, Futures, Active
<1>2. ServerInv /\ TypeOK' /\ Order /\ Futures /\ [Next]_vars => Futures'
  BY BoundsAssumption, RolesAssumption, FuturesStep
<1>3. QED
  BY <1>1, <1>2, Invariance, TypeCorrect, Orderly, PTL DEF Spec
-----------------------------------------------------------------------------
(* What the runs check *)

\* With nothing left to hear and nobody ending, the future is now.
LEMMA FuturesAgree == TypeOK /\ InHandshake /\ Order /\ Futures => RosterAgrees
<1> SUFFICES ASSUME TypeOK, InHandshake, Order, Futures, Quiet, NEW c \in ReadySessions
             PROVE  view[c].roster =
                      [d \in Clients |-> IF d \in ReadySessions
                                         THEN [name |-> name[d], role |-> role[d]] ELSE Absent]
  BY DEF RosterAgrees
<1>1. ioq = <<>> /\ Len(ioq) = 0 /\ ~handling
  BY DEF Quiet, InHandshake
<1>2. \A d \in ReadySessions : d \in Clients /\ Settled(d) /\ Active(d)
  BY <1>1 DEF Order, ReadyIsUp, ReadySessions, Settled, CloseQueued, Handled, Active, TypeOK
<1>3. PICK w : Future(c, w)
  BY <1>2 DEF Futures
<1>4. w = view[c] /\ w \in Views
  <2>1. PICK t : Course(t, c, view[c], ioq, w)
    BY <1>3 DEF Future, Leads
  <2>2. QED
    BY <1>1, <2>1 DEF Course
<1>5. \A d \in Clients : Agrees(d, view[c].roster[d])
  BY <1>2, <1>3, <1>4 DEF Future, Informed
<1>6. \A d \in Clients : view[c].roster[d] = IF d \in ReadySessions
                                             THEN [name |-> name[d], role |-> role[d]] ELSE Absent
  BY <1>2, <1>5 DEF Agrees, Current, Quiet
<1>7. view[c].roster \in [Clients -> Entries]
  BY <1>4 DEF Views
<1>8. QED
  BY <1>6, <1>7

\* When nothing is going on, each client that has been let in knows exactly who is there,
\* under which names and in which roles: the list it got and the announcements that
\* handlers of later joins, leaves and renames posted add up.
THEOREM RosterAgreement == Spec => []RosterAgrees
<1>1. ServerInv /\ Order /\ Futures => RosterAgrees
  BY FuturesAgree DEF ServerInv
<1>2. QED
  BY <1>1, Invariance, Orderly, FutureKnown, PTL

\* What is about to be heard fits what has been heard.
LEMMA HeadFits ==
  ASSUME TypeOK, Futures, NEW c \in Clients, AboutToHear(c)
  PROVE  Fits(c, view[c], Head(ioq).arg)
<1>1. PICK w : Future(c, w)
  BY DEF AboutToHear, Futures
<1>2. ~Closes(c, Head(ioq)) /\ ioq # <<>> /\ ioq \in Seq(QueueEntries)
  BY DEF AboutToHear, Closes, TypeOK
<1>3. Proper(c, view[c], Head(ioq))
  BY <1>1, <1>2, LeadsOn DEF Future
<1>4. QED
  BY <1>3 DEF Proper, AboutToHear

LEMMA FuturesFit ==
  TypeOK /\ Futures => RosterFirst /\ NoEcho /\ InputFromMember /\ RefusedHearsNothing
BY HeadFits DEF Fits, RosterFirst, NoEcho, InputFromMember, RefusedHearsNothing

\* Nothing is announced to a client, and no chat or input reaches it, before the answer
\* to its handshake and the list of those present: processHandshake() posts them before
\* any broadcast can count the session in.
THEOREM ListBeforeNews == Spec => []RosterFirst
<1>1. TypeOK /\ Futures => RosterFirst
  BY FuturesFit
<1>2. QED
  BY <1>1, TypeCorrect, FutureKnown, PTL

\* The host's own input never comes back to it (broadcastToReceivers() skips the host's
\* id, whatever role the session has by then).
THEOREM InputNotEchoed == Spec => []NoEcho
<1>1. TypeOK /\ Futures => NoEcho
  BY FuturesFit
<1>2. QED
  BY <1>1, TypeCorrect, FutureKnown, PTL

\* Input only reaches a client from somebody in its roster: the host's input is posted
\* before the announcement that it has left.
THEOREM InputIsKnown == Spec => []InputFromMember
<1>1. TypeOK /\ Futures => InputFromMember
  BY FuturesFit
<1>2. QED
  BY <1>1, TypeCorrect, FutureKnown, PTL

\* A client that was refused hears nothing but file system updates until its close has
\* run: no message of the io thread can come between the refusal and the close.
THEOREM RefusalIsLast == Spec => []RefusedHearsNothing
<1>1. TypeOK /\ Futures => RefusedHearsNothing
  BY FuturesFit
<1>2. QED
  BY <1>1, TypeCorrect, FutureKnown, PTL
=============================================================================
