-------------------------- MODULE AppFlow_proofs --------------------------
(***************************************************************************)
(* Proofs about AppFlow: the type, that each dashboard stands for          *)
(* something, and that whoever waits is led out by something under way.    *)
(* The module has no constants, and TLC visits all its states; what the    *)
(* proofs add is the invariant that explains them, part by part.           *)
(***************************************************************************)
EXTENDS AppFlow, SequenceTheorems, TLAPS

Statement == {"reset", "HostSetup", "None", "close", "notify"}

\* The panels a callback sets.
Panel == {"HostSetup", "None"}

Last(s) == s[Len(s)]

\* A handler that destroys the server sets a panel next, and closes last.
Shaped(s) ==
  \A i \in DOMAIN s :
    /\ s[i] = "reset" => i < Len(s) /\ s[i + 1] \in Panel
    /\ s[i] \in {"close", "notify"} => i = Len(s)

Generating == mode = "GeneratingServerAssets"

\* A client that is busy, and not with an attempt begun inside a handler of its failure:
\* that one has a stream that was used.
Proper == Busy /\ (doubled => client = "Connected" \/ tls = "fresh")

\* While a server is being set up its panel has the client to itself, and the server goes
\* only if the panel does.
SetupInv ==
  /\ setup # "done" => mode # "ConnectedAsHost" /\ (Proper => onConnect = "join")
  /\ Generating =>
       /\ setup # "none"
       /\ setup = "astray" => Leads(io)
       /\ setup = "starts" => server # "none" \/ Leads(io)

\* An attempt has the handlers of the flow it belongs to, and no panel of the other.
AttemptInv ==
  /\ onConnect = "join" => onLoss
  /\ Proper =>
       /\ onConnect = goal
       /\ io = <<>> => mode \notin Panel
       /\ mode = "JoinSetup" => ui = "connected"
       /\ Generating =>
            /\ goal = "host" /\ success
            /\ io = <<>> => server \in {"created", "running"}

\* The client meets the server of the setup, or a handler is about to leave the panel.
ServesInv ==
  /\ Generating /\ setup = "done" /\ success =>
       /\ server # "stopped"
       /\ doubled \/ server = "running" \/ (server = "none" /\ io # <<>> /\ Head(io) \in Panel)
  /\ mode = "ConnectedAsHost" /\ server = "none" => io # <<>> /\ Head(io) \in Panel

\* Only a failure sets a panel, and a client whose session ends is closed next.
HandlerInv ==
  /\ Shaped(io)
  /\ io # <<>> /\ Head(io) \in {"reset"} \cup Panel /\ ~ doubled => client = "Error"
  /\ io # <<>> /\ client = "Connected" => Head(io) = "notify"

\* What a connection leaves behind it leaves to a stream that was used.
UsedInv ==
  /\ closing # {} \/ late \/ client = "Connected" => tls # "fresh"
  /\ ~ sock /\ client # "none" => tls # "fresh"
  /\ io # <<>> =>
       /\ Last(io) \in {"close", "notify"} \/ client = "Connecting" \/ Generating => tls # "fresh"

SessionInv ==
  mode = "ConnectedAsClient" =>
    /\ onLoss
    /\ \/ client = "Connected" /\ (io = <<>> \/ io = <<"notify">>)
       \/ client = "Disconnected" /\ TRUE \in closing
       \/ client = "Error" /\ io # <<>> /\ Last(io) = "notify"

\* It begins before the panel does, with connect().
LedInv ==
  (mode = "Connecting" \/ (mode = "JoinSetup" /\ ui = "connected")) /\ ~ overwritten =>
    \/ client = "Connecting" /\ onLoss /\ io = <<>>
    \/ Leads(io)
    \/ onLoss /\ (TRUE \in closing \/ (io = <<"notify">> /\ client # "Disconnected"))

AppInv ==
  /\ TypeOK
  /\ SetupInv /\ AttemptInv /\ ServesInv
  /\ HandlerInv /\ UsedInv /\ SessionInv /\ LedInv
-----------------------------------------------------------------------------
(* Handlers *)

\* What is left of a handler once its first statement has been executed.
LEMMA Rest ==
  ASSUME NEW s \in Seq(Statement), s # <<>>, Shaped(s)
  PROVE  /\ Head(s) \in Statement /\ Tail(s) \in Seq(Statement) /\ Shaped(Tail(s))
         /\ Tail(s) # <<>> => Last(Tail(s)) = Last(s)
         /\ Tail(s) = <<>> => Last(s) = Head(s)
         /\ Head(s) = "reset" => Tail(s) # <<>> /\ Head(Tail(s)) \in Panel
         /\ Head(s) \in {"close", "notify"} => Tail(s) = <<>>
         /\ Leads(s) => Head(s) \in Panel \/ Leads(Tail(s))
<1> DEFINE t == Tail(s)
<1>1. /\ Len(s) \in Nat \ {0} /\ DOMAIN s = 1..Len(s)
      /\ t \in Seq(Statement) /\ Len(t) = Len(s) - 1
      /\ \A i \in 1..Len(t) : t[i] = s[i + 1]
      /\ Head(s) = s[1] /\ Head(s) \in Statement
  BY EmptySeq, LenProperties, HeadTailProperties
<1> HIDE DEF t
<1>2. DOMAIN t = 1..Len(t) /\ (t = <<>> <=> Len(t) = 0) /\ (t # <<>> => Head(t) = t[1])
  BY <1>1, EmptySeq, LenProperties, HeadTailProperties
<1>3. Shaped(t)
  <2> SUFFICES ASSUME NEW i \in DOMAIN t
               PROVE  /\ t[i] = "reset" => i < Len(t) /\ t[i + 1] \in Panel
                      /\ t[i] \in {"close", "notify"} => i = Len(t)
    BY DEF Shaped
  <2>1. i \in 1..Len(t) /\ i + 1 \in DOMAIN s /\ t[i] = s[i + 1]
    BY <1>1, <1>2
  <2>2. s[i + 1] = "reset" => i + 1 < Len(s) /\ s[i + 1 + 1] \in Panel
    BY <2>1 DEF Shaped
  <2>3. s[i + 1] \in {"close", "notify"} => i + 1 = Len(s)
    BY <2>1 DEF Shaped
  <2>4. i + 1 < Len(s) => t[i + 1] = s[i + 1 + 1]
    BY <1>1, <2>1
  <2>5. QED
    BY <1>1, <2>1, <2>2, <2>3, <2>4
<1>4. (t # <<>> => Last(t) = Last(s)) /\ (t = <<>> => Last(s) = Head(s))
  BY <1>1, <1>2 DEF Last
<1>5. Head(s) = "reset" => t # <<>> /\ Head(t) \in Panel
  <2>1. 1 \in DOMAIN s
    BY <1>1
  <2>2. s[1] = "reset" => 1 < Len(s) /\ s[1 + 1] \in Panel
    BY <2>1 DEF Shaped
  <2>3. QED
    BY <1>1, <1>2, <2>2
<1>6. Head(s) \in {"close", "notify"} => t = <<>>
  BY <1>1, <1>2 DEF Shaped
<1>7. Leads(s) => Head(s) \in Panel \/ Leads(t)
  <2> SUFFICES ASSUME NEW i \in DOMAIN s, s[i] \in Panel, Head(s) \notin Panel
               PROVE  Leads(t)
    BY DEF Leads, Panel
  <2>1. i \in 1..Len(s) /\ i # 1
    BY <1>1
  <2>2. i - 1 \in DOMAIN t /\ t[i - 1] = s[i]
    BY <1>1, <1>2, <2>1
  <2>3. QED
    BY <2>2 DEF Leads, Panel
<1>8. QED
  BY <1>1, <1>3, <1>4, <1>5, <1>6, <1>7 DEF t

\* A handler that sets a panel last, and what follows it.
LEMMA Follow ==
  ASSUME NEW s \in Seq(Statement), NEW t \in Seq(Statement), s # <<>>,
         Shaped(s), Shaped(t), Last(s) \in Panel
  PROVE  /\ s \o t \in Seq(Statement) /\ s \o t # <<>> /\ Shaped(s \o t)
         /\ Last(s \o t) = IF t = <<>> THEN Last(s) ELSE Last(t)
         /\ Leads(s \o t)
<1> DEFINE u == s \o t
<1>1. /\ Len(s) \in Nat \ {0} /\ DOMAIN s = 1..Len(s)
      /\ Len(t) \in Nat /\ DOMAIN t = 1..Len(t) /\ (t = <<>> <=> Len(t) = 0)
  BY EmptySeq, LenProperties
<1>2. /\ u \in Seq(Statement) /\ Len(u) = Len(s) + Len(t)
      /\ \A i \in 1..Len(s) : u[i] = s[i]
      /\ \A i \in 1..Len(t) : u[Len(s) + i] = t[i]
  <2>1. /\ u \in Seq(Statement) /\ Len(u) = Len(s) + Len(t)
        /\ \A i \in 1..Len(s) + Len(t) : u[i] = IF i <= Len(s) THEN s[i] ELSE t[i - Len(s)]
    BY ConcatProperties
  <2>2. \A i \in 1..Len(s) : u[i] = s[i]
    BY <1>1, <2>1
  <2>3. \A i \in 1..Len(t) : u[Len(s) + i] = t[i]
    <3> TAKE i \in 1..Len(t)
    <3>1. Len(s) + i \in 1..Len(s) + Len(t) /\ ~ (Len(s) + i <= Len(s)) /\ Len(s) + i - Len(s) = i
      BY <1>1
    <3>2. QED
      BY <2>1, <3>1
  <2>4. QED
    BY <2>1, <2>2, <2>3
<1> HIDE DEF u
<1>3. DOMAIN u = 1..Len(u) /\ u # <<>>
  BY <1>1, <1>2, EmptySeq, LenProperties
<1>4. Last(u) = IF t = <<>> THEN Last(s) ELSE Last(t)
  <2>1. CASE t = <<>>
    BY <2>1, <1>1, <1>2 DEF Last
  <2>2. CASE t # <<>>
    <3>1. Len(t) \in 1..Len(t) /\ Len(u) = Len(s) + Len(t)
      BY <2>2, <1>1, <1>2
    <3>2. QED
      BY <2>2, <3>1, <1>2 DEF Last
  <2>3. QED
    BY <2>1, <2>2
<1>5. Leads(u)
  <2>1. Len(s) \in DOMAIN u /\ u[Len(s)] = Last(s)
    BY <1>1, <1>2, <1>3 DEF Last
  <2>2. QED
    BY <2>1 DEF Leads, Panel
<1>6. Shaped(u)
  <2> SUFFICES ASSUME NEW i \in DOMAIN u
               PROVE  /\ u[i] = "reset" => i < Len(u) /\ u[i + 1] \in Panel
                      /\ u[i] \in {"close", "notify"} => i = Len(u)
    BY DEF Shaped
  <2>1. CASE i \in 1..Len(s)
    <3>1. u[i] = s[i] /\ i \in DOMAIN s
      BY <2>1, <1>1, <1>2
    <3>2. /\ s[i] = "reset" => i < Len(s) /\ s[i + 1] \in Panel
          /\ s[i] \in {"close", "notify"} => i = Len(s)
      BY <3>1 DEF Shaped
    <3>3. i = Len(s) => s[i] \notin {"close", "notify"}
      BY DEF Last, Panel
    <3>4. i < Len(s) => i < Len(u) /\ u[i + 1] = s[i + 1]
      BY <2>1, <1>1, <1>2
    <3>5. u[i] \notin {"close", "notify"}
      BY <3>1, <3>2, <3>3
    <3>6. QED
      BY <3>1, <3>2, <3>4, <3>5
  <2>2. CASE i \notin 1..Len(s)
    <3> DEFINE j == i - Len(s)
    <3>1. j \in 1..Len(t) /\ i = Len(s) + j /\ i + 1 = Len(s) + (j + 1)
      <4>1. i \in 1..(Len(s) + Len(t)) /\ Len(s) \in Nat /\ Len(t) \in Nat
        BY <1>1, <1>2, <1>3
      <4>2. QED
        BY <2>2, <4>1
    <3> HIDE DEF j
    <3>2. u[i] = t[j] /\ j \in DOMAIN t
      BY <3>1, <1>1, <1>2
    <3>3. /\ t[j] = "reset" => j < Len(t) /\ t[j + 1] \in Panel
          /\ t[j] \in {"close", "notify"} => j = Len(t)
      BY <3>2 DEF Shaped
    <3>4. j < Len(t) => j + 1 \in 1..Len(t) /\ i < Len(u) /\ u[i + 1] = t[j + 1]
      BY <3>1, <1>1, <1>2
    <3>5. j = Len(t) => i = Len(u)
      BY <3>1, <1>2
    <3>6. QED
      BY <3>2, <3>3, <3>4, <3>5
  <2>3. QED
    BY <2>1, <2>2
<1>7. QED
  BY <1>2, <1>3, <1>4, <1>5, <1>6 DEF u

\* The handlers there are, before they are put together.
LEMMA Pieces ==
  /\ <<>> \in Seq(Statement) /\ Shaped(<<>>) /\ ~ Leads(<<>>)
  /\ \A e \in {"close", "notify"} :
       /\ <<e>> \in Seq(Statement) /\ <<e>> # <<>> /\ Shaped(<<e>>)
       /\ Last(<<e>>) = e /\ Head(<<e>>) = e
  /\ \A m \in Panel :
       LET s == <<"reset", m>>
       IN  s \in Seq(Statement) /\ s # <<>> /\ Shaped(s) /\ Last(s) = m
<1>1. <<>> \in Seq(Statement) /\ Shaped(<<>>) /\ ~ Leads(<<>>)
  BY EmptySeq DEF Shaped, Leads
<1>2. ASSUME NEW e \in {"close", "notify"}
      PROVE  /\ <<e>> \in Seq(Statement) /\ <<e>> # <<>> /\ Shaped(<<e>>)
             /\ Last(<<e>>) = e /\ Head(<<e>>) = e
  BY DEF Shaped, Last, Statement
<1>3. ASSUME NEW m \in Panel
      PROVE  LET s == <<"reset", m>>
             IN  s \in Seq(Statement) /\ s # <<>> /\ Shaped(s) /\ Last(s) = m
  BY DEF Shaped, Last, Statement, Panel
<1>4. QED
  BY <1>1, <1>2, <1>3

\* The handlers of an attempt that has failed, with what follows them.
LEMMA FailureHandler ==
  ASSUME NEW m \in Panel, NEW ec \in BOOLEAN, NEW rest \in {<<>>, <<"close">>, <<"notify">>}
  PROVE  LET s == <<"reset", m>> \o (IF ec THEN <<"reset", "HostSetup">> ELSE <<>>) \o rest
         IN  /\ s \in Seq(Statement) /\ s # <<>> /\ Shaped(s) /\ Leads(s)
             /\ rest = <<>> => Last(s) \in Panel
<1> DEFINE first == <<"reset", m>>
           second == IF ec THEN <<"reset", "HostSetup">> ELSE <<>>
<1>1. first \in Seq(Statement) /\ first # <<>> /\ Shaped(first) /\ Last(first) \in Panel
  BY Pieces
<1>2. /\ second \in Seq(Statement) /\ Shaped(second)
      /\ second # <<>> => Last(second) \in Panel
  BY Pieces DEF Panel
<1>3. rest \in Seq(Statement) /\ Shaped(rest)
  BY Pieces
<1> HIDE DEF first, second
<1>4. /\ first \o second \in Seq(Statement) /\ first \o second # <<>>
      /\ Shaped(first \o second) /\ Last(first \o second) \in Panel
  BY <1>1, <1>2, Follow
<1>5. LET s == first \o second \o rest
      IN  /\ s \in Seq(Statement) /\ s # <<>> /\ Shaped(s) /\ Leads(s)
          /\ rest = <<>> => Last(s) \in Panel
  BY <1>3, <1>4, Follow
<1>6. QED
  BY <1>5 DEF first, second

\* The handlers of a connection that has ended.
LEMMA EndHandler ==
  ASSUME NEW told \in BOOLEAN
  PROVE  LET s == (IF told THEN <<"reset", "HostSetup">> ELSE <<>>) \o <<"notify">>
         IN  /\ s \in Seq(Statement) /\ s # <<>> /\ Shaped(s) /\ Last(s) = "notify"
             /\ told => Leads(s)
             /\ ~ told => s = <<"notify">>
<1>1. CASE told
  <2>1. <<"reset", "HostSetup">> \in Seq(Statement) /\ Shaped(<<"reset", "HostSetup">>)
    BY Pieces DEF Panel
  <2>2. Last(<<"reset", "HostSetup">>) \in Panel /\ <<"reset", "HostSetup">> # <<>>
    BY Pieces DEF Panel
  <2>3. <<"notify">> \in Seq(Statement) /\ Shaped(<<"notify">>) /\ Last(<<"notify">>) = "notify"
        /\ <<"notify">> # <<>>
    BY Pieces
  <2>4. QED
    BY <1>1, <2>1, <2>2, <2>3, Follow
<1>2. CASE ~ told
  <2>1. <<>> \o <<"notify">> = <<"notify">>
    OBVIOUS
  <2>2. QED
    BY <1>2, <2>1, Pieces
<1>3. QED
  BY <1>1, <1>2
-----------------------------------------------------------------------------
(* Every action keeps the invariant *)

\* A panel is clicked in while no handler is executed.
LEMMA GoKeeps ==
  ASSUME AppInv, NEW from \in {"None", "HostSetup", "JoinSetup"},
         NEW to \in {"None", "HostSetup", "JoinSetup"}, Go(from, to)
  PROVE  AppInv'
<1> USE DEF Go, Clickable, AppInv, Busy, Proper, Generating, setupVars, handlers, links,
            clientVars, history
<1>1. TypeOK'
  BY DEF TypeOK
<1>2. SetupInv'
  BY DEF SetupInv
<1>3. AttemptInv'
  BY DEF Panel, AttemptInv
<1>4. ServesInv'
  BY DEF ServesInv
<1>5. HandlerInv'
  BY DEF HandlerInv
<1>6. UsedInv'
  BY DEF UsedInv
<1>7. SessionInv'
  BY DEF SessionInv
<1>8. LedInv'
  BY DEF LedInv
<1>9. QED
  BY <1>1, <1>2, <1>3, <1>4, <1>5, <1>6, <1>7, <1>8

\* Where hosting starts no client is busy.
LEMMA StartHostingKeeps == AppInv /\ StartHosting => AppInv'
<1> SUFFICES ASSUME AppInv, StartHosting PROVE AppInv'
  OBVIOUS
<1> USE DEF StartHosting, Clickable, AppInv, Busy, Proper, Generating, setupVars, handlers, links,
            clientVars, history
<1>1. TypeOK'
  BY DEF TypeOK
<1>2. SetupInv'
  BY DEF Panel, SetupInv, AttemptInv
<1>3. AttemptInv'
  BY DEF Panel, AttemptInv
<1>4. ServesInv'
  BY DEF ServesInv
<1>5. HandlerInv'
  BY DEF HandlerInv
<1>6. UsedInv'
  BY DEF UsedInv
<1>7. SessionInv'
  BY DEF SessionInv
<1>8. LedInv'
  BY DEF LedInv
<1>9. QED
  BY <1>1, <1>2, <1>3, <1>4, <1>5, <1>6, <1>7, <1>8

\* The frame connects to a server that runs, unless a handler is leaving the panel.
LEMMA FrameKeeps == AppInv /\ GeneratingFrame => AppInv'
<1> SUFFICES ASSUME AppInv, GeneratingFrame PROVE AppInv'
  OBVIOUS
<1> USE DEF GeneratingFrame, Connect, AppInv, Busy, Proper, Generating, setupVars, handlers, links,
            clientVars, history
<1>1. TypeOK'
  BY DEF TypeOK
<1>2. SetupInv'
  BY DEF SetupInv
<1>3. AttemptInv'
  BY DEF Panel, TypeOK, AttemptInv, ServesInv, UsedInv
<1>4. ServesInv'
  BY DEF ServesInv, HandlerInv
<1>5. HandlerInv'
  BY DEF HandlerInv
<1>6. UsedInv'
  BY DEF UsedInv
<1>7. SessionInv'
  BY DEF SessionInv
<1>8. LedInv'
  BY DEF LedInv
<1>9. QED
  BY <1>1, <1>2, <1>3, <1>4, <1>5, <1>6, <1>7, <1>8

\* The attempt is led before its panel is shown.
LEMMA ConnectKeeps == AppInv /\ ConnectClicked => AppInv'
<1> SUFFICES ASSUME AppInv, ConnectClicked PROVE AppInv'
  OBVIOUS
<1> USE DEF ConnectClicked, Clickable, Connect, AppInv, Busy, Proper, Generating, setupVars, handlers, links,
            clientVars, history
<1>1. TypeOK'
  BY DEF TypeOK
<1>2. SetupInv'
  BY DEF SetupInv
<1>3. AttemptInv'
  BY DEF Panel, AttemptInv
<1>4. ServesInv'
  BY DEF ServesInv
<1>5. HandlerInv'
  BY DEF HandlerInv
<1>6. UsedInv'
  BY DEF UsedInv
<1>7. SessionInv'
  BY DEF SessionInv
<1>8. LedInv'
  BY DEF AttemptInv, LedInv
<1>9. QED
  BY <1>1, <1>2, <1>3, <1>4, <1>5, <1>6, <1>7, <1>8

\* ... and the panel takes over what connect() has begun, or what a callback has set is
\* lost and history says so.
LEMMA ConnectingKeeps == AppInv /\ SetConnecting => AppInv'
<1> SUFFICES ASSUME AppInv, SetConnecting PROVE AppInv'
  OBVIOUS
<1> USE DEF SetConnecting, AppInv, Busy, Proper, Generating, setupVars, handlers, links,
            clientVars, history
<1>1. TypeOK'
  BY DEF TypeOK
<1>2. SetupInv'
  BY DEF SetupInv
<1>3. AttemptInv'
  BY DEF Panel, AttemptInv
<1>4. ServesInv'
  BY DEF ServesInv
<1>5. HandlerInv'
  BY DEF HandlerInv
<1>6. UsedInv'
  BY DEF UsedInv
<1>7. SessionInv'
  BY DEF SessionInv
<1>8. LedInv'
  BY DEF LedInv
<1>9. QED
  BY <1>1, <1>2, <1>3, <1>4, <1>5, <1>6, <1>7, <1>8

\* The panels that are left by a click.
LEMMA BackKeeps == AppInv /\ BackToHostSetup => AppInv'
<1> SUFFICES ASSUME AppInv, BackToHostSetup PROVE AppInv'
  OBVIOUS
<1> USE DEF BackToHostSetup, Clickable, AppInv, Busy, Proper, Generating, setupVars, handlers, links,
            clientVars, history
<1>1. TypeOK'
  BY DEF TypeOK
<1>2. SetupInv'
  BY DEF SetupInv
<1>3. AttemptInv'
  BY DEF AttemptInv
<1>4. ServesInv'
  BY DEF ServesInv
<1>5. HandlerInv'
  BY DEF HandlerInv
<1>6. UsedInv'
  BY DEF UsedInv
<1>7. SessionInv'
  BY DEF SessionInv
<1>8. LedInv'
  BY DEF LedInv
<1>9. QED
  BY <1>1, <1>2, <1>3, <1>4, <1>5, <1>6, <1>7, <1>8

\* A session that is left by a click has its stream.
LEMMA DisconnectKeeps == AppInv /\ DisconnectClicked => AppInv'
<1> SUFFICES ASSUME AppInv, DisconnectClicked PROVE AppInv'
  OBVIOUS
<1> USE DEF DisconnectClicked, Clickable, AppInv, Busy, Proper, Generating, setupVars, handlers, links,
            clientVars, history
<1>1. TypeOK'
  BY Pieces DEF TypeOK, Statement
<1>2. SetupInv'
  BY DEF SetupInv
<1>3. AttemptInv'
  BY DEF AttemptInv
<1>4. ServesInv'
  BY DEF ServesInv
<1>5. HandlerInv'
  BY Pieces DEF Panel, HandlerInv
<1>6. UsedInv'
  BY Pieces DEF UsedInv, SessionInv
<1>7. SessionInv'
  BY DEF SessionInv
<1>8. LedInv'
  BY DEF LedInv
<1>9. QED
  BY <1>1, <1>2, <1>3, <1>4, <1>5, <1>6, <1>7, <1>8

\* The server may be stopped while no handler is executed.
LEMMA ShutdownKeeps == AppInv /\ ShutdownClicked => AppInv'
<1> SUFFICES ASSUME AppInv, ShutdownClicked PROVE AppInv'
  OBVIOUS
<1> USE DEF ShutdownClicked, Clickable, AppInv, Busy, Proper, Generating, setupVars, handlers, links,
            clientVars, history
<1>1. TypeOK'
  BY DEF TypeOK
<1>2. SetupInv'
  BY DEF SetupInv
<1>3. AttemptInv'
  BY DEF AttemptInv
<1>4. ServesInv'
  BY DEF ServesInv
<1>5. HandlerInv'
  BY DEF HandlerInv
<1>6. UsedInv'
  BY DEF UsedInv
<1>7. SessionInv'
  BY DEF SessionInv
<1>8. LedInv'
  BY DEF LedInv
<1>9. QED
  BY <1>1, <1>2, <1>3, <1>4, <1>5, <1>6, <1>7, <1>8

\* A setup that runs finds the server it has made, unless a handler is leaving the panel.
LEMMA SetupKeeps == AppInv /\ Setup => AppInv'
<1> SUFFICES ASSUME AppInv, Setup PROVE AppInv'
  OBVIOUS
<1> USE DEF Setup, SetupCreates, SetupStarts, EndSetup, AppInv, Busy, Proper, Generating, setupVars, handlers, links,
            clientVars, history
<1>1. TypeOK'
  BY DEF TypeOK
<1>2. SetupInv'
  BY DEF SetupInv
<1>3. AttemptInv'
  BY DEF Panel, TypeOK, SetupInv, AttemptInv
<1>4. ServesInv'
  BY DEF TypeOK, SetupInv, AttemptInv, ServesInv
<1>5. HandlerInv'
  BY DEF HandlerInv
<1>6. UsedInv'
  BY DEF UsedInv
<1>7. SessionInv'
  BY DEF SessionInv
<1>8. LedInv'
  BY DEF LedInv
<1>9. QED
  BY <1>1, <1>2, <1>3, <1>4, <1>5, <1>6, <1>7, <1>8

\* The dashboard is that of the flow whose handler the client has.
LEMMA SucceedsKeeps == AppInv /\ AttemptSucceeds => AppInv'
<1> SUFFICES ASSUME AppInv, AttemptSucceeds PROVE AppInv'
  OBVIOUS
<1> USE DEF AttemptSucceeds, Idle, OwnServer, AppInv, Busy, Proper, Generating, setupVars, handlers, links,
            clientVars, history
<1>1. TypeOK'
  BY DEF TypeOK
<1>2. SetupInv'
  BY DEF SetupInv
<1>3. AttemptInv'
  BY DEF Panel, AttemptInv
<1>4. ServesInv'
  BY DEF TypeOK, AttemptInv, ServesInv
<1>5. HandlerInv'
  BY DEF HandlerInv
<1>6. UsedInv'
  BY DEF UsedInv
<1>7. SessionInv'
  BY DEF TypeOK, AttemptInv, SessionInv
<1>8. LedInv'
  BY DEF LedInv
<1>9. QED
  BY <1>1, <1>2, <1>3, <1>4, <1>5, <1>6, <1>7, <1>8

\* A failure sets a panel before anything else can be begun.
LEMMA FailsKeeps ==
  ASSUME AppInv, NEW ec \in BOOLEAN, NEW rest \in {<<>>, <<"close">>, <<"notify">>},
         Idle, Fails(ec, rest), tls' \in {"fresh", "half", "bad", "done", "shut"},
         tls # "fresh" \/ rest # <<>> \/ Generating => tls' # "fresh",
         UNCHANGED <<mode, ui, setupVars, server, goal, handlers, links, history>>
  PROVE  AppInv'
<1> USE DEF AppInv, Idle, Busy, Proper, Generating, setupVars, handlers, links, history
<1>1. /\ client' = "Error" /\ io' \in Seq(Statement) /\ io' # <<>> /\ Shaped(io') /\ Leads(io')
      /\ rest = <<>> => Last(io') \in Panel
  <2> DEFINE m == IF onConnect = "host" THEN "HostSetup" ELSE "None"
  <2>1. m \in Panel /\ (ec /\ onError) \in BOOLEAN
    BY DEF Panel
  <2>2. /\ client' = "Error"
        /\ io' = <<"reset", m>>
                 \o (IF ec /\ onError THEN <<"reset", "HostSetup">> ELSE <<>>) \o rest
    BY DEF Fails, OnRefusal, OnError
  <2> HIDE DEF m
  <2>3. QED
    BY <2>1, <2>2, FailureHandler
<1>2. TypeOK'
  BY <1>1 DEF Statement, TypeOK
<1>3. SetupInv'
  BY <1>1 DEF SetupInv
<1>4. AttemptInv'
  BY <1>1 DEF AttemptInv
<1>5. ServesInv'
  BY DEF ServesInv
<1>6. HandlerInv'
  BY <1>1 DEF HandlerInv
<1>7. UsedInv'
  BY <1>1 DEF UsedInv, Panel
<1>8. SessionInv'
  BY DEF SessionInv
<1>9. LedInv'
  BY <1>1 DEF LedInv
<1>10. QED
  BY <1>2, <1>3, <1>4, <1>5, <1>6, <1>7, <1>8, <1>9

\* The end of a connection is told in any case, and its stream was used.
LEMMA EndsKeeps ==
  ASSUME AppInv, NEW error \in BOOLEAN, io = <<>>, Ends(error), error \/ Busy,
         tls' \in {"half", "bad", "done", "shut"}, late' \in BOOLEAN,
         UNCHANGED <<mode, ui, setupVars, server, goal, handlers, sock, closing, history>>
  PROVE  AppInv'
<1> USE DEF AppInv, Busy, Proper, Generating, setupVars, handlers, history
<1>1. /\ io' \in Seq(Statement) /\ io' # <<>> /\ Shaped(io') /\ Last(io') = "notify"
      /\ ~ (error /\ onError) => io' = <<"notify">> /\ Head(io') = "notify"
      /\ error /\ onError => Leads(io')
      /\ client' = IF error THEN "Error" ELSE client
  <2> DEFINE told == error /\ onError
  <2>1. told \in BOOLEAN /\ (~ error => ~ told)
    OBVIOUS
  <2>2. /\ io' = (IF told THEN <<"reset", "HostSetup">> ELSE <<>>) \o <<"notify">>
        /\ client' = IF error THEN "Error" ELSE client
    BY DEF Ends, OnError
  <2> HIDE DEF told
  <2>3. io' \in Seq(Statement) /\ io' # <<>> /\ Shaped(io') /\ Last(io') = "notify"
        /\ (told => Leads(io')) /\ (~ told => io' = <<"notify">>)
    BY <2>1, <2>2, EndHandler
  <2>4. Head(<<"notify">>) = "notify"
    OBVIOUS
  <2>5. QED
    BY <2>2, <2>3, <2>4 DEF told
<1>2. TypeOK'
  BY <1>1 DEF TypeOK, Statement
<1>3. SetupInv'
  <2>1. Leads(io) => FALSE
    BY Pieces
  <2>2. QED
    BY <1>1, <2>1 DEF SetupInv
<1>4. AttemptInv'
  BY <1>1 DEF AttemptInv
<1>5. ServesInv'
  BY DEF ServesInv
<1>6. HandlerInv'
  BY <1>1 DEF Panel, HandlerInv
<1>7. UsedInv'
  BY DEF UsedInv
<1>8. SessionInv'
  BY <1>1 DEF SessionInv
<1>9. LedInv'
  <2>1. Leads(io) => FALSE
    BY Pieces
  <2>2. QED
    BY <1>1, <2>1 DEF LedInv
<1>10. QED
  BY <1>2, <1>3, <1>4, <1>5, <1>6, <1>7, <1>8, <1>9

\* What remains of the handler when one of its statements has been executed.
Executed ==
  /\ io' = Tail(io) /\ io' \in Seq(Statement) /\ Shaped(io')
  /\ io' # <<>> => Last(io') = Last(io)
  /\ io' = <<>> => Last(io) = Head(io)
  /\ Head(io) = "reset" => io' # <<>> /\ Head(io') \in Panel
  /\ Head(io) \in {"close", "notify"} => io' = <<>>
  /\ Leads(io) => Head(io) \in Panel \/ Leads(io')

\* A handler that destroys the server leads on.
LEMMA Leading == Executed /\ Head(io) = "reset" => Leads(io')
<1> SUFFICES ASSUME Executed, Head(io) = "reset" PROVE Leads(io')
  OBVIOUS
<1>1. io' \in Seq(Statement) /\ io' # <<>> /\ Head(io') \in Panel
  BY DEF Executed
<1>2. 1 \in DOMAIN io' /\ io'[1] = Head(io')
  BY <1>1, EmptySeq, LenProperties
<1>3. QED
  BY <1>1, <1>2 DEF Leads, Panel

\* The statements after the one executed still have the shape of a handler.
LEMMA Executes == ASSUME AppInv, io # <<>>, io' = Tail(io) PROVE Executed
<1>1. io \in Seq(Statement) /\ io # <<>> /\ Shaped(io) /\ io' = Tail(io)
  BY DEF AppInv, TypeOK, HandlerInv, Statement
<1>2. QED
  BY <1>1, Rest DEF Executed

\* The server goes while the panel that shows it is about to.
LEMMA ResetKeeps == AppInv /\ Reset => AppInv'
<1> SUFFICES ASSUME AppInv, Reset PROVE AppInv'
  OBVIOUS
<1> USE DEF Reset, AppInv, Busy, Proper, Generating, setupVars, handlers, links,
            clientVars, history
<1>1. Executed
  BY Executes
<1>2. TypeOK'
  BY <1>1 DEF Executed, TypeOK, Statement
<1>3. SetupInv'
  BY <1>1, Leading DEF Executed, SetupInv
<1>4. AttemptInv'
  BY <1>1 DEF Executed, AttemptInv
<1>5. ServesInv'
  BY <1>1 DEF Executed, ServesInv
<1>6. HandlerInv'
  BY <1>1 DEF Executed, HandlerInv, Panel
<1>7. UsedInv'
  BY <1>1 DEF Executed, UsedInv
<1>8. SessionInv'
  BY <1>1, Pieces DEF Executed, SessionInv
<1>9. LedInv'
  BY <1>1, Pieces DEF Executed, Panel, LedInv
<1>10. QED
  BY <1>2, <1>3, <1>4, <1>5, <1>6, <1>7, <1>8, <1>9

\* The last statement of a failure leaves nothing that waits.
LEMMA SetModeKeeps == AppInv /\ SetMode => AppInv'
<1> SUFFICES ASSUME AppInv, SetMode PROVE AppInv'
  OBVIOUS
<1> USE DEF SetMode, AppInv, Busy, Proper, Generating, setupVars, handlers, links,
            clientVars, history
<1>1. Executed
  BY Executes
<1>2. TypeOK'
  BY <1>1 DEF Executed, TypeOK, Statement
<1>3. SetupInv'
  BY DEF SetupInv
<1>4. AttemptInv'
  BY <1>1 DEF Executed, AttemptInv, HandlerInv, UsedInv, Panel
<1>5. ServesInv'
  BY DEF ServesInv
<1>6. HandlerInv'
  BY <1>1 DEF Executed, Panel, HandlerInv
<1>7. UsedInv'
  BY <1>1 DEF Executed, UsedInv
<1>8. SessionInv'
  BY DEF SessionInv
<1>9. LedInv'
  BY DEF LedInv
<1>10. QED
  BY <1>2, <1>3, <1>4, <1>5, <1>6, <1>7, <1>8, <1>9

\* Closing is last, and its notice leads on.
LEMMA CloseKeeps == AppInv /\ Close => AppInv'
<1> SUFFICES ASSUME AppInv, Close PROVE AppInv'
  OBVIOUS
<1> USE DEF AppInv, Busy, Proper, Generating, setupVars, handlers, history
<1>1. /\ io # <<>> /\ io' = <<>> /\ Last(io) = Head(io) /\ Head(io) \in {"close", "notify"}
      /\ ~ Leads(io) /\ Shaped(io') /\ io' \in Seq(Statement)
  BY Executes, Pieces DEF Close, Executed, Panel
<1>2. /\ UNCHANGED <<ui, setup, success, server, goal, doubled, overwritten>>
      /\ client' # "Connected" /\ client' # "Connecting" /\ client' # "Error"
      /\ onLoss' => onLoss
  BY DEF Close, OnLoss, ResetClient
<1>3. \/ mode' = "None" /\ ResetClient
      \/ /\ client' = "Disconnected" /\ UNCHANGED <<mode, handlers, sock>>
         /\ closing \subseteq closing' /\ closing' \subseteq BOOLEAN /\ late' \in BOOLEAN
         /\ tls' \in {tls, "shut"}
         /\ client # "Disconnected" /\ Head(io) = "notify" /\ onLoss => TRUE \in closing'
  <2>1. CASE client # "Disconnected" /\ ~ sock /\ Head(io) = "notify" /\ onLoss
    BY <2>1 DEF Close, OnLoss
  <2>2. CASE ~ (client # "Disconnected" /\ ~ sock /\ Head(io) = "notify" /\ onLoss)
    <3>1. /\ client' = "Disconnected" /\ UNCHANGED <<mode, handlers, sock>>
          /\ IF client = "Disconnected" \/ ~ sock THEN UNCHANGED <<tls, closing, late>>
             ELSE /\ tls' = IF tls = "done" THEN "shut" ELSE tls
                  /\ closing' = closing \cup {Head(io) = "notify"}
                  /\ late' \in {late, late \/ tls \in {"done", "shut"}}
      BY <2>2 DEF Close
    <3>2. closing \subseteq BOOLEAN /\ late \in BOOLEAN
      BY DEF TypeOK
    <3>3. CASE client = "Disconnected" \/ ~ sock
      BY <2>2, <3>1, <3>2, <3>3
    <3>4. CASE ~ (client = "Disconnected" \/ ~ sock)
      <4>1. closing \subseteq closing' /\ closing' \subseteq BOOLEAN
        BY <3>1, <3>2, <3>4
      <4>2. Head(io) = "notify" => TRUE \in closing'
        BY <3>1, <3>4, Zenon
      <4>3. late' \in BOOLEAN /\ tls' \in {tls, "shut"}
        BY <3>1, <3>2, <3>4
      <4>4. QED
        BY <3>1, <4>1, <4>2, <4>3
    <3>5. QED
      BY <3>3, <3>4
  <2>3. QED
    BY <2>1, <2>2
<1>4. tls # "fresh"
  BY <1>1 DEF UsedInv
<1>5. TypeOK'
  BY <1>1, <1>2, <1>3 DEF ResetClient, TypeOK, Statement
<1>6. SetupInv'
  BY <1>1, <1>2, <1>3 DEF SetupInv
<1>7. AttemptInv'
  BY <1>2, <1>3 DEF ResetClient, AttemptInv
<1>8. ServesInv'
  BY <1>1, <1>2, <1>3 DEF Panel, ServesInv
<1>9. HandlerInv'
  BY <1>1 DEF HandlerInv
<1>10. UsedInv'
  BY <1>1, <1>2, <1>3, <1>4 DEF ResetClient, UsedInv
<1>11. SessionInv'
  BY <1>1, <1>2, <1>3, Pieces DEF SessionInv
<1>12. LedInv'
  <2>1. mode' = "None" => LedInv'
    BY DEF LedInv
  <2>2. mode' = mode /\ TRUE \in closing => TRUE \in closing' \/ mode' = "None"
    BY <1>3 DEF ResetClient
  <2>3. io = <<"notify">> => Head(io) = "notify"
    OBVIOUS
  <2>4. QED
    BY <1>1, <1>2, <1>3, <2>1, <2>2, <2>3 DEF LedInv
<1>13. QED
  BY <1>5, <1>6, <1>7, <1>8, <1>9, <1>10, <1>11, <1>12

\* The completion of a shutdown finds a stream that was used, and leads on if it notifies.
LEMMA ShutdownDoneKeeps ==
  ASSUME AppInv, NEW notify \in BOOLEAN, ShutdownDone(notify)
  PROVE  AppInv'
<1> USE DEF AppInv, Busy, Proper, Generating, setupVars, handlers, history
<1>1. io = <<>> /\ io' = io /\ notify \in closing /\ ~ Leads(io)
  BY Pieces DEF ShutdownDone
<1>2. UNCHANGED <<ui, setup, success, server, goal, doubled, overwritten>>
  BY DEF ShutdownDone
<1>3. \/ mode' = "None" /\ ResetClient
      \/ /\ ~ (notify /\ onLoss)
         /\ UNCHANGED <<mode, client, tls, handlers, late>> /\ sock' \in BOOLEAN
         /\ closing' \subseteq closing /\ (~ notify => closing \ {FALSE} \subseteq closing')
  BY DEF ShutdownDone, OnLoss, TypeOK
<1>4. tls # "fresh" /\ client # "none"
  BY <1>1 DEF UsedInv, TypeOK
<1>5. TypeOK'
  BY <1>1, <1>2, <1>3, <1>4 DEF ResetClient, TypeOK
<1>6. SetupInv'
  BY <1>1, <1>2, <1>3 DEF ResetClient, SetupInv
<1>7. AttemptInv'
  BY <1>1, <1>2, <1>3 DEF ResetClient, AttemptInv
<1>8. ServesInv'
  BY <1>1, <1>2, <1>3 DEF ServesInv
<1>9. HandlerInv'
  BY <1>1 DEF HandlerInv
<1>10. UsedInv'
  BY <1>1, <1>2, <1>3, <1>4 DEF ResetClient, UsedInv
<1>11. SessionInv'
  BY <1>1, <1>2, <1>3 DEF SessionInv
<1>12. LedInv'
  BY <1>1, <1>2, <1>3 DEF LedInv
<1>13. QED
  BY <1>5, <1>6, <1>7, <1>8, <1>9, <1>10, <1>11, <1>12

-----------------------------------------------------------------------------
(* The theorems *)

\* The flow begins with nothing under way.
LEMMA InvInit == Init => AppInv
<1> SUFFICES ASSUME Init PROVE AppInv
  OBVIOUS
<1>1. TypeOK
  BY EmptySeq DEF Init, TypeOK
<1>2. /\ SetupInv /\ AttemptInv /\ ServesInv /\ UsedInv /\ SessionInv /\ LedInv
  BY DEF Init, SetupInv, AttemptInv, ServesInv, UsedInv, SessionInv, LedInv, Busy, Proper,
     Generating
<1>3. HandlerInv
  BY Pieces DEF Init, HandlerInv
<1>4. QED
  BY <1>1, <1>2, <1>3 DEF AppInv

\* The ways an attempt ends.
LEMMA AttemptOverKeeps == AppInv /\ AttemptOver => AppInv'
<1> SUFFICES ASSUME AppInv, AttemptOver PROVE AppInv'
  OBVIOUS
<1>1. CASE AttemptSucceeds
  BY <1>1, SucceedsKeeps
<1>2. CASE AttemptRefused
  \* With a new stream, a client in the panel of the setup meets a server that listens.
  <2>1. Generating /\ tls = "fresh" => FALSE
    BY <1>2 DEF AppInv, AttemptInv, UsedInv, AttemptRefused, Idle, OwnServer, Proper, Busy
  <2>2. tls' = tls /\ tls \in {"fresh", "half", "bad", "done", "shut"}
    BY <1>2 DEF AppInv, TypeOK, AttemptRefused
  <2>3. QED
    BY <1>2, <2>1, <2>2, FailsKeeps DEF AttemptRefused
<1>3. CASE \E r \in {"half", "bad"} : TlsFails(r)
  BY <1>3, FailsKeeps DEF TlsFails
<1>4. CASE AuthFails
  BY <1>4, FailsKeeps DEF AuthFails
<1>5. CASE AnswerFails
  BY <1>5, FailsKeeps DEF AnswerFails
<1>6. CASE \E error \in BOOLEAN : AttemptEnds(error)
  BY <1>6, EndsKeeps DEF AttemptEnds, Idle, Busy, links, AppInv, TypeOK
<1>7. QED
  BY <1>1, <1>2, <1>3, <1>4, <1>5, <1>6 DEF AttemptOver

\* The end of a session, and what is left of one.
LEMMA SessionEndsKeeps ==
  AppInv /\ (LateWriteError \/ \E error \in BOOLEAN : SessionEnds(error)) => AppInv'
<1>1. ASSUME AppInv, LateWriteError PROVE AppInv'
  <2>1. tls' = tls /\ tls \in {"half", "bad", "done", "shut"}
    BY <1>1 DEF AppInv, TypeOK, UsedInv, LateWriteError
  <2>2. QED
    BY <1>1, <2>1, EndsKeeps DEF LateWriteError
<1>2. ASSUME AppInv, NEW error \in BOOLEAN, SessionEnds(error) PROVE AppInv'
  <2>1. tls' = tls /\ tls \in {"half", "bad", "done", "shut"} /\ late' \in BOOLEAN
    BY <1>2 DEF AppInv, TypeOK, UsedInv, SessionEnds, links
  <2>2. QED
    BY <1>2, <2>1, EndsKeeps DEF SessionEnds, Busy, links
<1>3. QED
  BY <1>1, <1>2

\* Every step, and a stutter, keeps the invariant.
LEMMA InvNext == AppInv /\ [Next]_vars => AppInv'
<1> SUFFICES ASSUME AppInv, [Next]_vars PROVE AppInv'
  OBVIOUS
<1>1. CASE Clicks
  BY <1>1, GoKeeps, StartHostingKeeps, BackKeeps, ConnectKeeps, DisconnectKeeps,
     ShutdownKeeps
     DEF Clicks
<1>2. CASE GeneratingFrame
  BY <1>2, FrameKeeps
<1>3. CASE SetConnecting
  BY <1>3, ConnectingKeeps
<1>4. CASE Setup
  BY <1>4, SetupKeeps
<1>5. CASE AttemptOver
  BY <1>5, AttemptOverKeeps
<1>6. CASE LateWriteError \/ \E error \in BOOLEAN : SessionEnds(error)
  BY <1>6, SessionEndsKeeps
<1>7. CASE \E notify \in BOOLEAN : ShutdownDone(notify)
  BY <1>7, ShutdownDoneKeeps
<1>8. CASE Callback
  BY <1>8, ResetKeeps, SetModeKeeps, CloseKeeps DEF Callback
<1>9. CASE UNCHANGED vars
  <2>1. /\ UNCHANGED <<mode, ui, setup, success, server, client, tls, goal, sock, closing,
                      late, io, doubled, overwritten>>
        /\ UNCHANGED <<onConnect, onError, onLoss>>
    BY <1>9 DEF vars
  <2>2. TypeOK' /\ HandlerInv' /\ UsedInv'
    BY <2>1 DEF AppInv, TypeOK, HandlerInv, UsedInv, Generating
  <2>3. SetupInv' /\ AttemptInv' /\ ServesInv' /\ SessionInv' /\ LedInv'
    BY <2>1 DEF AppInv, SetupInv, AttemptInv, ServesInv, SessionInv, LedInv, Busy, Proper,
       Generating
  <2>4. QED
    BY <2>2, <2>3 DEF AppInv
<1>10. QED
  BY <1>1, <1>2, <1>3, <1>4, <1>5, <1>6, <1>7, <1>8, <1>9 DEF Next

\* AppInv holds in every state of the flow.
THEOREM Invariance == Spec => []AppInv
  BY InvInit, InvNext, PTL DEF Spec

\* The variables stay in their types, and a client that is gone has taken its stream and
\* its handlers with it (UIState.cpp:87).
THEOREM TypeCorrect == Spec => []TypeOK
<1>1. AppInv => TypeOK
  BY DEF AppInv
<1>2. QED
  BY <1>1, Invariance, PTL

\* A dashboard stands for a server or a session, outside the callbacks
\* (FlowPanels.cpp:135, :424).
THEOREM DashboardsStand == Spec => []DashboardIsReal
<1>1. AppInv => DashboardIsReal
  BY DEF AppInv, ServesInv, SessionInv, DashboardIsReal
<1>2. QED
  BY <1>1, Invariance, PTL

\* Whoever waits has something under way that will lead out of the panel: what the
\* liveness of WaitingEnds takes from the order of the steps, fairness adding only that
\* each of these things happens (FlowPanels.cpp:135-166, :411-430).
THEOREM WaitingLed == Spec => []WaitingIsLed
<1>1. AppInv => WaitingIsLed
  <2> SUFFICES ASSUME AppInv PROVE WaitingIsLed
    OBVIOUS
  <2>1. mode = "Connecting" /\ ~ overwritten =>
          \/ client = "Connecting" /\ onLoss
          \/ Leads(io)
          \/ onLoss /\ (TRUE \in closing \/ (io = <<"notify">> /\ client # "Disconnected"))
    BY DEF AppInv, LedInv
  <2>2. Generating /\ setup = "astray" => Leads(io)
    BY DEF AppInv, SetupInv
  <2>3. Generating /\ client = "Connecting" /\ io = <<>> /\ ~ doubled => server = "running"
    BY Pieces DEF AppInv, SetupInv, AttemptInv, ServesInv, Busy, Proper
  <2>4. QED
    BY <2>1, <2>2, <2>3 DEF WaitingIsLed, Generating
<1>2. QED
  BY <1>1, Invariance, PTL
=============================================================================
