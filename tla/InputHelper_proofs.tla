------------------------- MODULE InputHelper_proofs -------------------------
(***************************************************************************)
(* Proofs about the life of the Linux capture of InputHelper, for any      *)
(* number of helpers and of commands: types, what the object is like       *)
(* between captures, and that devices are held only for a connection that  *)
(* is there or about to be found ended.                                    *)
(***************************************************************************)
EXTENDS InputHelper, SequenceTheorems, WellFoundedInduction, TLAPS

-----------------------------------------------------------------------------
(* Types *)

Flags == /\ maySignal \in BOOLEAN /\ running \in BOOLEAN /\ initBusy \in BOOLEAN
         /\ stopReq \in BOOLEAN /\ connected \in BOOLEAN /\ ipc \in BOOLEAN
         /\ failed \in BOOLEAN

Pids == /\ socket \in 0..MaxHelpers /\ pkexec \in 0..MaxHelpers
        /\ helperPid \in 0..MaxHelpers /\ mapped \in 0..MaxHelpers
        /\ shm \in 0..MaxHelpers

Places == /\ init \in {"none", "begin", "launch", "launched", "connect", "done"}
          /\ owner \in {"idle", "stopping", "dying", "destroyed", "terminated", "killed"}

HelperStates == {"none", "prompt", "started", "listening", "serving", "ended"}

HelperTypes ==
  /\ ready \subseteq Helpers /\ signalled \subseteq Helpers /\ grabbed \subseteq Helpers
  /\ helper \in [Helpers -> HelperStates]
  /\ link \in [Helpers -> {"none", "open", "eof"}]
  /\ inbox \in [Helpers -> Seq({"grab", "ungrab"})]

LEMMA TypeParts == /\ TypeOK <=> Flags /\ Pids /\ Places /\ HelperTypes
                   /\ TypeOK' <=> Flags' /\ Pids' /\ Places' /\ HelperTypes'
  BY DEF TypeOK, Flags, Pids, Places, HelperTypes, HelperStates

LEMMA Zero == ASSUME BoundsAssumption
              PROVE  0 \in 0..MaxHelpers /\ \A h \in Helpers : h \in 0..MaxHelpers /\ h # 0
  BY DEF BoundsAssumption, Helpers

LEMMA NonZero == ASSUME BoundsAssumption, NEW h \in 0..MaxHelpers, h # 0
                 PROVE  h \in Helpers
  BY DEF BoundsAssumption, Helpers

\* The natural numbers are well-founded.
LEMMA Least ==
  ASSUME NEW T, T \subseteq Nat, T # {}
  PROVE  \E x \in T : \A y \in T : x <= y
<1>1. IsWellFoundedOn(OpToRel(<, Nat), Nat)
  BY NatLessThanWellFounded
<1>2. \E x \in T : \A y \in T : <<y, x>> \notin OpToRel(<, Nat)
  BY <1>1, WFMin
<1>3. PICK x \in T : \A y \in T : <<y, x>> \notin OpToRel(<, Nat)
  BY <1>2
<1>4. \A y \in T : ~(y < x)
  BY <1>3 DEF OpToRel
<1>5. QED
  BY <1>4

\* The helper launched next is one that was not launched yet.
LEMMA NextHelperIsNew ==
  ASSUME BoundsAssumption, \E h \in Helpers : helper[h] = "none"
  PROVE  NextHelper \in Helpers /\ helper[NextHelper] = "none"
<1> DEFINE T == {h \in Helpers : helper[h] = "none"}
<1>1. T \subseteq Nat /\ T # {}
  BY DEF Helpers, BoundsAssumption
<1>2. \E x \in T : \A y \in T : x <= y
  BY <1>1, Least
<1>3. \E h \in Helpers : helper[h] = "none" /\ \A k \in Helpers : helper[k] = "none" => h <= k
  BY <1>2
<1>4. QED
  BY <1>3 DEF NextHelper

\* Commands are sent and read.
LEMMA Commands ==
  ASSUME NEW s \in Seq({"grab", "ungrab"})
  PROVE  /\ \A c \in {"grab", "ungrab"} : Append(s, c) \in Seq({"grab", "ungrab"})
         /\ <<>> \in Seq({"grab", "ungrab"})
         /\ \A n \in 1..Len(s) : SubSeq(s, n + 1, Len(s)) \in Seq({"grab", "ungrab"})
<1>1. \A c \in {"grab", "ungrab"} : Append(s, c) \in Seq({"grab", "ungrab"})
  BY AppendProperties
<1>2. <<>> \in Seq({"grab", "ungrab"})
  BY EmptySeq
<1>3. ASSUME NEW n \in 1..Len(s)
      PROVE  SubSeq(s, n + 1, Len(s)) \in Seq({"grab", "ungrab"})
  <2>1. \A i \in (n + 1)..Len(s) : s[i] \in {"grab", "ungrab"}
    BY LenProperties
  <2>2. n + 1 \in Nat /\ Len(s) \in Nat /\ n + 1 <= Len(s) + 1
    BY LenProperties
  <2>3. QED
    BY <2>1, <2>2, SubSeqProperties
<1>4. QED
  BY <1>1, <1>2, <1>3

\* cleanupHelperProcess() signals helpers that were launched.
LEMMA CleanupType ==
  ASSUME BoundsAssumption, Pids, HelperTypes, CleanupHelperProcess
  PROVE  helper' \in [Helpers -> HelperStates] /\ signalled' \subseteq Helpers
<1> DEFINE pid == IF pkexec # 0 THEN pkexec ELSE helperPid
<1>1. pid \in 0..MaxHelpers
  BY DEF Pids
<1>2. pid # 0 => pid \in Helpers
  BY <1>1, NonZero
<1>3. CASE pid # 0 /\ helper[pid] = "prompt"
  BY <1>2, <1>3 DEF CleanupHelperProcess, HelperTypes, HelperStates
<1>4. CASE ~(pid # 0 /\ helper[pid] = "prompt")
  BY <1>2, <1>4 DEF CleanupHelperProcess, HelperTypes
<1>5. QED
  BY <1>3, <1>4
-----------------------------------------------------------------------------
(* The actions keep the types *)

\* The steps of the object and its threads.
LEMMA TypeObject ==
  ASSUME BoundsAssumption, TypeOK,
         Start \/ StopBegins \/ StopEnds \/ Destroy \/ ProgramKilled \/ NewObject
  PROVE  TypeOK'
<1>1. Flags /\ Pids /\ Places /\ HelperTypes /\ 0 \in 0..MaxHelpers
  BY TypeParts, Zero
<1>2. Flags'
  BY <1>1 DEF Flags, Start, StopBegins, StopEnds, Destroy, ProgramKilled, NewObject,
                  CleanupHelperProcess, CloseSocket
<1>3. Places'
  BY <1>1 DEF Places, Start, StopBegins, StopEnds, Destroy, ProgramKilled, NewObject
<1>4. Pids'
  BY <1>1 DEF Pids, Start, StopBegins, StopEnds, Destroy, ProgramKilled, NewObject,
              CleanupHelperProcess, CloseSocket, helperVars
<1>5. HelperTypes'
  <2>1. helper' \in [Helpers -> HelperStates] /\ signalled' \subseteq Helpers
    <3>1. CASE StopEnds
      BY <1>1, <3>1, CleanupType DEF StopEnds
    <3>2. CASE ~StopEnds
      BY <1>1, <3>2
      DEF HelperTypes, Start, StopBegins, Destroy, ProgramKilled, NewObject, helperVars
    <3>3. QED
      BY <3>1, <3>2
  <2>2. link' \in [Helpers -> {"none", "open", "eof"}]
    BY <1>1 DEF HelperTypes, Start, StopBegins, StopEnds, Destroy, ProgramKilled, NewObject,
                CloseSocket, helperVars
  <2>3. UNCHANGED <<ready, grabbed, inbox>>
    BY DEF Start, StopBegins, StopEnds, Destroy, ProgramKilled, NewObject, helperVars
  <2>4. QED
    BY <1>1, <2>1, <2>2, <2>3 DEF HelperTypes
<1>6. QED
  BY <1>2, <1>3, <1>4, <1>5, TypeParts

LEMMA TypeInitThread ==
  ASSUME BoundsAssumption, TypeOK, InitThread \/ ConnectGivesUp
  PROVE  TypeOK'
<1>1. Flags /\ Pids /\ Places /\ HelperTypes /\ 0 \in 0..MaxHelpers
  BY TypeParts, Zero
<1>2. Flags'
  BY <1>1
  DEF Flags, InitThread, InitBegins, InitFails, LaunchHelper, LaunchFails, Launched, MapSegment,
              ConnectToHelper, ConnectGivesUp, flags
<1>3. Places'
  BY <1>1
  DEF Places, InitThread, InitBegins, InitFails, LaunchHelper, LaunchFails, Launched, MapSegment,
              ConnectToHelper, ConnectGivesUp
<1>4. ASSUME LaunchHelper, ~(shm # 0 /\ shm \in ready /\ Signallable(shm))
      PROVE  NextHelper \in Helpers /\ NextHelper \in 0..MaxHelpers
  BY <1>4, NextHelperIsNew, Zero DEF LaunchHelper
<1>5. ASSUME ConnectToHelper PROVE mapped \in Helpers
  BY <1>1, <1>5, NonZero DEF ConnectToHelper, Pids
<1>6. Pids'
  BY <1>1, <1>4
  DEF Pids, InitThread, InitBegins, LaunchHelper, LaunchFails, Launched, MapSegment,
     ConnectToHelper, ConnectGivesUp, CleanupHelperProcess, helperVars
<1>7. HelperTypes'
  <2>1. CASE InitBegins \/ LaunchFails \/ MapSegment
    BY <1>1, <2>1 DEF HelperTypes, InitBegins, LaunchFails, MapSegment, helperVars
  <2>2. CASE LaunchHelper
    BY <1>1, <1>4, <2>2 DEF HelperTypes, LaunchHelper, HelperStates
  <2>3. CASE Launched \/ ConnectGivesUp
    <3>1. helper' \in [Helpers -> HelperStates] /\ signalled' \subseteq Helpers
      <4>1. CASE CleanupHelperProcess
        BY <1>1, <4>1, CleanupType
      <4>2. CASE ~CleanupHelperProcess
        BY <1>1, <2>3, <4>2 DEF Launched, ConnectGivesUp, HelperTypes
      <4>3. QED
        BY <4>1, <4>2
    <3>2. UNCHANGED <<ready, grabbed, inbox, link>>
      BY <2>3 DEF Launched, ConnectGivesUp
    <3>3. QED
      BY <1>1, <3>1, <3>2 DEF HelperTypes
  <2>4. CASE ConnectToHelper
    <3>1. inbox' \in [Helpers -> Seq({"grab", "ungrab"})]
      <4>1. Append(inbox[mapped], "grab") \in Seq({"grab", "ungrab"})
        BY <1>1, <1>5, <2>4, Commands DEF HelperTypes
      <4>2. QED
        BY <1>1, <2>4, <4>1 DEF ConnectToHelper, Send, HelperTypes
    <3>2. /\ helper' \in [Helpers -> HelperStates]
          /\ link' \in [Helpers -> {"none", "open", "eof"}]
      BY <1>1, <2>4 DEF ConnectToHelper, HelperTypes, HelperStates
    <3>3. UNCHANGED <<ready, signalled, grabbed>>
      BY <2>4 DEF ConnectToHelper
    <3>4. QED
      BY <1>1, <3>1, <3>2, <3>3 DEF HelperTypes
  <2>5. QED
    BY <2>1, <2>2, <2>3, <2>4 DEF InitThread
<1>8. QED
  BY <1>2, <1>3, <1>6, <1>7, TypeParts

LEMMA TypeCapture ==
  ASSUME BoundsAssumption, TypeOK,
         IpcReadFails \/ \E command \in {"grab", "ungrab"} : SetInputPaused(command)
  PROVE  TypeOK'
<1>1. Flags /\ Pids /\ Places /\ HelperTypes
  BY TypeParts
<1>2. CASE IpcReadFails
  BY <1>1, <1>2, TypeParts DEF IpcReadFails, helperVars, Flags, Pids, Places, HelperTypes
<1>3. ASSUME NEW command \in {"grab", "ungrab"}, SetInputPaused(command)
      PROVE  TypeOK'
  <2>1. socket \in Helpers
    BY <1>1, <1>3, NonZero DEF SetInputPaused, Pids
  <2>2. Append(inbox[socket], command) \in Seq({"grab", "ungrab"})
    BY <1>1, <2>1, Commands DEF HelperTypes
  <2>3. HelperTypes'
    BY <1>1, <1>3, <2>2 DEF SetInputPaused, Send, HelperTypes
  <2>4. Flags' /\ Pids' /\ Places'
    BY <1>1, <1>3 DEF SetInputPaused, Flags, Pids, Places, appVars, flags
  <2>5. QED
    BY <2>3, <2>4, TypeParts
<1>4. QED
  BY <1>2, <1>3

\* The steps of helper h.
Helping(h) ==
  \/ HelperStep(h) \/ HelperKilled(h)
  \/ \E agreed \in BOOLEAN : PromptAnswered(h, agreed)

LEMMA TypeHelper ==
  ASSUME BoundsAssumption, TypeOK, NEW h \in Helpers, Helping(h)
  PROVE  TypeOK'
<1>1. Flags /\ Pids /\ Places /\ HelperTypes /\ 0 \in 0..MaxHelpers /\ h \in 0..MaxHelpers
  BY TypeParts, Zero
<1>2. UNCHANGED appVars
  BY DEF Helping, HelperStep, HelperFails, HelperListens, HelperEnds, HelperReads,
         HelperKilled, PromptAnswered
<1>3. Flags' /\ Places'
  BY <1>1, <1>2 DEF Flags, Places, appVars, flags
<1>4. shm' \in {shm, 0, h}
  BY DEF Helping, HelperStep, HelperFails, HelperListens, HelperEnds, HelperReads,
         HelperKilled, PromptAnswered, CleanupHelper
<1>5. Pids'
  BY <1>1, <1>2, <1>4 DEF Pids, appVars
<1>6. inbox' \in [Helpers -> Seq({"grab", "ungrab"})]
  <2>1. inbox[h] \in Seq({"grab", "ungrab"})
    BY <1>1 DEF HelperTypes
  <2>2. <<>> \in Seq({"grab", "ungrab"})
    BY <2>1, Commands
  <2>3. \A n \in 1..Len(inbox[h]) :
          SubSeq(inbox[h], n + 1, Len(inbox[h])) \in Seq({"grab", "ungrab"})
    BY <2>1, Commands
  <2>4. \E s \in Seq({"grab", "ungrab"}) :
          inbox' \in {inbox, [inbox EXCEPT ![h] = s]}
    BY <2>1, <2>2, <2>3
       DEF Helping, HelperStep, HelperFails, HelperListens, HelperEnds, HelperReads,
           HelperKilled, PromptAnswered, CleanupHelper
  <2>5. QED
    BY <1>1, <2>4 DEF HelperTypes
<1>7. grabbed' \subseteq Helpers
  BY <1>1 DEF HelperTypes, Helping, HelperStep, HelperFails, HelperListens, HelperEnds,
     HelperReads, HelperKilled, PromptAnswered, CleanupHelper, Grab
<1>8. HelperTypes'
  <2>1. helper' \in [Helpers -> HelperStates] /\ link' \in [Helpers -> {"none", "open", "eof"}]
    BY <1>1 DEF HelperTypes, HelperStates, Helping, HelperStep, HelperFails, HelperListens,
       HelperEnds, HelperReads, HelperKilled, PromptAnswered, CleanupHelper
  <2>2. ready' \subseteq Helpers /\ signalled' \subseteq Helpers
    BY <1>1 DEF HelperTypes, Helping, HelperStep, HelperFails, HelperListens,
       HelperEnds, HelperReads, HelperKilled, PromptAnswered
  <2>3. QED
    BY <1>6, <1>7, <2>1, <2>2 DEF HelperTypes
<1>9. QED
  BY <1>3, <1>5, <1>8, TypeParts

LEMMA TypeStep == ASSUME BoundsAssumption, TypeOK, [Next]_vars PROVE TypeOK'
<1>1. CASE UNCHANGED vars
  BY <1>1 DEF vars, TypeOK
<1>2. CASE Next
  BY <1>2, TypeObject, TypeInitThread, TypeCapture, TypeHelper DEF Next, Helping
<1>3. QED
  BY <1>1, <1>2

LEMMA TypeInit == ASSUME BoundsAssumption PROVE Init => TypeOK
<1> SUFFICES ASSUME Init PROVE TypeOK
  OBVIOUS
<1>1. 0 \in 0..MaxHelpers /\ <<>> \in Seq({"grab", "ungrab"})
  BY Zero, EmptySeq
<1>2. Flags /\ Pids /\ Places /\ HelperTypes
  BY <1>1 DEF Init, Flags, Pids, Places, HelperTypes, HelperStates
<1>3. QED
  BY <1>2, TypeParts

\* The variables of the object and of the helpers stay in their types: pids, sockets and
\* segments are those of helpers that can exist, and inboxes hold commands.
THEOREM TypeCorrect == Spec => []TypeOK
<1>1. Init => TypeOK
  BY BoundsAssumption, TypeInit
<1>2. TypeOK /\ [Next]_vars => TypeOK'
  BY BoundsAssumption, TypeStep
<1>3. QED
  BY <1>1, <1>2, PTL DEF Spec
-----------------------------------------------------------------------------
(* Between captures *)

AtRest == ~connected /\ ~ipc /\ mapped = 0 /\ pkexec = 0 /\ helperPid = 0

\* Where the initialisation thread and the owner stand says what the object holds.
Idle ==
  /\ owner = "idle" /\ init \notin {"none", "done"} => running /\ ~stopReq
  /\ owner = "idle" /\ init = "done" /\ ~running => AtRest /\ ~initBusy /\ failed

Ended ==
  /\ owner \in {"stopping", "dying"} => ~running /\ stopReq
  /\ owner \in {"destroyed", "terminated", "killed"} =>
       ~running /\ ~initBusy /\ AtRest /\ init \in {"none", "done"}
  /\ owner \in {"destroyed", "killed"} => init = "none"
  /\ owner = "terminated" => failed

Beginning ==
  /\ init # "done" => ~ipc /\ ~connected
  /\ init \in {"none", "begin", "launch"} => AtRest
  /\ init \in {"none", "begin"} => ~initBusy
  /\ init = "none" => ~running

Life == Idle /\ Ended /\ Beginning

LEMMA LifeObject ==
  ASSUME Life, Places, Start \/ StopBegins \/ StopEnds \/ Destroy \/ ProgramKilled \/ NewObject
  PROVE  Life'
<1>1. CASE Start
  BY <1>1 DEF Life, Idle, Ended, Beginning, AtRest, Places, Start
<1>2. CASE StopBegins
  BY <1>2 DEF Life, Idle, Ended, Beginning, AtRest, Places, StopBegins, NothingToStop
<1>3. CASE StopEnds
  BY <1>3 DEF Life, Idle, Ended, Beginning, AtRest, Places, StopEnds, CleanupHelperProcess
<1>4. CASE Destroy
  BY <1>4 DEF Life, Idle, Ended, Beginning, AtRest, Places, Destroy, NothingToStop
<1>5. CASE ProgramKilled
  BY <1>5 DEF Life, Idle, Ended, Beginning, AtRest, Places, ProgramKilled
<1>6. CASE NewObject
  BY <1>6 DEF Life, Idle, Ended, Beginning, AtRest, Places, NewObject
<1>7. QED
  BY <1>1, <1>2, <1>3, <1>4, <1>5, <1>6

LEMMA LifeInitThread ==
  ASSUME Life, Places, InitThread \/ ConnectGivesUp
  PROVE  Life'
<1>1. CASE InitBegins
  BY <1>1 DEF Life, Idle, Ended, Beginning, AtRest, Places, InitBegins, InitFails
<1>2. CASE LaunchHelper
  BY <1>2 DEF Life, Idle, Ended, Beginning, AtRest, Places, LaunchHelper, flags
<1>3. CASE LaunchFails
  BY <1>3 DEF Life, Idle, Ended, Beginning, AtRest, Places, LaunchFails, InitFails
<1>4. CASE Launched
  BY <1>4 DEF Life, Idle, Ended, Beginning, AtRest, Places, Launched, InitFails,
              CleanupHelperProcess
<1>5. CASE MapSegment
  BY <1>5 DEF Life, Idle, Ended, Beginning, AtRest, Places, MapSegment, flags
<1>6. CASE ConnectToHelper
  BY <1>6 DEF Life, Idle, Ended, Beginning, AtRest, Places, ConnectToHelper
<1>7. CASE ConnectGivesUp
  BY <1>7 DEF Life, Idle, Ended, Beginning, AtRest, Places, ConnectGivesUp, InitFails,
              CleanupHelperProcess
<1>8. QED
  BY <1>1, <1>2, <1>3, <1>4, <1>5, <1>6, <1>7 DEF InitThread

LEMMA LifeStep == ASSUME TypeOK, Life, [Next]_vars PROVE Life'
<1>1. Places
  BY TypeParts
<1>2. CASE IpcReadFails
  BY <1>1, <1>2 DEF Life, Idle, Ended, Beginning, AtRest, Places, IpcReadFails
<1>3. ASSUME NEW command, SetInputPaused(command) PROVE UNCHANGED appVars
  BY <1>3 DEF SetInputPaused
<1>4. ASSUME NEW h \in Helpers, Helping(h) PROVE UNCHANGED appVars
  BY <1>4 DEF Helping, HelperStep, HelperFails, HelperListens, HelperEnds, HelperReads,
     HelperKilled, PromptAnswered
<1>5. CASE UNCHANGED appVars
  BY <1>5 DEF appVars, flags, Life, Idle, Ended, Beginning, AtRest
<1>6. CASE UNCHANGED vars
  BY <1>6 DEF vars, Life, Idle, Ended, Beginning, AtRest
<1>7. CASE Next
  BY <1>1, <1>2, <1>3, <1>4, <1>5, <1>7, LifeObject, LifeInitThread DEF Next, Helping
<1>8. QED
  BY <1>6, <1>7

LEMMA LifeRests == Life => StoppedIsQuiet
  BY DEF Life, Idle, Ended, Beginning, AtRest, StoppedIsQuiet

\* However a capture ended - stopped while its helper was still starting, while it was
\* connecting, after the helper had died, or with its start failed - stop() leaves no
\* connection, thread, pid or mapping behind, and only a failed start can make the
\* destructor meet a joinable thread (LinuxInput.cpp: stop(), ~LinuxInput()).
THEOREM RestAfterStop == Spec => []StoppedIsQuiet
<1>1. Init => Life
  BY DEF Init, Life, Idle, Ended, Beginning, AtRest
<1>2. TypeOK /\ Life /\ [Next]_vars => Life'
  BY LifeStep
<1>3. QED
  BY <1>1, <1>2, TypeCorrect, LifeRests, PTL DEF Spec
-----------------------------------------------------------------------------
(* Who holds the devices *)

\* A connection that is not known to have ended is the one of the socket, and a socket
\* kept for longer belongs to a helper that is gone.
Links ==
  /\ connected => ipc /\ socket # 0
  /\ socket # 0 /\ ~connected => helper[socket] = "ended"
  /\ \A h \in Helpers : helper[h] = "serving" => link[h] \in {"open", "eof"}
  /\ \A h \in Helpers : helper[h] = "serving" /\ link[h] = "open" => socket = h
  /\ \A h \in grabbed : helper[h] = "serving"

\* cleanupHelperProcess() ends no helper that serves.
LEMMA CleanupKeeps ==
  ASSUME BoundsAssumption, TypeOK, CleanupHelperProcess
  PROVE  /\ \A h \in Helpers : helper'[h] = "serving" <=> helper[h] = "serving"
         /\ \A h \in Helpers : helper[h] = "ended" => helper'[h] = "ended"
<1> DEFINE pid == IF pkexec # 0 THEN pkexec ELSE helperPid
<1>1. pid \in 0..MaxHelpers /\ HelperTypes
  BY TypeParts DEF Pids
<1>2. pid # 0 => pid \in Helpers
  BY <1>1, NonZero
<1>3. CASE pid # 0 /\ helper[pid] = "prompt"
  BY <1>1, <1>2, <1>3 DEF CleanupHelperProcess, HelperTypes
<1>4. CASE ~(pid # 0 /\ helper[pid] = "prompt")
  BY <1>4 DEF CleanupHelperProcess
<1>5. QED
  BY <1>3, <1>4

\* Helpers that neither begin nor cease to serve leave the devices where they are.
LEMMA LinksKept ==
  ASSUME BoundsAssumption, TypeOK, Links,
         \A h \in Helpers : helper'[h] = "serving" <=> helper[h] = "serving",
         \A h \in Helpers : helper[h] = "ended" => helper'[h] = "ended",
         UNCHANGED <<grabbed, socket, link, connected, ipc>>
  PROVE  Links'
<1>1. socket # 0 => socket \in Helpers
  BY TypeParts, NonZero DEF Pids
<1>2. grabbed \subseteq Helpers
  BY TypeParts DEF HelperTypes
<1>3. QED
  BY <1>1, <1>2 DEF Links

\* So does closing the socket, at whose other end the helper is about to learn of it.
LEMMA LinksClose ==
  ASSUME BoundsAssumption, TypeOK, Links,
         \A h \in Helpers : helper'[h] = "serving" <=> helper[h] = "serving",
         CloseSocket, ~connected', grabbed' = grabbed
  PROVE  Links'
<1>1. grabbed \subseteq Helpers /\ link \in [Helpers -> {"none", "open", "eof"}]
  BY TypeParts DEF HelperTypes
<1>2. socket' = 0
  BY DEF CloseSocket
<1>3. \A h \in Helpers :
        link'[h] = IF h = socket /\ link[h] = "open" THEN "eof" ELSE link[h]
  BY DEF CloseSocket
<1>4. \A h \in Helpers : helper'[h] = "serving" => link'[h] = "eof"
  BY <1>3 DEF Links
<1>5. QED
  BY <1>1, <1>2, <1>4 DEF Links

LEMMA LinksObject ==
  ASSUME BoundsAssumption, TypeOK, Links,
         Start \/ StopBegins \/ StopEnds \/ Destroy \/ ProgramKilled \/ NewObject
  PROVE  Links'
<1>1. CASE Start \/ StopBegins \/ NewObject
  BY <1>1, LinksKept DEF Start, StopBegins, NewObject, helperVars
<1>2. CASE StopEnds
  <2>1. CleanupHelperProcess /\ grabbed' = grabbed /\ ~connected'
    BY <1>2 DEF StopEnds
  <2>2. CASE connected
    BY <1>2, <2>1, <2>2, CleanupKeeps, LinksClose DEF StopEnds
  <2>3. CASE ~connected
    <3>1. UNCHANGED <<socket, link>>
      BY <1>2, <2>3 DEF StopEnds
    <3>2. socket # 0 => socket \in Helpers
      BY TypeParts, NonZero DEF Pids
    <3>3. grabbed \subseteq Helpers
      BY TypeParts DEF HelperTypes
    <3>4. QED
      BY <2>1, <2>3, <3>1, <3>2, <3>3, CleanupKeeps DEF Links
  <2>4. QED
    BY <2>2, <2>3
<1>3. CASE Destroy
  <2>1. UNCHANGED <<helper, grabbed, connected, ipc>>
    BY <1>3 DEF Destroy
  <2>2. CASE NothingToStop
    BY <1>3, <2>1, <2>2, LinksClose DEF Destroy, NothingToStop
  <2>3. CASE ~NothingToStop
    BY <1>3, <2>1, <2>3, LinksKept DEF Destroy
  <2>4. QED
    BY <2>2, <2>3
<1>4. CASE ProgramKilled
  BY <1>4, LinksClose DEF ProgramKilled
<1>5. QED
  BY <1>1, <1>2, <1>3, <1>4

LEMMA LinksInitThread ==
  ASSUME BoundsAssumption, TypeOK, Links, InitThread \/ ConnectGivesUp
  PROVE  Links'
<1>1. HelperTypes /\ Pids
  BY TypeParts
<1>2. CASE InitBegins \/ LaunchFails \/ MapSegment
  BY <1>2, LinksKept DEF InitBegins, LaunchFails, MapSegment, helperVars, flags
<1>3. CASE LaunchHelper
  <2>1. CASE helper' = helper
    BY <1>3, <2>1, LinksKept DEF LaunchHelper, flags
  <2>2. CASE helper' # helper
    <3>1. /\ \E h \in Helpers : helper[h] = "none"
          /\ helper' = [helper EXCEPT ![NextHelper] = "prompt"]
      BY <1>3, <2>2 DEF LaunchHelper
    <3>2. NextHelper \in Helpers /\ helper[NextHelper] = "none"
      BY <3>1, NextHelperIsNew
    <3>3. \A h \in Helpers : /\ helper'[h] = "serving" <=> helper[h] = "serving"
                             /\ helper[h] = "ended" => helper'[h] = "ended"
      BY <1>1, <3>1, <3>2 DEF HelperTypes
    <3>4. QED
      BY <1>3, <3>3, LinksKept DEF LaunchHelper, flags
  <2>3. QED
    BY <2>1, <2>2
<1>4. CASE Launched \/ ConnectGivesUp
  <2>1. UNCHANGED <<grabbed, socket, link, connected, ipc>>
    BY <1>4 DEF Launched, ConnectGivesUp
  <2>2. CleanupHelperProcess \/ helper' = helper
    BY <1>4 DEF Launched, ConnectGivesUp
  <2>3. QED
    BY <2>1, <2>2, CleanupKeeps, LinksKept
<1>5. CASE ConnectToHelper
  <2>1. mapped \in Helpers /\ helper[mapped] = "listening"
    BY <1>1, <1>5, NonZero DEF ConnectToHelper, Pids
  <2>2. /\ ~ipc /\ connected' /\ ipc' /\ socket' = mapped /\ mapped # 0
        /\ helper' = [helper EXCEPT ![mapped] = "serving"]
        /\ link' = [link EXCEPT ![mapped] = "open"]
        /\ grabbed' = grabbed
    BY <1>5 DEF ConnectToHelper
  <2>3. ~connected
    BY <2>2 DEF Links
  <2>4. ASSUME NEW h \in Helpers, h # mapped, helper'[h] = "serving"
        PROVE  link'[h] = "eof"
    <3>1. helper[h] = "serving" /\ link'[h] = link[h]
      BY <1>1, <2>2, <2>4 DEF HelperTypes
    <3>2. socket # h
      BY <2>3, <3>1, Zero DEF Links
    <3>3. QED
      BY <3>1, <3>2 DEF Links
  <2>5. helper'[mapped] = "serving" /\ link'[mapped] = "open"
    BY <1>1, <2>1, <2>2 DEF HelperTypes
  <2>6. \A h \in grabbed : h \in Helpers /\ helper'[h] = "serving"
    BY <1>1, <2>2 DEF HelperTypes, Links
  <2>7. QED
    BY <2>2, <2>4, <2>5, <2>6 DEF Links
<1>6. QED
  BY <1>2, <1>3, <1>4, <1>5 DEF InitThread

LEMMA LinksHelper ==
  ASSUME BoundsAssumption, TypeOK, Links, NEW h \in Helpers, Helping(h)
  PROVE  Links'
<1>1. HelperTypes /\ Pids
  BY TypeParts
<1>2. UNCHANGED <<socket, connected, ipc>>
  BY DEF Helping, HelperStep, HelperFails, HelperListens, HelperEnds, HelperReads,
     HelperKilled, PromptAnswered, appVars, flags
<1>3. socket # 0 => socket \in Helpers
  BY <1>1, NonZero DEF Pids
<1>4. CASE HelperListens(h) \/ \E agreed \in BOOLEAN : PromptAnswered(h, agreed)
  <2>1. helper[h] \in {"started", "prompt"} /\ UNCHANGED <<grabbed, link>>
    BY <1>4 DEF HelperListens, PromptAnswered
  <2>2. PICK s \in {"started", "ended", "listening"} : helper' = [helper EXCEPT ![h] = s]
    BY <1>4 DEF HelperListens, PromptAnswered
  <2>3. \A k \in Helpers : /\ helper'[k] = "serving" <=> helper[k] = "serving"
                           /\ helper[k] = "ended" => helper'[k] = "ended"
    BY <1>1, <2>1, <2>2 DEF HelperTypes
  <2>4. QED
    BY <1>2, <2>1, <2>3, LinksKept
<1>5. CASE HelperFails(h) \/ HelperEnds(h) \/ HelperKilled(h)
  <2>1. /\ helper' = [helper EXCEPT ![h] = "ended"]
        /\ link' = [link EXCEPT ![h] = "none"]
        /\ grabbed' = grabbed \ {h}
    BY <1>5 DEF HelperFails, HelperEnds, HelperKilled, CleanupHelper
  <2>2. helper'[h] = "ended"
    BY <1>1, <2>1 DEF HelperTypes
  <2>3. \A k \in Helpers \ {h} : helper'[k] = helper[k] /\ link'[k] = link[k]
    BY <1>1, <2>1 DEF HelperTypes
  <2>4. \A k \in grabbed' : k \in Helpers \ {h} /\ k \in grabbed
    BY <1>1, <2>1 DEF HelperTypes
  <2>5. QED
    BY <1>2, <1>3, <2>2, <2>3, <2>4 DEF Links
<1>6. ASSUME NEW n, HelperReads(h, n) PROVE Links'
  <2>1. helper[h] = "serving" /\ UNCHANGED <<helper, link>>
    BY <1>6 DEF HelperReads
  <2>2. grabbed' \subseteq grabbed \union {h}
    BY <1>6 DEF HelperReads, Grab
  <2>3. QED
    BY <1>2, <2>1, <2>2 DEF Links
<1>7. QED
  BY <1>4, <1>5, <1>6 DEF Helping, HelperStep

LEMMA LinksStep == ASSUME BoundsAssumption, TypeOK, Links, [Next]_vars PROVE Links'
<1>1. CASE IpcReadFails
  <2>1. socket # 0 /\ helper[socket] = "ended" /\ ~connected'
        /\ UNCHANGED <<helper, grabbed, socket, link>>
    BY <1>1 DEF IpcReadFails, helperVars
  <2>2. QED
    BY <2>1 DEF Links
<1>2. ASSUME NEW command, SetInputPaused(command) PROVE Links'
  BY <1>2, LinksKept DEF SetInputPaused, appVars, flags
<1>3. CASE UNCHANGED vars
  BY <1>3, LinksKept DEF vars
<1>4. CASE Next
  BY <1>1, <1>2, <1>4, LinksObject, LinksInitThread, LinksHelper DEF Next, Helping
<1>5. QED
  BY <1>3, <1>4

LEMMA LinksHold == TypeOK /\ Links => GrabNeedsConnection
  BY TypeParts DEF Links, GrabNeedsConnection, HelperTypes

\* A helper holds the devices only while it serves a connection: the program's, or one
\* whose end it is about to read (CloseSocket by stop(), the destructor or the kernel).
THEOREM DevicesNeedConnection == Spec => []GrabNeedsConnection
<1>1. Init => Links
  BY DEF Init, Links
<1>2. TypeOK /\ Links /\ [Next]_vars => Links'
  BY BoundsAssumption, LinksStep
<1>3. QED
  BY <1>1, <1>2, TypeCorrect, LinksHold, PTL DEF Spec
=============================================================================
