----------------------------- MODULE Connection -----------------------------
(***************************************************************************)
(* What a client object promises the panel that uses it, whatever its      *)
(* sockets and handlers do.  An attempt is answered with a refusal that    *)
(* leaves the object ready for another attempt, with an admission, or with *)
(* the notice that the connection is over; only an admitted attempt is a   *)
(* session; after the notice there is nothing more.  Two cases spoil this: *)
(* an attempt may wait for a peer that waits for it, and a refusal may     *)
(* leave the notice on its way, which comes whatever is tried meanwhile.   *)
(***************************************************************************)
EXTENDS Naturals

VARIABLES
  phase,     \* "idle", "trying", "up" or "over"
  attempts,  \* attempts begun
  ending,    \* the notice is on its way
  deaf       \* the attempt and its peer wait for each other

connectionVars == <<phase, attempts, ending, deaf>>

ConnectionInit == phase = "idle" /\ attempts = 0 /\ ending = FALSE /\ deaf = FALSE

Begin ==
  /\ phase = "idle"
  /\ phase' = "trying"
  /\ attempts' = attempts + 1
  /\ UNCHANGED <<ending, deaf>>

\* A refusal, which may set the notice on its way.
Refuse ==
  /\ phase = "trying"
  /\ phase' = "idle"
  /\ ending' \in {ending, TRUE}
  /\ deaf' = FALSE
  /\ UNCHANGED attempts

\* An object whose notice is on its way is not admitted any more.
Admit ==
  /\ phase = "trying" /\ ~ending
  /\ phase' = "up"
  /\ UNCHANGED <<attempts, ending, deaf>>

\* The connection is given up; the notice will follow.
GiveUp ==
  /\ phase \in {"trying", "up"} /\ ~ending
  /\ ending' = TRUE
  /\ UNCHANGED <<phase, attempts, deaf>>

\* The attempt begins or ceases to wait for its peer in vain.
Stall ==
  /\ phase = "trying" /\ ~ending
  /\ deaf' = ~deaf
  /\ UNCHANGED <<phase, attempts, ending>>

\* The notice.
End ==
  /\ phase \in {"trying", "up"} \/ ending
  /\ phase' = "over"
  /\ ending' = FALSE /\ deaf' = FALSE
  /\ UNCHANGED attempts

ConnectionNext == Begin \/ Refuse \/ Admit \/ GiveUp \/ Stall \/ End

\* An attempt may not stay unanswered, nor the notice on its way.
ConnectionSpec ==
  /\ ConnectionInit
  /\ [][ConnectionNext]_connectionVars
  /\ WF_connectionVars(phase = "trying" /\ ~deaf /\ (Refuse \/ Admit \/ End))
  /\ WF_connectionVars(ending /\ End)
=============================================================================
