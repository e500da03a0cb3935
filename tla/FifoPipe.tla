------------------------------ MODULE FifoPipe ------------------------------
(***************************************************************************)
(* What the write path of a connection promises its callers, whatever the  *)
(* queueing behind it: messages are numbered as they are accepted, the     *)
(* peer receives 1, 2, 3, ... with no gap, repetition or reordering, and   *)
(* closing throws away everything that is not yet being transmitted.  At   *)
(* most one message is being transmitted when the pipe shuts; that one may *)
(* still arrive, or be lost.                                               *)
(***************************************************************************)
EXTENDS Naturals, Sequences

VARIABLES
  open,       \* the pipe still accepts messages
  accepted,   \* messages 1..accepted have been accepted and not thrown away
  received    \* what the peer has received, in order

pipeVars == <<open, accepted, received>>

PipeInit ==
  /\ open = FALSE
  /\ accepted = 0
  /\ received = <<>>

\* A connection that has not started yet accepts nothing.
Open ==
  /\ ~open /\ accepted = 0 /\ received = <<>>
  /\ open' = TRUE
  /\ UNCHANGED <<accepted, received>>

Put ==
  /\ open
  /\ accepted' = accepted + 1
  /\ UNCHANGED <<open, received>>

Get ==
  /\ Len(received) < accepted
  /\ received' = Append(received, Len(received) + 1)
  /\ UNCHANGED <<open, accepted>>

Shut ==
  /\ open
  /\ open' = FALSE
  /\ accepted' \in {Len(received), Len(received) + 1}
  /\ accepted' <= accepted
  /\ UNCHANGED received

Lose ==
  /\ ~open
  /\ accepted = Len(received) + 1
  /\ accepted' = Len(received)
  /\ UNCHANGED <<open, received>>

PipeNext == Open \/ Put \/ Get \/ Shut \/ Lose

PipeSpec == PipeInit /\ [][PipeNext]_pipeVars
=============================================================================
