---------------------------- MODULE MessageQueue ----------------------------
(***************************************************************************)
(* What RealtimeLogQueue.h promises: a first-in first-out queue of at most *)
(* Capacity messages.  A writer never waits; a message is refused only by  *)
(* a full queue, and a loss stands until it is reported.  The reader       *)
(* copies the oldest message while it still has its place.                 *)
(***************************************************************************)
EXTENDS Naturals, Sequences

CONSTANTS Message, Capacity, None

VARIABLES
  queue,    \* the messages held, oldest first
  lost,     \* messages were discarded since the last report
  copied    \* the message being read, or None

vars == <<queue, lost, copied>>

Init == queue = <<>> /\ lost = FALSE /\ copied = None

Put ==
  /\ Len(queue) < Capacity
  /\ \E m \in Message : queue' = Append(queue, m)
  /\ UNCHANGED <<lost, copied>>

Lose == Len(queue) = Capacity /\ lost' = TRUE /\ UNCHANGED <<queue, copied>>

Copy == copied = None /\ queue # <<>> /\ copied' = Head(queue) /\ UNCHANGED <<queue, lost>>

Take == copied # None /\ queue' = Tail(queue) /\ copied' = None /\ UNCHANGED lost

Report == lost' = FALSE /\ UNCHANGED <<queue, copied>>

Next == Put \/ Lose \/ Copy \/ Take \/ Report

Spec == Init /\ [][Next]_vars
=============================================================================
