----------------------------- MODULE FrameQueue -----------------------------
(***************************************************************************)
(* What the PCM ring promises its two threads: a queue of at most Capacity *)
(* frames that keeps the newest ones.  An input never waits and is never   *)
(* refused; what does not fit pushes the oldest frames out.  An output     *)
(* takes frames from the front, in order, each at most once.               *)
(***************************************************************************)
EXTENDS Integers, Sequences

CONSTANTS Frame, Capacity

VARIABLES
  queue,    \* the frames held, oldest first
  packet,   \* what the last step put in
  output    \* what the last step took out

vars == <<queue, packet, output>>

\* The last Capacity frames of a sequence.
Newest(s) ==
  IF Len(s) <= Capacity THEN s
  ELSE [i \in 1 .. Capacity |-> s[Len(s) - Capacity + i]]

Init == queue = <<>> /\ packet = <<>> /\ output = <<>>

Put ==
  /\ packet' \in Seq(Frame) /\ output' = <<>>
  /\ queue' = Newest(queue \o packet')

Get ==
  /\ packet' = <<>>
  /\ \E n \in 0 .. Len(queue) :
       /\ output' = [i \in 1 .. n |-> queue[i]]
       /\ queue' = [i \in 1 .. Len(queue) - n |-> queue[n + i]]

Empty == packet' = <<>> /\ output' = <<>> /\ queue' = <<>>

Next == Put \/ Get \/ Empty

Spec == Init /\ [][Next]_vars
=============================================================================
