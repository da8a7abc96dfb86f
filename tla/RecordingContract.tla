-------------------------- MODULE RecordingContract --------------------------
(***************************************************************************)
(* What a recorder promises the viewer and the capture graph: one          *)
(* recording at a time, numbered; packets are put in while it runs, only   *)
(* by a delivery that arrived during that same recording, and each is      *)
(* taken out once; it is sealed when nothing is left in it, or after an    *)
(* error, and from then on nothing goes in; and it then ends with one      *)
(* outcome, saved only without an error and with a file that was found     *)
(* whole.  The outcome stands until the next one.                          *)
(***************************************************************************)
EXTENDS Naturals

CONSTANTS Stream, Capacity

VARIABLES
  stage,    \* of the one recording
  current,  \* its number, 0 before the first
  offered,  \* for each stream, the recording its delivery arrived in, or 0
  held,     \* packets put in and not taken out yet
  error,    \* something failed
  whole,    \* the finished file was validated
  outcome   \* of the last recording that ended

input == <<offered, held>>
truth == <<error, whole, outcome>>
vars  == <<stage, current, input, truth>>

Nothing == [s \in Stream |-> 0]

Init ==
  /\ stage = "idle" /\ current = 0 /\ offered = Nothing /\ held = Nothing
  /\ error = FALSE /\ whole = FALSE /\ outcome = "none"

\* From here on a delivery still under way belongs to an earlier recording.
Call ==
  /\ stage = "idle" /\ stage' = "called"
  /\ current' = current + 1
  /\ UNCHANGED <<input, truth>>

Begin ==
  /\ stage = "called" /\ stage' = "starting"
  /\ error' = FALSE /\ whole' = FALSE /\ outcome' = "none"
  /\ UNCHANGED <<current, input>>

\* Nothing is recorded: a format or a thread was refused.
Refuse ==
  /\ stage = "starting" /\ error
  /\ stage' = "idle" /\ outcome' = "failed"
  /\ UNCHANGED <<current, input, error, whole>>

\* What an earlier recording's error left behind is discarded.
Run ==
  /\ stage = "starting" /\ ~error /\ stage' = "running"
  /\ held' = Nothing
  /\ UNCHANGED <<current, offered, truth>>

Fail ==
  /\ stage \in {"starting", "running", "sealed"} /\ error' = TRUE
  /\ UNCHANGED <<stage, current, input, whole, outcome>>

Offer(s) ==
  /\ offered[s] = 0 /\ offered' = [offered EXCEPT ![s] = current]
  /\ UNCHANGED <<stage, current, held, truth>>

Withdraw(s) ==
  /\ offered' = [offered EXCEPT ![s] = 0]
  /\ UNCHANGED <<stage, current, held, truth>>

Put(s) ==
  /\ stage = "running" /\ offered[s] = current
  /\ \E n \in 1 .. Capacity[s] - held[s] : held' = [held EXCEPT ![s] = @ + n]
  /\ UNCHANGED <<stage, current, offered, truth>>

Take(s) ==
  /\ stage = "running" /\ held[s] > 0
  /\ held' = [held EXCEPT ![s] = @ - 1]
  /\ UNCHANGED <<stage, current, offered, truth>>

\* No packet goes in any more.  Without an error none is left behind, and there was
\* a recording to seal.
Seal ==
  /\ stage \in {"starting", "running"} /\ stage' = "sealed"
  /\ error \/ (stage = "running" /\ held = Nothing)
  /\ UNCHANGED <<current, input, truth>>

Validate ==
  /\ stage = "sealed" /\ whole' = TRUE
  /\ UNCHANGED <<stage, current, input, error, outcome>>

Tell ==
  /\ stage = "sealed" /\ stage' = "told"
  /\ \/ error /\ outcome' = "failed"
     \/ ~error /\ whole /\ outcome' = "saved"
  /\ UNCHANGED <<current, input, error, whole>>

Rest ==
  /\ stage = "told" /\ stage' = "idle"
  /\ UNCHANGED <<current, input, truth>>

Next ==
  \/ Call \/ Begin \/ Refuse \/ Run \/ Fail \/ Seal \/ Validate \/ Tell \/ Rest
  \/ \E s \in Stream : Offer(s) \/ Withdraw(s) \/ Put(s) \/ Take(s)

Spec == Init /\ [][Next]_vars
=============================================================================
