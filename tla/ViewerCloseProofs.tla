-------------------------- MODULE ViewerCloseProofs --------------------------
(***************************************************************************)
(* Proofs about ViewerClose: no recording is being written when the window *)
(* is gone, and a cancelled update check does not sleep, whatever messages *)
(* and boxes nest and however many there are.                              *)
(***************************************************************************)
EXTENDS ViewerClose, SequenceTheorems, TLAPS

-----------------------------------------------------------------------------
(* The stack *)

LEMMA Alone ==
  ASSUME NEW f \in Frames, Ground(f)
  PROVE  Shape(<<f>>) /\ Head(<<f>>) = f /\ (Reporting(<<f>>) => f.at = "report")
  BY DEF Shape, Reporting

LEMMA Replaced ==
  ASSUME NEW s, Shape(s), Ground(Head(s)), NEW f \in Frames
  PROVE  <<f>> \o Tail(s) = <<f>>
<1>1. Tail(s) \in Seq(Frames) /\ Len(Tail(s)) = 0
  <2>1. s \in Seq(Frames) /\ Len(s) > 0 /\ Head(s) = s[1] /\ 1 \in 1 .. Len(s)
    BY DEF Shape
  <2>2. 1 = Len(s)
    BY <2>1 DEF Shape
  <2>3. QED
    BY <2>1, <2>2
<1>2. Tail(s) = << >>
  BY <1>1, EmptySeq
<1>3. <<f>> \in Seq(Frames)
  OBVIOUS
<1>4. QED
  BY <1>2, <1>3, ConcatEmptySeq

LEMMA Pushed ==
  ASSUME NEW s, Shape(s), Head(s).at \in Pumps, NEW f \in Frames, ~Ground(f)
  PROVE  /\ Shape(<<f>> \o s) /\ Head(<<f>> \o s) = f
         /\ Reporting(<<f>> \o s) => Reporting(s)
  BY DEF Shape, Reporting

LEMMA Popped ==
  ASSUME NEW s, Shape(s), Len(s) > 1
  PROVE  /\ Shape(Tail(s)) /\ Head(Tail(s)).at \in Pumps
         /\ Reporting(Tail(s)) => Reporting(s)
  BY DEF Shape, Reporting

LEMMA Resumes ==
  ASSUME NEW s, Shape(s), Head(s).at \in Pumps
  PROVE  /\ Shape(Resumed(s)) /\ Head(Resumed(s)).at \in Pumps \cup {"test"}
         /\ Reporting(Resumed(s)) => Reporting(s)
  BY DEF Shape, Reporting, Resumed, Frame, Frames, Labels, Bases, Ground

LEMMA HasCaller ==
  ASSUME NEW s, Shape(s), ~Ground(Head(s))
  PROVE  Len(s) > 1
  BY DEF Shape

-----------------------------------------------------------------------------
(* What the UI thread's steps do to the stack *)

\* The stack keeps its shape, the drain reports nothing new, and the end is not
\* reached.
Calm ==
  /\ Shape(stack') /\ (Reporting(stack') => Reporting(stack))
  /\ Top'.at \notin Ending

LEMMA HandledCalm ==
  ASSUME Shape(stack), Top.at \in Pumps, Handled
  PROVE  Calm
<1>1. /\ Shape(stack') /\ Head(stack').at \in Pumps \cup {"test"}
      /\ Reporting(stack') => Reporting(stack)
  BY Resumes DEF Handled, Top
<1>2. QED
  BY <1>1 DEF Calm, Top, Pumps, Ending

LEMMA ReturnCalm ==
  ASSUME Shape(stack), Len(stack) > 1, Return
  PROVE  Calm
<1>1. /\ Shape(Tail(stack)) /\ Head(Tail(stack)).at \in Pumps
      /\ Reporting(Tail(stack)) => Reporting(stack)
  BY Popped
<1>2. /\ Shape(stack') /\ Head(stack').at \in Pumps \cup {"test"}
      /\ Reporting(stack') => Reporting(Tail(stack))
  BY <1>1, Resumes DEF Return
<1>3. QED
  BY <1>1, <1>2 DEF Calm, Top, Pumps, Ending

LEMMA CallCalm ==
  ASSUME Shape(stack), Top.at \in Pumps, NEW at, NEW for,
         Frame(at, for) \in Frames, at \notin Bases \cup Polls, Call(at, for)
  PROVE  Calm
<1>1. ~Ground(Frame(at, for))
  BY DEF Frame, Ground
<1>2. /\ Shape(stack') /\ Head(stack') = Frame(at, for)
      /\ Reporting(stack') => Reporting(stack)
  BY <1>1, Pushed DEF Call, Top
<1>3. QED
  BY <1>2 DEF Calm, Top, Frame, Bases, Ending

LEMMA BecomeBase ==
  ASSUME Shape(stack), Top.at \in Bases, NEW at \in Bases, Become(at)
  PROVE  Shape(stack') /\ Top'.at = at /\ ~Reporting(stack')
<1>1. Top \in Frames
  BY DEF Shape, Top
<1>2. Frame(at, Top.for) \in Frames /\ Frame(at, Top.for).at = at
  BY <1>1 DEF Frame, Frames, Labels
<1>3. stack' = <<Frame(at, Top.for)>>
  BY <1>2, Replaced DEF Become, Top, Ground
<1>4. QED
  BY <1>2, <1>3, Alone DEF Top, Bases, Ground

\* The last boxes and calls go back to the loop that dispatched their message.
LEMMA HasLoop ==
  ASSUME Shape(stack), \/ Top.at \in {"yield", "take", "ask", "offer"}
                       \/ Top.at \in Polls /\ Top.for # "drain"
  PROVE  Len(stack) > 1
<1>1. Top.at \notin Bases
  BY DEF Bases, Polls
<1>2. ~(Top.at \in Polls /\ Top.for = "drain")
  BY DEF Polls
<1>3. QED
  BY <1>1, <1>2, HasCaller DEF Top, Ground

-----------------------------------------------------------------------------
(* What calm steps keep *)

LEMMA SavedKept ==
  ASSUME Saved, Calm \/ UNCHANGED stack, busy' => busy, UNCHANGED window
  PROVE  Saved'
  BY DEF Saved, Calm, Top

LEMMA AwakenedKept ==
  ASSUME Awakened, Calm \/ UNCHANGED stack, ~At("notify") \/ UNCHANGED stack,
         UNCHANGED <<update, mutex, cancelled>>
  PROVE  Awakened'
  BY DEF Awakened, Calm, Top, At, Ending

LEMMA PostedTickets ==
  ASSUME Tickets, UNCHANGED serial, NEW kind \in {"close", "ended", "update"},
         queue' = queue \/ queue' = Posted(kind)
  PROVE  Tickets'
<1>1. Message(kind, 0) \in Messages
  BY DEF Message, Messages
<1>2. QED
  BY <1>1 DEF Tickets, Posted, With

-----------------------------------------------------------------------------
(* Messages *)

LEMMA BeginCalm ==
  ASSUME Shape(stack), Top.at \in Pumps, NEW ticket \in Nat, BeginRecordingClose(ticket)
  PROVE  Calm /\ UNCHANGED busy
<1>1. CASE running
  <2>1. Call("ask", ticket) /\ UNCHANGED busy
    BY <1>1 DEF BeginRecordingClose, recorder
  <2>2. Frame("ask", ticket) \in Frames
    BY DEF Frame, Frames, Labels, Pumps
  <2>3. "ask" \notin Bases \cup Polls
    BY DEF Bases, Polls
  <2>4. QED
    BY <2>1, <2>2, <2>3, CallCalm
<1>2. CASE ~running
  BY <1>2, HandledCalm DEF BeginRecordingClose
<1>3. QED
  BY <1>1, <1>2

LEMMA CloseSteps ==
  ASSUME Shape(stack), Top.at \in Pumps, HandleClose
  PROVE  /\ Calm /\ UNCHANGED busy
         /\ UNCHANGED window \/ ~busy
<1>1. CASE Defers /\ DeferClosePrompt
  BY <1>1, HandledCalm DEF DeferClosePrompt, recorder
<1>2. CASE ~Defers /\ MayClose /\ Close
  <2>1. Calm
    <3>1. CASE Handled
      BY <3>1, HandledCalm
    <3>2. CASE Call("yield", "none")
      <4>1. Frame("yield", "none") \in Frames /\ "yield" \notin Bases \cup Polls
        BY DEF Frame, Frames, Labels, Bases, Polls
      <4>2. QED
        BY <3>2, <4>1, CallCalm
    <3>3. QED
      BY <1>2, <3>1, <3>2 DEF Close
  <2>2. QED
    BY <1>2, <2>1 DEF Close, MayClose, recorder
<1>3. CASE /\ ~Defers /\ ~MayClose /\ (prompt \/ pending) /\ Handled
           /\ UNCHANGED <<atomics, recorder, flags, defer, window>>
  BY <1>3, HandledCalm DEF recorder
<1>4. CASE /\ ~Defers /\ ~MayClose /\ ~prompt /\ ~pending /\ BeginRecordingClose(0)
           /\ UNCHANGED <<atomics, defer, window>>
  BY <1>4, BeginCalm
<1>5. QED
  BY <1>1, <1>2, <1>3, <1>4 DEF HandleClose

LEMMA MessageSteps ==
  ASSUME Shape(stack), Top.at \in Pumps, NEW ticket \in Nat,
         HandleEnded \/ HandleReady(ticket) \/ HandleUpdate
  PROVE  Calm /\ UNCHANGED <<busy, window>>
<1>1. CASE HandleEnded
  BY <1>1, HandledCalm DEF HandleEnded, recorder
<1>2. CASE HandleReady(ticket)
  <2>1. CASE BeginRecordingClose(ticket)
    BY <1>2, <2>1, BeginCalm DEF HandleReady, recorder
  <2>2. CASE Handled
    <3>1. Calm
      BY <2>2, HandledCalm
    <3>2. UNCHANGED <<busy, window>>
      BY <1>2, <2>2 DEF HandleReady, recorder, BeginRecordingClose
    <3>3. QED
      BY <3>1, <3>2
  <2>3. QED
    BY <1>2, <2>1, <2>2 DEF HandleReady
<1>3. CASE HandleUpdate
  <2>1. CASE Handled
    BY <1>3, <2>1, HandledCalm DEF HandleUpdate, recorder
  <2>2. CASE Call("take", "none")
    <3>1. Frame("take", "none") \in Frames /\ "take" \notin Bases \cup Polls
      BY DEF Frame, Frames, Labels, Bases, Polls
    <3>2. QED
      BY <1>3, <2>2, <3>1, CallCalm DEF HandleUpdate, recorder
  <2>3. QED
    BY <1>3, <2>1, <2>2 DEF HandleUpdate
<1>4. QED
  BY <1>1, <1>2, <1>3

LEMMA DispatchKeeps ==
  ASSUME IInv, Dispatch
  PROVE  IInv'
<1>1. PICK m :
        /\ m \in Messages /\ m.ticket \in Nat
        /\ \/ HandleClose
           \/ HandleEnded \/ HandleReady(m.ticket) \/ HandleUpdate
  <2>1. Head(queue) \in Messages /\ Head(queue).ticket \in Nat
    <3>1. queue \in Seq(Messages) /\ queue # <<>>
      BY DEF IInv, Tickets, Dispatch
    <3>2. Head(queue) \in Messages
      BY <3>1
    <3>3. QED
      BY <3>2 DEF Messages
  <2>2. QED
    BY <2>1 DEF Dispatch
<1>2. Shape(stack) /\ Top.at \in Pumps
  BY DEF IInv, Dispatch
<1>3. /\ Calm /\ UNCHANGED busy
      /\ UNCHANGED window \/ ~busy
  BY <1>1, <1>2, CloseSteps, MessageSteps
<1>4. Tickets'
  <2>1. serial' \in Nat
    <3>1. CASE HandleClose
      <4>1. serial' \in {serial, serial + 1}
        BY <3>1 DEF HandleClose, DeferClosePrompt, Close, defer
      <4>2. QED
        BY <4>1 DEF IInv, Tickets
    <3>2. CASE HandleEnded \/ HandleReady(m.ticket) \/ HandleUpdate
      BY <3>2 DEF HandleEnded, HandleReady, Retired, HandleUpdate, defer, IInv, Tickets
    <3>3. QED
      BY <1>1, <3>1, <3>2
  <2>2. queue' \in {<<>>, Tail(queue), Append(Tail(queue), Message("close", 0))}
    BY DEF Dispatch, With
  <2>3. Message("close", 0) \in Messages
    BY DEF Message, Messages
  <2>4. Tail(queue) \in Seq(Messages)
    BY DEF IInv, Tickets, Dispatch
  <2>5. queue' \in Seq(Messages)
    <3>1. <<>> \in Seq(Messages)
      OBVIOUS
    <3>2. Append(Tail(queue), Message("close", 0)) \in Seq(Messages)
      BY <2>3, <2>4
    <3>3. QED
      BY <2>2, <2>4, <3>1, <3>2, Zenon
  <2>6. QED
    BY <2>1, <2>5 DEF Tickets
<1>5. Saved'
  <2>1. CASE ~busy
    BY <1>3, <2>1 DEF Saved
  <2>2. CASE UNCHANGED window
    BY <1>3, <2>2, SavedKept DEF IInv
  <2>3. QED
    BY <1>3, <2>1, <2>2
<1>6. Awakened'
  <2>1. ~At("notify")
    BY <1>2 DEF At, Pumps
  <2>2. UNCHANGED <<update, mutex, cancelled>>
    BY DEF Dispatch
  <2>3. QED
    BY <1>3, <2>1, <2>2, AwakenedKept DEF IInv
<1>7. QED
  BY <1>3, <1>4, <1>5, <1>6 DEF IInv, Calm

-----------------------------------------------------------------------------
(* Polls *)

\* The last poll of the drain only goes on to DestroyWindow once the recorder is done.
LEMMA PollReturnsStep ==
  ASSUME Shape(stack), NEW ok \in BOOLEAN, NEW caller, NEW rest,
         caller = "drain" /\ ok => ~busy,
         PollReturns(ok, caller, rest),
         caller # "drain" => /\ Shape(rest) /\ Head(rest).at \in Pumps
                             /\ Reporting(rest) => Reporting(stack)
  PROVE  /\ Shape(stack') /\ (Reporting(stack') => Reporting(stack))
         /\ Top'.at \in Ending => Top'.at = "destroy" /\ ~busy
<1>1. CASE caller = "drain"
  <2>1. PICK at \in {"destroy", "peek"} : /\ stack' = <<Frame(at, "none")>>
                                          /\ at = "destroy" => ~busy
    BY <1>1 DEF PollReturns
  <2>2. Frame(at, "none") \in Frames /\ Frame(at, "none").at = at /\ Ground(Frame(at, "none"))
    BY DEF Frame, Frames, Labels, Bases, Ground
  <2>3. QED
    BY <2>1, <2>2, Alone DEF Top, Ending
<1>2. CASE caller # "drain"
  <2>1. stack' = Resumed(rest)
    BY <1>2 DEF PollReturns
  <2>2. /\ Shape(stack') /\ Head(stack').at \in Pumps \cup {"test"}
        /\ Reporting(stack') => Reporting(rest)
    BY <1>2, <2>1, Resumes
  <2>3. QED
    BY <1>2, <2>2 DEF Top, Pumps, Ending
<1>3. QED
  BY <1>1, <1>2

\* A poll's box goes on top of the loop, or in the place of the drain.
LEMMA EnterStep ==
  ASSUME Shape(stack), NEW at \in Polls, NEW caller \in {"timer", "drain"}, Enter(at, caller),
         caller = "timer" => Top.at \in Pumps
  PROVE  /\ Shape(stack') /\ Top'.at = at
         /\ Reporting(stack') => Reporting(stack) \/ at = "report"
<1>1. Frame(at, caller) \in Frames /\ Frame(at, caller).at = at /\ Frame(at, caller).for = caller
      /\ at \notin Bases
  BY DEF Frame, Frames, Labels, Polls, Bases
<1>2. Frame(at, "drain") \in Frames /\ Frame(at, "drain").at = at /\ Frame(at, "drain").for = "drain"
  BY DEF Frame, Frames, Labels, Polls
<1>3. CASE caller = "drain"
  BY <1>2, <1>3, Alone DEF Enter, Top, Ground
<1>4. CASE caller = "timer"
  BY <1>1, <1>4, Pushed DEF Enter, Call, Top, Ground
<1>5. QED
  BY <1>3, <1>4

LEMMA AwakenedOn ==
  ASSUME Awakened, Top'.at \notin {"notify", "joinCheck"}, ~At("notify"),
         UNCHANGED <<update, mutex, cancelled>>
  PROVE  Awakened'
  BY DEF Awakened, At, Top

LEMMA PollReturnsKeeps ==
  ASSUME IInv, NEW ok \in BOOLEAN, NEW caller, NEW rest,
         caller = "drain" /\ ok => ~busy,
         PollReturns(ok, caller, rest), ~At("notify"),
         UNCHANGED <<busy, window, serial, update, mutex, cancelled>>,
         caller # "drain" => /\ Shape(rest) /\ Head(rest).at \in Pumps
                             /\ Reporting(rest) => Reporting(stack)
  PROVE  IInv'
<1>1. /\ Shape(stack') /\ (Reporting(stack') => Reporting(stack))
      /\ Top'.at \in Ending => Top'.at = "destroy" /\ ~busy
  BY PollReturnsStep DEF IInv
<1>2. Tickets'
  <2>1. queue' = queue \/ queue' = Posted("close")
    BY DEF PollReturns
  <2>2. QED
    BY <2>1, PostedTickets DEF IInv
<1>3. Saved'
  BY <1>1 DEF IInv, Saved
<1>4. Awakened'
  <2>1. Top'.at \notin {"notify", "joinCheck"}
    BY <1>1 DEF Ending
  <2>2. QED
    BY <2>1, AwakenedOn DEF IInv
<1>5. QED
  BY <1>1, <1>2, <1>3, <1>4 DEF IInv

LEMMA PollKeeps ==
  ASSUME IInv, NEW caller \in {"timer", "drain"}, Poll(caller), ~At("notify"),
         UNCHANGED <<busy, window, serial, update, mutex, cancelled>>,
         caller = "timer" => Top.at \in Pumps
  PROVE  IInv'
<1>1. CASE ~busy /\ PollReturns(TRUE, caller, stack)
  BY <1>1, PollReturnsKeeps DEF IInv, Top
<1>2. ASSUME NEW at \in Polls, at = "report" => ~busy, Enter(at, caller), UNCHANGED queue
      PROVE  IInv'
  <2>1. /\ Shape(stack') /\ Top'.at = at
        /\ Reporting(stack') => Reporting(stack) \/ at = "report"
    BY <1>2, EnterStep DEF IInv
  <2>2. Top'.at \notin Ending
    BY <2>1 DEF Ending, Polls
  <2>3. Saved'
    BY <1>2, <2>1, <2>2 DEF IInv, Saved
  <2>4. Awakened'
    <3>1. Top'.at \notin {"notify", "joinCheck"}
      BY <2>2 DEF Ending
    <3>2. QED
      BY <3>1, AwakenedOn DEF IInv
  <2>5. Tickets'
    BY <1>2 DEF IInv, Tickets
  <2>6. QED
    BY <2>1, <2>3, <2>4, <2>5 DEF IInv
<1>3. CASE ~busy /\ Enter("report", caller) /\ UNCHANGED queue
  BY <1>2, <1>3 DEF Polls
<1>4. CASE \/ Enter("late", caller) /\ UNCHANGED queue
           \/ Enter("recheck", caller) /\ UNCHANGED queue
  BY <1>2, <1>4 DEF Polls
<1>5. QED
  BY <1>1, <1>3, <1>4 DEF Poll

\* A poll that comes back from a box, or reads busy once more.
LEMMA PollAgainKeeps ==
  ASSUME IInv, Top.at \in Polls, NEW ok \in BOOLEAN, Top.for = "drain" /\ ok => ~busy,
         PollReturns(ok, Top.for, Tail(stack)),
         UNCHANGED <<busy, window, serial, update, mutex, cancelled>>
  PROVE  IInv'
<1>1. ~At("notify")
  BY DEF At, Polls
<1>2. ASSUME Top.for # "drain"
      PROVE  /\ Shape(Tail(stack)) /\ Head(Tail(stack)).at \in Pumps
             /\ Reporting(Tail(stack)) => Reporting(stack)
  <2>1. Len(stack) > 1
    BY <1>2, HasLoop DEF IInv
  <2>2. QED
    BY <2>1, Popped DEF IInv
<1>3. QED
  BY <1>1, <1>2, PollReturnsKeeps

LEMMA RecheckKeeps ==
  ASSUME IInv, Recheck
  PROVE  IInv'
<1>1. Top.at \in Polls /\ PollReturns(~busy, Top.for, Tail(stack))
  BY DEF Recheck, At, Polls
<1>2. UNCHANGED <<busy, window, serial, update, mutex, cancelled>>
  BY DEF Recheck, recorder, defer, check
<1>3. PICK ok \in BOOLEAN : ok = ~busy
  OBVIOUS
<1>4. PollReturns(ok, Top.for, Tail(stack))
  BY <1>1, <1>3
<1>5. QED
  BY <1>1, <1>2, <1>3, <1>4, PollAgainKeeps

LEMMA TimerKeeps ==
  ASSUME IInv, Timer \/ DrainPolls
  PROVE  IInv'
<1>1. UNCHANGED <<busy, window, serial, update, mutex, cancelled>>
  BY DEF Timer, DrainPolls, recorder, defer, check
<1>2. ~At("notify")
  BY DEF Timer, DrainPolls, At, Pumps
<1>3. PICK caller \in {"timer", "drain"} :
        Poll(caller) /\ (caller = "timer" => Top.at \in Pumps)
  BY DEF Timer, DrainPolls
<1>4. QED
  BY <1>1, <1>2, <1>3, PollKeeps

-----------------------------------------------------------------------------
(* The other steps of the UI thread *)

LEMMA CalmKeeps ==
  ASSUME IInv, Calm \/ UNCHANGED stack, ~At("notify") \/ UNCHANGED stack, busy' => busy,
         UNCHANGED <<window, update, mutex, cancelled>>, Tickets'
  PROVE  IInv'
<1>1. Saved'
  BY SavedKept DEF IInv
<1>2. Awakened'
  BY AwakenedKept DEF IInv
<1>3. Shape(stack')
  BY DEF IInv, Calm
<1>4. QED
  BY <1>1, <1>2, <1>3 DEF IInv

LEMMA ReturnKeeps ==
  ASSUME IInv, Top.at \in {"yield", "take", "ask", "offer"}, Return,
         UNCHANGED <<busy, window, serial, queue, update, mutex, cancelled>>
  PROVE  IInv'
<1>1. Calm
  BY HasLoop, ReturnCalm DEF IInv
<1>2. ~At("notify")
  BY DEF At
<1>3. Tickets'
  BY DEF IInv, Tickets
<1>4. QED
  BY <1>1, <1>2, <1>3, CalmKeeps

\* From one of the thread's own calls to the next.
LEMMA BaseKeeps ==
  ASSUME IInv, Top.at \in Bases, NEW at \in Bases, Become(at),
         at \in Ending => ~busy, UNCHANGED <<busy, serial>>,
         UNCHANGED window \/ ~busy, queue' = queue \/ queue' = <<>>, Awakened'
  PROVE  IInv'
<1>1. Shape(stack') /\ Top'.at = at /\ ~Reporting(stack')
  BY BecomeBase DEF IInv
<1>2. Tickets'
  <2>1. <<>> \in Seq(Messages)
    OBVIOUS
  <2>2. queue' \in Seq(Messages)
    BY <2>1, Zenon DEF IInv, Tickets
  <2>3. QED
    BY <2>2 DEF IInv, Tickets
<1>3. Saved'
  BY <1>1 DEF IInv, Saved
<1>4. QED
  BY <1>1, <1>2, <1>3 DEF IInv

LEMMA TakeKeeps ==
  ASSUME IInv, Take
  PROVE  IInv'
<1>1. /\ Top.at = "take" /\ Shape(stack)
      /\ UNCHANGED <<busy, window, serial, queue, update, mutex, cancelled>>
  BY DEF IInv, Take, At, recorder, defer, check
<1>2. CASE Return
  BY <1>1, <1>2, ReturnKeeps
<1>3. CASE Become("offer")
  <2>1. Len(stack) > 1
    BY <1>1, HasLoop
  <2>2. /\ Shape(Tail(stack)) /\ Head(Tail(stack)).at \in Pumps
        /\ Reporting(Tail(stack)) => Reporting(stack)
    BY <1>1, <2>1, Popped
  <2>3. Top \in Frames
    BY <1>1 DEF Shape, Top
  <2>4. Frame("offer", Top.for) \in Frames /\ Frame("offer", Top.for).at = "offer"
    BY <2>3 DEF Frame, Frames, Labels, Pumps
  <2>5. "offer" \notin Bases \cup Polls \cup Ending
    BY DEF Bases, Polls, Ending
  <2>6. /\ Shape(stack') /\ Head(stack').at = "offer"
        /\ Reporting(stack') => Reporting(Tail(stack))
    BY <1>3, <2>2, <2>4, <2>5, Pushed DEF Become, Ground
  <2>7. Calm
    BY <2>2, <2>5, <2>6 DEF Calm, Top
  <2>8. ~At("notify")
    BY <1>1 DEF At
  <2>9. Tickets'
    BY <1>1 DEF IInv, Tickets
  <2>10. QED
    BY <1>1, <2>7, <2>8, <2>9, CalmKeeps
<1>4. QED
  BY <1>2, <1>3 DEF Take

LEMMA AnswerLateKeeps ==
  ASSUME IInv, AnswerLate
  PROVE  IInv'
<1>1. /\ Top.at = "late" /\ Shape(stack)
      /\ UNCHANGED <<busy, window, serial, queue, update, mutex, cancelled>>
  BY DEF IInv, AnswerLate, At, recorder, defer, check
<1>2. ~At("notify")
  BY <1>1 DEF At
<1>3. Tickets'
  BY <1>1 DEF IInv, Tickets
<1>4. CASE stack' = <<Frame("terminated", "none")>>
  <2>1. /\ Frame("terminated", "none") \in Frames /\ "terminated" \in Bases
        /\ Frame("terminated", "none").at = "terminated"
    BY DEF Frame, Frames, Labels, Bases
  <2>2. Calm
    BY <1>4, <2>1, Alone DEF Calm, Top, Ending, Ground
  <2>3. QED
    BY <1>1, <1>2, <1>3, <2>2, CalmKeeps
<1>5. CASE Become("recheck")
  <2>1. Top \in Frames
    BY <1>1 DEF Shape, Top
  <2>2. Frame("recheck", Top.for) \in Frames /\ Frame("recheck", Top.for).at = "recheck"
        /\ Frame("recheck", Top.for).for = Top.for
    BY <2>1 DEF Frame, Frames, Labels, Polls
  <2>3. "recheck" \notin Bases \cup Ending /\ "recheck" \in Polls
    BY DEF Bases, Ending, Polls
  <2>4. CASE Top.for # "drain"
    <3>1. Len(stack) > 1
      BY <1>1, <2>4, HasLoop DEF Polls
    <3>2. /\ Shape(Tail(stack)) /\ Head(Tail(stack)).at \in Pumps
          /\ Reporting(Tail(stack)) => Reporting(stack)
      BY <1>1, <3>1, Popped
    <3>3. /\ Shape(stack') /\ Head(stack').at = "recheck"
          /\ Reporting(stack') => Reporting(Tail(stack))
      BY <1>5, <2>2, <2>3, <2>4, <3>2, Pushed DEF Become, Ground
    <3>4. Calm
      BY <2>3, <3>2, <3>3 DEF Calm, Top
    <3>5. QED
      BY <1>1, <1>2, <1>3, <3>4, CalmKeeps
  <2>5. CASE Top.for = "drain"
    <3>1. Ground(Top)
      BY <1>1, <2>5 DEF Ground, Polls
    <3>2. stack' = <<Frame("recheck", Top.for)>>
      BY <1>1, <1>5, <2>2, <3>1, Replaced DEF Become, Top
    <3>3. Ground(Frame("recheck", Top.for))
      BY <2>2, <2>3, <2>5 DEF Ground
    <3>4. Shape(stack') /\ Head(stack').at = "recheck" /\ ~Reporting(stack')
      BY <2>2, <3>2, <3>3, Alone
    <3>5. Calm
      BY <2>3, <3>4 DEF Calm, Top
    <3>6. QED
      BY <1>1, <1>2, <1>3, <3>5, CalmKeeps
  <2>6. QED
    BY <2>4, <2>5
<1>6. QED
  BY <1>4, <1>5 DEF AnswerLate

\* The drain's report is only shown once the recorder is done.
LEMMA AnswerReportKeeps ==
  ASSUME IInv, AnswerReport
  PROVE  IInv'
<1>1. Top.at = "report" /\ PollReturns(TRUE, Top.for, Tail(stack))
  BY DEF AnswerReport, At
<1>2. UNCHANGED <<busy, window, serial, update, mutex, cancelled>>
  BY DEF AnswerReport, recorder, defer, check
<1>3. ASSUME Top.for = "drain"
      PROVE  ~busy
  <2>1. Ground(stack[1]) /\ stack[1] = Top /\ 1 \in 1 .. Len(stack)
    BY <1>1, <1>3 DEF IInv, Shape, Top, Ground, Polls
  <2>2. Reporting(stack)
    BY <1>1, <2>1 DEF IInv, Shape, Reporting
  <2>3. QED
    BY <2>2 DEF IInv, Saved
<1>4. QED
  BY <1>1, <1>2, <1>3, PollAgainKeeps DEF Polls

LEMMA ReturningKeeps ==
  ASSUME IInv, Yield \/ AnswerAsk \/ AnswerOffer
  PROVE  IInv'
<1>1. Top.at \in {"yield", "ask", "offer"} /\ Return
  BY DEF Yield, AnswerAsk, AnswerOffer, At
<1>2. UNCHANGED <<busy, window, serial, queue, update, mutex, cancelled>>
  BY DEF Yield, AnswerAsk, AnswerOffer, Retired, recorder, defer, check
<1>3. QED
  BY <1>1, <1>2, ReturnKeeps

\* The loop's condition, the drain, and what follows them up to the process's end.
LEMMA LoopKeeps ==
  ASSUME IInv, Test \/ Drain \/ Peeked
  PROVE  IInv'
<1>1. PICK at \in {"get", "drain", "poll", "peek", "destroy"} :
        Become(at) /\ (at = "destroy" => ~busy)
  BY DEF Test, Drain, Peeked
<1>2. Top.at \in {"test", "drain", "peek"} /\ Shape(stack)
  BY DEF Test, Drain, Peeked, At, IInv
<1>3. UNCHANGED <<busy, serial, window, queue, update, mutex, cancelled>>
  BY DEF Test, Drain, Peeked, recorder, defer, check
<1>4. at \in Bases /\ Top.at \in Bases
  BY <1>1, <1>2 DEF Bases
<1>5. Top'.at = at
  BY <1>1, <1>2, <1>4, BecomeBase
<1>6. Awakened'
  <2>1. Top'.at \notin {"notify", "joinCheck"} /\ ~At("notify")
    BY <1>1, <1>2, <1>5 DEF At
  <2>2. QED
    BY <1>3, <2>1, AwakenedOn DEF IInv
<1>7. at \in Ending => ~busy
  BY <1>1 DEF Ending
<1>8. QED
  BY <1>1, <1>3, <1>4, <1>6, <1>7, BaseKeeps

LEMMA DestroyKeeps ==
  ASSUME IInv, Destroy
  PROVE  IInv'
<1>1. Top.at = "destroy" /\ Shape(stack) /\ Become("cancel") /\ ~busy
  BY DEF Destroy, At, IInv, Saved, Ending
<1>2. queue' = <<>> /\ UNCHANGED <<busy, serial, update, mutex, cancelled>>
  BY DEF Destroy, recorder, check
<1>3. "cancel" \in Bases /\ Top.at \in Bases
  BY <1>1 DEF Bases
<1>4. Top'.at = "cancel"
  BY <1>1, <1>3, BecomeBase
<1>5. Awakened'
  <2>1. Top'.at \notin {"notify", "joinCheck"} /\ ~At("notify")
    BY <1>1, <1>4 DEF At
  <2>2. QED
    BY <1>2, <2>1, AwakenedOn DEF IInv
<1>6. QED
  BY <1>1, <1>2, <1>3, <1>5, BaseKeeps

\* stop_ is set while the worker does not hold the mutex: it has not tested stop_ to
\* fall asleep now, and the notification that follows wakes it if it sleeps.
LEMMA CancelKeeps ==
  ASSUME IInv, Cancel \/ NotifyAll \/ JoinCheck \/ JoinCapture
  PROVE  IInv'
<1>1. PICK at \in {"notify", "joinCheck", "joinCapture", "exited"} :
        /\ Become(at)
        /\ \/ at = "notify" /\ Cancel
           \/ at = "joinCheck" /\ NotifyAll
           \/ at = "joinCapture" /\ JoinCheck
           \/ at = "exited" /\ JoinCapture
  BY DEF Cancel, NotifyAll, JoinCheck, JoinCapture
<1>2. Top.at \in {"cancel", "notify", "joinCheck", "joinCapture"} /\ Shape(stack)
  BY DEF Cancel, MayCancel, NotifyAll, JoinCheck, JoinCapture, At, IInv
<1>3. ~busy
  BY <1>2 DEF IInv, Saved, Ending
<1>4. UNCHANGED <<busy, serial, window, queue, mutex>>
  BY DEF Cancel, NotifyAll, JoinCheck, JoinCapture, recorder, defer, check
<1>5. at \in Bases /\ Top.at \in Bases
  BY <1>1, <1>2 DEF Bases
<1>6. Top'.at = at
  BY <1>1, <1>2, <1>5, BecomeBase
<1>7. Awakened'
  <2>1. CASE at = "notify" /\ Cancel
    <3>1. update # "tested" /\ cancelled' /\ UNCHANGED update /\ Top'.at = "notify"
      BY <1>6, <2>1 DEF Cancel, MayCancel, IInv, Awakened
    <3>2. QED
      BY <3>1 DEF Awakened, At, Top
  <2>2. CASE at = "joinCheck" /\ NotifyAll
    <3>1. cancelled /\ UNCHANGED cancelled /\ update # "tested"
      BY <2>2 DEF NotifyAll, check, IInv, Awakened
    <3>2. update' # "asleep" /\ update' # "tested"
      BY <2>2, <3>1 DEF NotifyAll
    <3>3. QED
      BY <3>1, <3>2 DEF Awakened
  <2>3. CASE at \in {"joinCapture", "exited"} /\ (JoinCheck \/ JoinCapture)
    <3>1. Top'.at \notin {"notify", "joinCheck"} /\ ~At("notify")
      BY <1>6, <2>3 DEF JoinCheck, JoinCapture, At
    <3>2. UNCHANGED <<update, mutex, cancelled>>
      BY <2>3 DEF JoinCheck, JoinCapture, check
    <3>3. QED
      BY <3>1, <3>2, AwakenedOn DEF IInv
  <2>4. QED
    BY <1>1, <2>1, <2>2, <2>3
<1>8. QED
  BY <1>1, <1>3, <1>4, <1>5, <1>7, BaseKeeps

\* A recording is only started by the message loop itself.
LEMMA ToggleKeeps ==
  ASSUME IInv, ToggleRecording
  PROVE  IInv'
<1>1. /\ Top.at = "get" /\ Shape(stack) /\ Handled /\ window
      /\ UNCHANGED <<serial, window, queue, update, mutex, cancelled>>
  BY DEF ToggleRecording, At, IInv, defer, check
<1>2. Calm
  BY <1>1, HandledCalm DEF Pumps
<1>3. ~Reporting(stack)
  <2>1. Ground(stack[1]) /\ stack[1] = Top /\ 1 \in 1 .. Len(stack)
    BY <1>1 DEF Shape, Top, Ground, Bases
  <2>2. QED
    BY <1>1, <2>1 DEF Shape, Reporting
<1>4. Saved'
  BY <1>1, <1>2, <1>3 DEF Saved, Calm, Top
<1>5. Tickets'
  BY <1>1 DEF IInv, Tickets
<1>6. Awakened'
  <2>1. ~At("notify")
    BY <1>1 DEF At
  <2>2. QED
    BY <1>1, <1>2, <2>1, AwakenedKept DEF IInv
<1>7. QED
  BY <1>2, <1>4, <1>5, <1>6 DEF IInv, Calm

LEMMA SessionEndKeeps ==
  ASSUME IInv, QueryEndSession \/ EndSession
  PROVE  IInv'
<1>1. /\ Top.at \in Pumps /\ Shape(stack) /\ Handled
      /\ UNCHANGED <<busy, serial, window, update, mutex, cancelled>>
  BY DEF QueryEndSession, EndSession, IInv, recorder, defer, check
<1>2. Calm
  BY <1>1, HandledCalm
<1>3. Tickets'
  <2>1. queue' = queue \/ queue' = Posted("close")
    BY DEF QueryEndSession, EndSession
  <2>2. QED
    BY <1>1, <2>1, PostedTickets DEF IInv
<1>4. ~At("notify")
  BY <1>1 DEF At, Pumps
<1>5. QED
  BY <1>1, <1>2, <1>3, <1>4, CalmKeeps

-----------------------------------------------------------------------------
(* The other threads *)

LEMMA OthersKeep ==
  ASSUME IInv, \/ RecorderEnds \/ UserCloses \/ CaptureEnds \/ Serve \/ CaptureProceeds
  PROVE  IInv'
<1>1. UNCHANGED <<stack, window, serial, update, mutex, cancelled>> /\ (busy' => busy)
  BY DEF RecorderEnds, UserCloses, CaptureEnds, Serve, CaptureProceeds, NotifyEnded,
         Shutdown, ShutdownJoins, ErrorShown, EndRunning, PostClose, Leave, Complete,
         recorder, defer, check
<1>2. Tickets'
  <2>1. CASE Serve
    <3>1. serial \in Nat /\ queue \in Seq(Messages)
      BY DEF IInv, Tickets
    <3>2. Message("ready", serial) \in Messages
      BY <3>1 DEF Message, Messages
    <3>3. QED
      BY <1>1, <2>1, <3>1, <3>2 DEF Serve, Tickets
  <2>2. CASE ~Serve
    <3>1. PICK kind \in {"close", "ended"} : queue' = queue \/ queue' = Posted(kind)
      BY <2>2 DEF RecorderEnds, UserCloses, CaptureEnds, CaptureProceeds, NotifyEnded,
              Shutdown, ShutdownJoins, ErrorShown, EndRunning, PostClose, Leave, Complete
    <3>2. QED
      BY <1>1, <3>1, PostedTickets DEF IInv
  <2>3. QED
    BY <2>1, <2>2
<1>3. QED
  BY <1>1, <1>2, CalmKeeps

LEMMA WorkerKeeps ==
  ASSUME IInv, UpdateWorker
  PROVE  IInv'
<1>1. UNCHANGED <<stack, window, serial, busy, cancelled>>
  BY DEF UpdateWorker, worker, TestStop, Sleep, DelayOver, Awake, Fetched, Store, Tell,
         recorder, defer
<1>2. Tickets'
  <2>1. queue' = queue \/ queue' = Posted("update")
    BY DEF UpdateWorker, worker, TestStop, Sleep, DelayOver, Awake, Fetched, Store, Tell
  <2>2. QED
    BY <1>1, <2>1, PostedTickets DEF IInv
<1>3. Saved'
  BY <1>1, SavedKept DEF IInv
<1>4. Awakened'
  <2>1. CASE TestStop
    BY <1>1, <2>1 DEF TestStop, worker, IInv, Awakened, At, Top
  <2>2. CASE Sleep
    BY <1>1, <2>2 DEF Sleep, worker, IInv, Awakened, At, Top
  <2>3. CASE DelayOver \/ Awake \/ Fetched \/ Store \/ Tell
    <3>1. update \notin {"tested"} /\ update' \notin {"tested", "asleep"}
      BY <2>3 DEF worker, DelayOver, Awake, Fetched, Store, Tell
    <3>2. QED
      BY <1>1, <3>1 DEF IInv, Awakened, At, Top
  <2>4. QED
    BY <2>1, <2>2, <2>3 DEF UpdateWorker
<1>5. QED
  BY <1>1, <1>2, <1>3, <1>4 DEF IInv

-----------------------------------------------------------------------------
(* The invariant and what it implies *)

LEMMA InitHolds ==
  ASSUME Init
  PROVE  IInv
<1>1. Frame("test", "none") \in Frames /\ Ground(Frame("test", "none"))
  BY DEF Frame, Frames, Labels, Bases, Ground
<1>2. stack = <<Frame("test", "none")>>
  BY DEF Init
<1>3. Shape(stack) /\ Top.at = "test"
  BY <1>1, <1>2, Alone DEF Top, Frame
<1>4. Tickets
  BY DEF Init, Tickets
<1>5. Saved
  BY DEF Init, Saved
<1>6. Awakened
  BY <1>3 DEF Init, Awakened, At
<1>7. QED
  BY <1>3, <1>4, <1>5, <1>6 DEF IInv

LEMMA NextKeeps ==
  ASSUME IInv, [Next]_vars
  PROVE  IInv'
<1>1. CASE UNCHANGED vars
  BY <1>1, AwakenedKept, SavedKept
     DEF vars, recorder, defer, check, IInv, Tickets
<1>2. CASE UserInterface \/ Peeked
  BY <1>2, DispatchKeeps, ReturningKeeps, TakeKeeps, TimerKeeps, RecheckKeeps, LoopKeeps,
     DestroyKeeps, CancelKeeps DEF UserInterface
<1>3. CASE Answer
  BY <1>3, AnswerReportKeeps, AnswerLateKeeps, ReturningKeeps DEF Answer
<1>4. CASE ToggleRecording \/ QueryEndSession \/ EndSession
  BY <1>4, ToggleKeeps, SessionEndKeeps
<1>5. CASE RecorderEnds \/ UserCloses \/ CaptureEnds \/ Serve \/ CaptureProceeds
  BY <1>5, OthersKeep
<1>6. CASE UpdateWorker
  BY <1>6, WorkerKeeps
<1>7. QED
  BY <1>1, <1>2, <1>3, <1>4, <1>5, <1>6 DEF Next

(* The stack keeps its shape, the messages their tickets, and neither the recorder *)
(* nor the update check's worker is overtaken by the thread that ends the process. *)
THEOREM Inductive == Spec => []IInv
<1>1. Init => IInv
  BY InitHolds
<1>2. IInv /\ [Next]_vars => IInv'
  BY NextKeeps
<1>3. QED
  BY <1>1, <1>2, PTL DEF Spec

(* main.cpp 9697-9773, 10497-10518: however many closes, boxes, recordings and     *)
(* session ends nest, the window and the loop are only gone when no recording is   *)
(* being written.                                                                  *)
THEOREM SavedBeforeCloseHolds == Spec => []SavedBeforeClose
<1>1. IInv => SavedBeforeClose
  BY DEF IInv, Saved, SavedBeforeClose, At, Ending
<1>2. QED
  BY <1>1, Inductive, PTL

(* UpdateCheckTask.h 85: CancelAndWait never joins a worker that sleeps through    *)
(* its delay.                                                                      *)
THEOREM CancelWakesHolds == Spec => []CancelWakes
<1>1. IInv => CancelWakes
  BY DEF IInv, Awakened, CancelWakes, At
<1>2. QED
  BY <1>1, Inductive, PTL

=============================================================================
