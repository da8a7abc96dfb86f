----------------------------- MODULE ViewerClose -----------------------------
(***************************************************************************)
(* Closing the viewer (main.cpp): the UI thread's message loop with the    *)
(* message boxes nested in it, the capture thread that may end at any      *)
(* moment, the recorder that must finish its file first, and the update    *)
(* check that is cancelled last.                                           *)
(*                                                                         *)
(* The UI thread is a stack of frames.  A frame that pumps messages runs   *)
(* other handlers on top of itself.  The recorder is only busy or not      *)
(* (RecordingSession has the rest).                                        *)
(***************************************************************************)
EXTENDS Integers, Sequences

CONSTANTS
  Setups,        \* exclusive output or not, with an update check or not
  MaxCloses,     \* bound: WM_CLOSE from the user or from a settings shortcut
  MaxRecordings, \* bound: recordings started
  MaxEnds        \* bound: WM_QUERYENDSESSION and WM_ENDSESSION

ASSUME ConstantsAssumption ==
  /\ Setups \subseteq [exclusive : BOOLEAN, update : BOOLEAN]
  /\ MaxCloses \in Nat /\ MaxRecordings \in Nat /\ MaxEnds \in Nat

VARIABLES
  setup,
  running, closing, active,               \* g_running, g_presentationClosing,
                                          \* g_videoOutputThreadActive
  busy, stopping, controlsClosing,        \* the recorder: busy_, stop_; controlsClosing
  pending, drain, prompt,                 \* g_recordingClosePending, ...DrainPending,
                                          \* ...ClosePrompt
  uiPending, serial, deferred,            \* the prompt waiting for the output owner
  window, queue, stack,                   \* the viewer, its posted messages, the UI thread
  capture, outcome,                       \* the capture thread, how capture ended
  update, cancelled, mutex, result,       \* UpdateCheckTask: the worker, stop_, mutex_, result_
  closes, recordings, ends                \* counts for the bounds

atomics  == <<running, closing, active>>
recorder == <<busy, stopping, controlsClosing>>
flags    == <<pending, drain, prompt>>
defer    == <<uiPending, serial, deferred>>
check    == <<update, cancelled, mutex, result>>
counts   == <<closes, recordings, ends>>
captures == <<capture, outcome>>
vars     == <<setup, atomics, recorder, flags, defer, window, queue, stack, captures,
              check, counts>>

Frame(at, for) == [at |-> at, for |-> for]
Top       == Head(stack)
At(label) == Top.at = label

\* The message loop, the drain's PeekMessage loop, and every message box.
Pumps == {"get", "peek", "ask", "late", "report", "offer"}

Init ==
  /\ setup \in Setups
  /\ running = TRUE /\ closing = FALSE /\ active = TRUE
  /\ busy = FALSE /\ stopping = FALSE /\ controlsClosing = FALSE
  /\ pending = FALSE /\ drain = FALSE /\ prompt = FALSE
  /\ uiPending = FALSE /\ serial = 0 /\ deferred = FALSE
  /\ window = TRUE /\ queue = <<>> /\ stack = <<Frame("test", "none")>>
  /\ capture = "capturing" /\ outcome = "none"
  /\ update = (IF setup.update THEN "start" ELSE "done")
  /\ cancelled = FALSE /\ mutex = "free" /\ result = FALSE
  /\ closes = 0 /\ recordings = 0 /\ ends = 0

\* PostMessage to a window that is gone does nothing.
Message(kind, ticket) == [kind |-> kind, ticket |-> ticket]
With(msgs, kind) == IF window THEN Append(msgs, Message(kind, 0)) ELSE msgs
Posted(kind)     == With(queue, kind)

\* The top frame goes on, or calls something that pumps messages or waits.
Become(at)    == stack' = <<Frame(at, Top.for)>> \o Tail(stack)
Call(at, for) == stack' = <<Frame(at, for)>> \o stack
\* A handler returns to the loop that dispatched it; the message loop looks at its
\* condition again.
Resumed(rest) ==
  IF Len(rest) = 1 /\ rest[1].at = "get" THEN <<Frame("test", "none")>> ELSE rest
Handled == stack' = Resumed(stack)
Return  == stack' = Resumed(Tail(stack))

-----------------------------------------------------------------------------
(* The recorder, the user and Windows *)

\* The recorder's worker ends after a stop, or by itself when it fails.
RecorderEnds ==
  /\ busy /\ busy' = FALSE /\ stopping' = FALSE
  /\ UNCHANGED <<setup, atomics, controlsClosing, flags, defer, window, queue, stack,
                 captures, check, counts>>

UserCloses ==
  /\ window /\ closes < MaxCloses /\ closes' = closes + 1
  /\ queue' = Posted("close")
  /\ UNCHANGED <<setup, atomics, recorder, flags, defer, window, stack, captures, check,
                 recordings, ends>>

\* ToggleRecording.  Shutdown has cleared the formats a later Start would need.
ToggleRecording ==
  /\ At("get") /\ window
  /\ \/ busy /\ stopping' = TRUE /\ UNCHANGED <<busy, recordings>>
     \/ /\ ~busy /\ ~controlsClosing /\ capture \in {"capturing", "notify", "shutdown"}
        /\ recordings < MaxRecordings /\ recordings' = recordings + 1
        /\ busy' = TRUE /\ UNCHANGED stopping
  /\ Handled
  /\ UNCHANGED <<setup, atomics, controlsClosing, flags, defer, window, queue, captures,
                 check, closes, ends>>

\* WM_QUERYENDSESSION: a recording is stopped, and Windows told to wait for it.
QueryEndSession ==
  /\ Top.at \in Pumps /\ window /\ ends < MaxEnds /\ ends' = ends + 1
  /\ busy /\ stopping' = TRUE /\ Handled
  /\ UNCHANGED <<setup, atomics, busy, controlsClosing, flags, defer, window, queue,
                 captures, check, closes, recordings>>

\* WM_ENDSESSION: it may come though a recording is not finished.
EndSession ==
  /\ Top.at \in Pumps /\ window /\ ends < MaxEnds /\ ends' = ends + 1
  /\ controlsClosing' = TRUE /\ stopping' = busy /\ running' = FALSE
  /\ queue' = Posted("close") /\ Handled
  /\ UNCHANGED <<setup, closing, active, busy, flags, defer, window, captures, check,
                 closes, recordings>>

-----------------------------------------------------------------------------
(* Messages *)

\* A close is decided: no recording starts any more, and this one is stopped.
StopForClose == controlsClosing' = TRUE /\ stopping' = busy

\* Wrong variant: a close that is already under way counts as done.
MayCloseTwice == ~prompt /\ (~busy \/ pending)

\* BeginRecordingClose returns TRUE.
MayClose == ~prompt /\ ~busy

\* BeginRecordingClose: ask while the viewer runs, else stop at once.
BeginRecordingClose(ticket) ==
  IF running
    THEN /\ prompt' = TRUE /\ Call("ask", ticket)
         /\ UNCHANGED <<recorder, pending, drain>>
    ELSE /\ pending' = TRUE /\ StopForClose /\ Handled
         /\ UNCHANGED <<busy, drain, prompt>>

\* DeferPresentationUi: exclusive output leaves the full screen before a prompt.
Defers == setup.exclusive /\ active /\ busy /\ ~pending /\ ~prompt

DeferClosePrompt ==
  /\ Handled /\ UNCHANGED <<atomics, recorder, flags, window>>
  /\ IF running /\ ~closing
       THEN uiPending' = TRUE /\ serial' = serial + 1 /\ deferred' = TRUE
       ELSE UNCHANGED defer

\* The viewer may close.  The owner of an exclusive output gives it up first, and
\* its thread posts the last WM_CLOSE ("yield" sets g_presentationClosing).
Close ==
  /\ uiPending' = FALSE /\ deferred' = FALSE /\ UNCHANGED <<serial, recorder, flags>>
  /\ running' = FALSE
  /\ IF setup.exclusive /\ active
       THEN Call("yield", "none") /\ UNCHANGED window
       ELSE window' = FALSE /\ Handled
  /\ UNCHANGED <<closing, active>>

HandleClose ==
  \/ Defers /\ DeferClosePrompt
  \/ ~Defers /\ MayClose /\ Close
  \/ ~Defers /\ ~MayClose /\ (prompt \/ pending) /\ Handled
       /\ UNCHANGED <<atomics, recorder, flags, defer, window>>
  \/ ~Defers /\ ~MayClose /\ ~prompt /\ ~pending /\ BeginRecordingClose(0)
       /\ UNCHANGED <<atomics, defer, window>>

\* WM_RECORDING_CAPTURE_ENDED
HandleEnded ==
  /\ drain' = TRUE
  /\ IF drain THEN UNCHANGED recorder ELSE StopForClose /\ UNCHANGED busy
  /\ Handled /\ UNCHANGED <<atomics, pending, prompt, defer, window>>

\* WM_PRESENTATION_UI_READY: the output is windowed; ask now, unless the viewer
\* ends anyway.  Only this ticket is retired.
Retired(ticket) == uiPending' = (uiPending /\ ticket # serial) /\ UNCHANGED <<serial, deferred>>
Current(ticket) == uiPending /\ ticket = serial
Asks(ticket)    == Current(ticket) /\ ~closing /\ running

HandleReady(ticket) ==
  \/ /\ Asks(ticket) /\ ~prompt /\ busy /\ ~pending
     /\ BeginRecordingClose(ticket) /\ UNCHANGED <<atomics, defer, window>>
  \/ /\ ~(Asks(ticket) /\ ~prompt /\ busy /\ ~pending)
     /\ Handled /\ Retired(ticket) /\ UNCHANGED <<atomics, recorder, flags, window>>

\* WM_UPDATE_CHECK_COMPLETE: TakeResult joins the worker ("take").
HandleUpdate ==
  /\ IF result THEN Call("take", "none") ELSE Handled
  /\ UNCHANGED <<atomics, recorder, flags, defer, window>>

\* A pump takes a posted message.  WM_DESTROY empties the queue.
Dispatch ==
  /\ Top.at \in Pumps /\ queue # <<>>
  /\ LET m == Head(queue)
         repost == m.kind = "ready" /\ Asks(m.ticket) /\ MayClose
     IN  /\ \/ m.kind = "close"  /\ HandleClose
            \/ m.kind = "ended"  /\ HandleEnded
            \/ m.kind = "ready"  /\ HandleReady(m.ticket)
            \/ m.kind = "update" /\ HandleUpdate
         /\ queue' = IF ~window' THEN <<>>
                     ELSE IF repost THEN With(Tail(queue), "close") ELSE Tail(queue)
         /\ result' = (result /\ m.kind # "update")
  /\ UNCHANGED <<setup, captures, update, cancelled, mutex, counts>>

\* WM_CLOSE goes on after it has cleared g_running.
Yield ==
  /\ At("yield") /\ closing' = TRUE /\ Return
  /\ UNCHANGED <<setup, running, active, recorder, flags, defer, window, queue, captures,
                 check, counts>>

\* TakeResult joins the worker; a newer version is offered.
Take ==
  /\ At("take") /\ update = "done" /\ (Become("offer") \/ Return)
  /\ UNCHANGED <<setup, atomics, recorder, flags, defer, window, queue, captures, check,
                 counts>>

-----------------------------------------------------------------------------
(* PollRecordingClose, called by WM_TIMER and by the drain *)

Enter(at, caller) ==
  IF caller = "drain" THEN stack' = <<Frame(at, "drain")>> ELSE Call(at, caller)

\* It returned ok to its caller.  The timer asks again for the close that waited.
PollReturns(ok, caller, rest) ==
  IF caller = "drain"
    THEN /\ stack' = <<Frame(IF ok THEN "destroy" ELSE "peek", "none")>>
         /\ UNCHANGED <<pending, queue>>
    ELSE /\ stack' = Resumed(rest)
         /\ IF ok /\ pending /\ ~prompt'
              THEN pending' = FALSE /\ queue' = Posted("close")
              ELSE UNCHANGED <<pending, queue>>

\* A problem with the file is reported once the recorder is done, and a recorder
\* that takes long is offered to be killed.
Poll(caller) ==
  \/ ~busy /\ UNCHANGED prompt /\ PollReturns(TRUE, caller, stack)
  \/ ~busy /\ pending /\ ~prompt /\ prompt' = TRUE /\ Enter("report", caller)
       /\ UNCHANGED <<pending, queue>>
  \/ busy /\ (pending \/ drain) /\ ~prompt /\ prompt' = TRUE /\ Enter("late", caller)
       /\ UNCHANGED <<pending, queue>>
  \/ busy /\ Enter("recheck", caller) /\ UNCHANGED <<pending, queue, prompt>>

\* WM_TIMER is only found when nothing is posted.
Timer ==
  /\ Top.at \in Pumps /\ window /\ queue = <<>> /\ Poll("timer")
  /\ UNCHANGED <<setup, atomics, recorder, drain, defer, window, captures, check, counts>>

\* The last read of busy in a poll.
Recheck ==
  /\ At("recheck") /\ UNCHANGED prompt /\ PollReturns(~busy, Top.for, Tail(stack))
  /\ UNCHANGED <<setup, atomics, recorder, drain, defer, window, captures, check, counts>>

\* Wrong variant: g_recordingClosePrompt stays set after the report.
AnswerReportOnly ==
  /\ At("report") /\ UNCHANGED prompt /\ PollReturns(TRUE, Top.for, Tail(stack))
  /\ UNCHANGED <<setup, atomics, recorder, drain, defer, window, captures, check, counts>>

AnswerReport ==
  /\ At("report") /\ prompt' = FALSE /\ PollReturns(TRUE, Top.for, Tail(stack))
  /\ UNCHANGED <<setup, atomics, recorder, drain, defer, window, captures, check, counts>>

\* "No" ends the process if the recorder still has not finished.
AnswerLate ==
  /\ At("late") /\ prompt' = FALSE
  /\ \/ Become("recheck")
     \/ busy /\ stack' = <<Frame("terminated", "none")>>
  /\ UNCHANGED <<setup, atomics, recorder, pending, drain, defer, window, queue, captures,
                 check, counts>>

\* "Yes": the file is finished and the timer closes the viewer.
AnswerAsk ==
  /\ At("ask") /\ prompt' = FALSE /\ Return
  /\ \/ pending' = TRUE /\ StopForClose
     \/ UNCHANGED <<pending, stopping, controlsClosing>>
  /\ IF Top.for = 0 THEN UNCHANGED defer ELSE Retired(Top.for)
  /\ UNCHANGED <<setup, atomics, busy, drain, window, queue, captures, check, counts>>

\* The offer is answered, or its owner is destroyed.
AnswerOffer ==
  /\ At("offer") /\ Return
  /\ UNCHANGED <<setup, atomics, recorder, flags, defer, window, queue, captures, check,
                 counts>>

Answer == AnswerReport \/ AnswerLate \/ AnswerAsk \/ AnswerOffer

-----------------------------------------------------------------------------
(* The message loop's condition, and the end of wWinMain *)

Test ==
  /\ At("test")
  /\ Become(IF running \/ (setup.exclusive /\ active) THEN "get" ELSE "drain")
  /\ UNCHANGED <<setup, atomics, recorder, flags, defer, window, queue, captures, check,
                 counts>>

\* DrainRecordingBeforeDestroy: BeginRecordingClose without a question, then poll.
Drain ==
  /\ At("drain") /\ Become(IF busy THEN "poll" ELSE "destroy")
  /\ pending' = (pending \/ busy)
  /\ IF busy /\ ~pending THEN StopForClose ELSE UNCHANGED <<stopping, controlsClosing>>
  /\ UNCHANGED <<setup, atomics, busy, drain, prompt, defer, window, queue, captures, check,
                 counts>>

DrainPolls ==
  /\ At("poll") /\ Poll("drain")
  /\ UNCHANGED <<setup, atomics, recorder, drain, defer, window, captures, check, counts>>

\* Nothing is left for PeekMessage.
Peeked ==
  /\ At("peek") /\ queue = <<>> /\ Become("poll")
  /\ UNCHANGED <<setup, atomics, recorder, flags, defer, window, queue, captures, check,
                 counts>>

\* DestroyWindow unless WM_CLOSE did it.
Destroy ==
  /\ At("destroy") /\ window' = FALSE /\ queue' = <<>> /\ running' = FALSE
  /\ uiPending' = FALSE /\ deferred' = FALSE /\ UNCHANGED serial
  /\ Become("cancel")
  /\ UNCHANGED <<setup, closing, active, recorder, flags, captures, check, counts>>

\* Wrong variant: stop_ is set without the mutex.
MayCancelAtOnce == At("cancel")

\* CancelAndWait takes the mutex to set stop_.
MayCancel == At("cancel") /\ mutex = "free"

Cancel ==
  /\ MayCancel /\ cancelled' = TRUE /\ Become("notify")
  /\ UNCHANGED <<setup, atomics, recorder, flags, defer, window, queue, captures, update,
                 mutex, result, counts>>

NotifyAll ==
  /\ At("notify") /\ Become("joinCheck")
  /\ update' = (IF update = "asleep" THEN "awake" ELSE update)
  /\ UNCHANGED <<setup, atomics, recorder, flags, defer, window, queue, captures, cancelled,
                 mutex, result, counts>>

JoinCheck ==
  /\ At("joinCheck") /\ update = "done" /\ result' = FALSE /\ Become("joinCapture")
  /\ UNCHANGED <<setup, atomics, recorder, flags, defer, window, queue, captures, update,
                 cancelled, mutex, counts>>

JoinCapture ==
  /\ At("joinCapture") /\ capture = "done" /\ Become("exited")
  /\ UNCHANGED <<setup, atomics, recorder, flags, defer, window, queue, captures, check,
                 counts>>

UserInterface ==
  \/ Dispatch \/ Yield \/ Take \/ Timer \/ Recheck \/ Test \/ Drain \/ DrainPolls
  \/ Destroy \/ Cancel \/ NotifyAll \/ JoinCheck \/ JoinCapture

-----------------------------------------------------------------------------
(* The capture thread: UnifiedCaptureRenderLoop's end and what its caller makes of it *)

\* The graph completes or fails at any moment, and stops when g_running is cleared.
CaptureEnds ==
  /\ capture = "capturing" /\ capture' = "notify"
  /\ outcome' \in {"completed", "failed"} \cup (IF running THEN {} ELSE {"stopped"})
  /\ UNCHANGED <<setup, atomics, recorder, flags, defer, window, queue, stack, check, counts>>

\* The windowed transition is done: the prompt may be shown.
Serve ==
  /\ capture = "capturing" /\ deferred /\ deferred' = FALSE
  /\ queue' = IF window THEN Append(queue, Message("ready", serial)) ELSE queue
  /\ UNCHANGED <<setup, atomics, recorder, flags, uiPending, serial, window, stack, captures,
                 check, counts>>

NotifyEnded ==
  /\ capture = "notify" /\ capture' = "shutdown"
  /\ queue' = (IF busy THEN Posted("ended") ELSE queue)
  /\ UNCHANGED <<setup, atomics, recorder, flags, defer, window, stack, outcome, check, counts>>

\* recorder.Shutdown: no Start succeeds any more; the worker is stopped and joined.
Shutdown ==
  /\ capture = "shutdown" /\ capture' = "join" /\ stopping' = busy
  /\ UNCHANGED <<setup, atomics, busy, controlsClosing, flags, defer, window, queue, stack,
                 outcome, check, counts>>

ShutdownJoins ==
  /\ capture = "join" /\ ~busy
  /\ capture' = (CASE running /\ outcome = "completed" -> "end"
                   [] running /\ outcome = "failed" -> "error"
                   [] OTHER -> "leave")
  /\ UNCHANGED <<setup, atomics, recorder, flags, defer, window, queue, stack, outcome, check,
                 counts>>

\* The user has read why capture failed.
ErrorShown ==
  /\ capture = "error" /\ capture' = "end"
  /\ UNCHANGED <<setup, atomics, recorder, flags, defer, window, queue, stack, outcome, check,
                 counts>>

EndRunning ==
  /\ capture = "end" /\ capture' = "post" /\ running' = FALSE
  /\ UNCHANGED <<setup, closing, active, recorder, flags, defer, window, queue, stack, outcome,
                 check, counts>>

PostClose ==
  /\ capture = "post" /\ capture' = "leave" /\ queue' = Posted("close")
  /\ UNCHANGED <<setup, atomics, recorder, flags, defer, window, stack, outcome, check, counts>>

\* OutputCompletion: two steps, between which the UI may yield.
Leave ==
  /\ capture = "leave" /\ capture' = "complete" /\ active' = FALSE
  /\ UNCHANGED <<setup, running, closing, recorder, flags, defer, window, queue, stack, outcome,
                 check, counts>>

Complete ==
  /\ capture = "complete" /\ capture' = "done"
  /\ queue' = (IF closing THEN Posted("close") ELSE queue)
  /\ UNCHANGED <<setup, atomics, recorder, flags, defer, window, stack, outcome, check, counts>>

\* What the thread does without the graph's help.
CaptureProceeds ==
  NotifyEnded \/ Shutdown \/ ShutdownJoins \/ ErrorShown \/ EndRunning \/ PostClose
  \/ Leave \/ Complete

-----------------------------------------------------------------------------
(* The update check's worker *)

worker(from, to) ==
  /\ update = from /\ update' = to
  /\ UNCHANGED <<setup, atomics, recorder, flags, defer, window, stack, captures, cancelled,
                 counts>>

\* wait_for reads stop_ under the mutex and gives it up only as it falls asleep.
TestStop ==
  /\ mutex = "free"
  /\ worker("start", IF cancelled THEN "done" ELSE "tested")
  /\ mutex' = (IF cancelled THEN "free" ELSE "worker") /\ UNCHANGED <<queue, result>>
Sleep == worker("tested", "asleep") /\ mutex' = "free" /\ UNCHANGED <<queue, result>>

\* The delay is over.  The mutex is taken again to read stop_.
DelayOver == worker("asleep", "awake") /\ UNCHANGED <<queue, mutex, result>>
Awake ==
  /\ mutex = "free" /\ worker("awake", IF cancelled THEN "done" ELSE "fetch")
  /\ UNCHANGED <<queue, mutex, result>>

Fetched ==
  worker("fetch", IF cancelled THEN "done" ELSE "store") /\ UNCHANGED <<queue, mutex, result>>
Store ==
  /\ mutex = "free" /\ worker("store", "tell") /\ result' = TRUE
  /\ UNCHANGED <<queue, mutex>>
Tell == worker("tell", "done") /\ queue' = Posted("update") /\ UNCHANGED <<mutex, result>>

UpdateWorker == TestStop \/ Sleep \/ DelayOver \/ Awake \/ Fetched \/ Store \/ Tell

-----------------------------------------------------------------------------

Next ==
  \/ RecorderEnds \/ UserCloses \/ ToggleRecording \/ QueryEndSession \/ EndSession
  \/ UserInterface \/ Answer \/ Peeked
  \/ CaptureEnds \/ Serve \/ CaptureProceeds
  \/ UpdateWorker

Spec == Init /\ [][Next]_vars

(* Every thread goes on, capture ends once it is told to, the recorder ends once   *)
(* it is stopped, the user answers, and PeekMessage runs out of messages.  The     *)
(* last two wait behind timers that come again and again.                          *)
Fairness ==
  /\ WF_vars(UserInterface) /\ SF_vars(Answer) /\ SF_vars(Peeked)
  /\ WF_vars(CaptureEnds /\ ~running) /\ WF_vars(CaptureProceeds)
  /\ WF_vars(RecorderEnds /\ stopping) /\ WF_vars(UpdateWorker)

FairSpec == Spec /\ Fairness

-----------------------------------------------------------------------------
(* Properties *)

(* main.cpp 9697-9773, 10497-10518: whoever asks for the close, on whatever path,  *)
(* the viewer's window and the message loop are only gone when no recording is     *)
(* being written.  Only the user may end the process before that.                  *)
SavedBeforeClose == (~window \/ At("exited")) => ~busy

(* A close that was agreed to, a capture that ended, or Windows ending the session *)
(* always ends the process: the close messages dropped while a box is open or the  *)
(* output is being given up are made up for by the timer, the loop's condition or  *)
(* the drain.                                                                      *)
ViewerEnds == (pending \/ closing \/ ~running) ~> (At("exited") \/ At("terminated"))

(* UpdateCheckTask.h 85: a cancelled update check does not sleep through its delay *)
(* while the viewer waits for it.                                                  *)
CancelWakes == At("joinCheck") => update # "asleep"

-----------------------------------------------------------------------------
(* The inductive invariant behind SavedBeforeClose and CancelWakes.        *)

\* Frames of the UI thread's own calls, which are never on top of another.
Bases == {"test", "get", "drain", "poll", "peek", "destroy", "cancel", "notify",
          "joinCheck", "joinCapture", "exited", "terminated"}
Polls  == {"late", "report", "recheck"}
Labels == Bases \cup Pumps \cup Polls \cup {"yield", "take"}
Frames == [at : Labels, for : {"none", "timer", "drain"} \cup Nat]

\* A frame that is only found at the bottom.
Ground(frame) == frame.at \in Bases \/ (frame.at \in Polls /\ frame.for = "drain")

\* Every frame but the top one pumps messages.  Only a poll of the drain takes the
\* place of the frame at the bottom.
Shape(s) ==
  /\ s \in Seq(Frames) /\ Len(s) > 0
  /\ \A i \in 2 .. Len(s) : s[i].at \in Pumps
  /\ \A i \in 1 .. Len(s) : Ground(s[i]) <=> i = Len(s)

Messages == [kind : {"close", "ended", "ready", "update"}, ticket : Nat]
Tickets  == serial \in Nat /\ queue \in Seq(Messages)

\* The drain reports what became of a file that is saved.
Reporting(s) == s[Len(s)].at = "report"

\* From the drain's end on, the recorder is done.
Ending == {"destroy", "cancel", "notify", "joinCheck", "joinCapture", "exited"}

Saved == (~window \/ Reporting(stack) \/ Top.at \in Ending) => ~busy

\* The worker cannot fall asleep once stop_ is set.
Awakened ==
  /\ update = "tested" => mutex = "worker"
  /\ cancelled => update # "tested"
  /\ cancelled /\ update = "asleep" => At("notify")
  /\ At("notify") \/ At("joinCheck") => cancelled

IInv == Shape(stack) /\ Tickets /\ Saved /\ Awakened

=============================================================================
