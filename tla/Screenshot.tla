----------------------------- MODULE Screenshot -----------------------------
(***************************************************************************)
(* The screenshot service (screenshot/ScreenshotService.cpp).              *)
(*                                                                         *)
(*   UI       Request on a shortcut; TakeResult, or else ExpireRequest, on *)
(*            a timer; CancelPending when the viewer closes                *)
(*   capture  Start and Stop around a capture, Submit for every frame      *)
(*   worker   Run: converts the copied frame, saves the file, and answers  *)
(*                                                                         *)
(* One atomic state hands the plain members (clipboard_, raw_, desc_) from *)
(* thread to thread.  A plain access is a control point of its own, so     *)
(* that two threads can be seen at one member at the same time.            *)
(***************************************************************************)
EXTENDS Integers

CONSTANTS
  MaxRequests,   \* bound: requests accepted
  MaxFrames,     \* bound: frames examined by Submit
  MaxSessions    \* bound: calls of Start

ASSUME BoundsAssumption ==
  MaxRequests \in Nat \ {0} /\ MaxFrames \in Nat \ {0} /\ MaxSessions \in Nat \ {0}

States == {"Unavailable", "Idle", "Requested", "Copying", "Processing", "Complete"}

\* A result; the file may be saved, fail or be cancelled.  "copied" says
\* whether the picture was put on the clipboard.
Results == [clipboard : BOOLEAN, copied : BOOLEAN, frame : 0 .. MaxFrames,
            file : {"pending", "saved", "failed", "cancelled"}]
NoResult == [clipboard |-> FALSE, copied |-> FALSE, frame |-> 0, file |-> "pending"]

VARIABLES
  state, cancel, event, clipboard, resultMutex,
  raw,           \* the number of the frame in raw_ (0: none)
  result,        \* result_
  uiPc, option,  \* the UI thread; its local clipboard argument
  closing,       \* the message loop has ended (g_running is FALSE)
  capturePc, frames, sessions,
  workerPc, local, \* the worker's local result
  \* observations
  request,       \* the latest accepted request: its option, the frames seen before it
  requests, answers, taken

shared  == <<state, cancel, event, clipboard, resultMutex, raw, result>>
ui      == <<uiPc, option, closing>>
capture == <<capturePc, frames, sessions>>
worker  == <<workerPc, local>>
history == <<request, requests, answers, taken>>
vars    == <<shared, ui, capture, worker, history>>

Init ==
  /\ state = "Unavailable" /\ cancel = FALSE /\ event = FALSE
  /\ clipboard = FALSE /\ resultMutex = "free" /\ raw = 0 /\ result = NoResult
  /\ uiPc = "idle" /\ option = FALSE /\ closing = FALSE
  /\ capturePc = "out" /\ frames = 0 /\ sessions = 0
  /\ workerPc = "none" /\ local = NoResult
  /\ request = [clipboard |-> FALSE, after |-> 0]
  /\ requests = 0 /\ answers = 0 /\ taken = NoResult

-----------------------------------------------------------------------------
(* The UI thread                                                           *)

UiFrame == UNCHANGED <<event, raw, capture, worker>>

\* The two loads of Request.  While the state is Idle cancel_ is clear but for
\* CancelPending, of this same thread: reading both at once loses nothing.
Request ==
  /\ uiPc = "idle" /\ ~closing /\ requests < MaxRequests
  /\ ~cancel /\ state = "Idle"
  /\ uiPc' = "options" /\ option' \in BOOLEAN
  /\ UNCHANGED <<state, cancel, clipboard, resultMutex, result, closing, history>> /\ UiFrame

RequestOptions ==
  /\ uiPc = "options" /\ uiPc' = "request" /\ clipboard' = option
  /\ UNCHANGED <<state, cancel, resultMutex, result, option, closing, history>> /\ UiFrame

\* The exchange fails when the capture thread has stopped the service since.
RequestExchange ==
  /\ uiPc = "request" /\ uiPc' = "idle"
  /\ IF state = "Idle"
     THEN /\ state' = "Requested" /\ requests' = requests + 1 /\ answers' = 0
          /\ request' = [clipboard |-> option, after |-> frames]
     ELSE UNCHANGED <<state, requests, answers, request>>
  /\ UNCHANGED <<cancel, clipboard, resultMutex, result, option, closing, taken>> /\ UiFrame

TakeResult ==
  /\ uiPc = "idle" /\ ~closing /\ state = "Complete" /\ uiPc' = "take"
  /\ UNCHANGED <<state, cancel, clipboard, resultMutex, result, option, closing, history>> /\ UiFrame

TakeMove ==
  /\ uiPc = "take" /\ resultMutex = "free"
  /\ resultMutex' = "ui" /\ uiPc' = "taken"
  /\ taken' = result /\ result' = NoResult /\ answers' = answers + 1
  /\ UNCHANGED <<state, cancel, clipboard, option, closing, request, requests>> /\ UiFrame

\* TakeResult returns TRUE whether or not the exchange succeeds.
TakeExchange ==
  /\ uiPc = "taken" /\ uiPc' = "idle" /\ resultMutex' = "free"
  /\ state' = IF state = "Complete" THEN "Idle" ELSE state
  /\ UNCHANGED <<cancel, clipboard, result, option, closing, history>> /\ UiFrame

\* Wrong variant: the state is stored, not exchanged.
ExpireStored ==
  /\ uiPc = "idle" /\ ~closing /\ answers' = answers + 1
  /\ state \in {"Requested", "Copying", "Processing"} /\ state' = "Idle"
  /\ UNCHANGED <<uiPc, cancel, clipboard, resultMutex, result, option, closing>>
  /\ UNCHANGED <<request, requests, taken>> /\ UiFrame

\* The timer has seen no result and three seconds have passed.
ExpireRequest ==
  /\ uiPc = "idle" /\ ~closing
  /\ state = "Requested" /\ state' = "Idle" /\ answers' = answers + 1
  /\ UNCHANGED <<uiPc, cancel, clipboard, resultMutex, result, option, closing>>
  /\ UNCHANGED <<request, requests, taken>> /\ UiFrame

CancelPending ==
  /\ uiPc = "idle" /\ ~closing /\ closing' = TRUE /\ cancel' = TRUE
  /\ UNCHANGED <<uiPc, option, state, clipboard, resultMutex, result, history>> /\ UiFrame

UiNext ==
  \/ Request \/ RequestOptions \/ RequestExchange
  \/ TakeResult \/ TakeMove \/ TakeExchange
  \/ ExpireRequest \/ CancelPending

-----------------------------------------------------------------------------
(* The capture thread                                                      *)

CaptureFrame == UNCHANGED <<clipboard, resultMutex, result, ui, local, history>>

Go(from, to) == capturePc = from /\ capturePc' = to

\* Start first stops the service, which the last Stop has left without worker.
Start ==
  /\ Go("out", "prepare") /\ sessions < MaxSessions
  /\ sessions' = sessions + 1 /\ state' = "Unavailable" /\ cancel' = TRUE
  /\ UNCHANGED <<event, raw, frames, workerPc>> /\ CaptureFrame

\* No format, no directory, no event: Start fails and the capture goes on
\* without the service.
StartFails ==
  /\ Go("prepare", "running")
  /\ UNCHANGED <<state, cancel, event, raw, frames, sessions, workerPc>> /\ CaptureFrame

\* desc_, raw_ and directory_ are set and a fresh event is made.
Prepare ==
  /\ Go("prepare", "create") /\ event' = FALSE /\ cancel' = FALSE
  /\ UNCHANGED <<state, raw, frames, sessions, workerPc>> /\ CaptureFrame

\* An exception from std::thread stops the service again.
CreateThrows ==
  /\ Go("create", "running") /\ state' = "Unavailable" /\ cancel' = TRUE
  /\ event' = FALSE
  /\ UNCHANGED <<raw, frames, sessions, workerPc>> /\ CaptureFrame

CreateThread ==
  /\ Go("create", "open") /\ workerPc' = "wait"
  /\ UNCHANGED <<state, cancel, event, raw, frames, sessions>> /\ CaptureFrame

Open ==
  /\ Go("open", "running") /\ state' = "Idle"
  /\ UNCHANGED <<cancel, event, raw, frames, sessions, workerPc>> /\ CaptureFrame

Submit ==
  /\ Go("running", "copy") /\ frames < MaxFrames /\ frames' = frames + 1
  /\ state = "Requested" /\ state' = "Copying"
  /\ UNCHANGED <<cancel, event, raw, sessions, workerPc>> /\ CaptureFrame

\* Wrong variant: a frame that cannot be copied leaves the state Copying.
RejectKeepsCopying ==
  /\ Go("copy", "running")
  /\ UNCHANGED <<state, cancel, event, raw, frames, sessions, workerPc>> /\ CaptureFrame

\* Another size, format or row order, or too little data: wait for the next.
SubmitReject ==
  /\ Go("copy", "running") /\ state' = "Requested"
  /\ UNCHANGED <<cancel, event, raw, frames, sessions, workerPc>> /\ CaptureFrame

\* Wrong variant: the frame is not copied.
CopyStale ==
  /\ Go("copy", "publish") /\ raw' = raw
  /\ UNCHANGED <<state, cancel, event, frames, sessions, workerPc>> /\ CaptureFrame

SubmitCopy ==
  /\ Go("copy", "publish") /\ raw' = frames
  /\ UNCHANGED <<state, cancel, event, frames, sessions, workerPc>> /\ CaptureFrame

SubmitPublish ==
  /\ Go("publish", "signal") /\ state' = "Processing"
  /\ UNCHANGED <<cancel, event, raw, frames, sessions, workerPc>> /\ CaptureFrame

SubmitSignal ==
  /\ Go("signal", "running") /\ event' = TRUE
  /\ UNCHANGED <<state, cancel, raw, frames, sessions, workerPc>> /\ CaptureFrame

Stop ==
  /\ Go("running", "cancel") /\ state' = "Unavailable"
  /\ UNCHANGED <<cancel, event, raw, frames, sessions, workerPc>> /\ CaptureFrame

StopCancel ==
  /\ Go("cancel", "wake") /\ cancel' = TRUE
  /\ UNCHANGED <<state, event, raw, frames, sessions, workerPc>> /\ CaptureFrame

\* Wrong variant: the sleeping worker is not woken.
StopSilent ==
  /\ Go("wake", "join") /\ event' = event
  /\ UNCHANGED <<state, cancel, raw, frames, sessions, workerPc>> /\ CaptureFrame

StopWake ==
  /\ Go("wake", "join") /\ event' = TRUE
  /\ UNCHANGED <<state, cancel, raw, frames, sessions, workerPc>> /\ CaptureFrame

\* join, where there is a thread; then the event is closed.  (Where Start has
\* failed there is neither, and setting the event above is no step of the code.)
StopJoin ==
  /\ Go("join", "out") /\ workerPc \in {"none", "exited"}
  /\ workerPc' = "none" /\ event' = FALSE
  /\ UNCHANGED <<state, cancel, raw, frames, sessions>> /\ CaptureFrame

CaptureNext ==
  \/ Start \/ StartFails \/ Prepare \/ CreateThrows \/ CreateThread \/ Open
  \/ Submit \/ SubmitReject \/ SubmitCopy \/ SubmitPublish \/ SubmitSignal
  \/ Stop \/ StopCancel \/ StopWake \/ StopJoin

-----------------------------------------------------------------------------
(* The worker                                                              *)

WorkerFrame == UNCHANGED <<cancel, clipboard, raw, ui, capture, history>>

Step(from, to) == workerPc = from /\ workerPc' = to

\* The event resets itself.
Wake ==
  /\ Step("wait", "woken") /\ event /\ event' = FALSE
  /\ UNCHANGED <<state, resultMutex, result, local>> /\ WorkerFrame

Woken ==
  /\ Step("woken", IF cancel THEN "exited" ELSE "test")
  /\ UNCHANGED <<state, event, resultMutex, result, local>> /\ WorkerFrame

Test ==
  /\ Step("test", IF state = "Processing" THEN "options" ELSE "wait")
  /\ UNCHANGED <<state, event, resultMutex, result, local>> /\ WorkerFrame

ReadOptions ==
  /\ Step("options", "convert")
  /\ local' = [NoResult EXCEPT !.clipboard = clipboard]
  /\ UNCHANGED <<state, event, resultMutex, result>> /\ WorkerFrame

\* COM was not initialised, memory ran out, or the conversion failed.
ConvertFails ==
  /\ Step("convert", "done")
  /\ local' = [local EXCEPT !.frame = raw, !.file = "failed"]
  /\ UNCHANGED <<state, event, resultMutex, result>> /\ WorkerFrame

ConvertRows ==
  /\ Step("convert", IF cancel THEN "done" ELSE "clipboard")
  /\ local' = [local EXCEPT !.frame = raw, !.file = IF cancel THEN "cancelled" ELSE @]
  /\ UNCHANGED <<state, event, resultMutex, result>> /\ WorkerFrame

\* clipboard_ is read again; another program may hold the clipboard.
PublishClipboard ==
  /\ Step("clipboard", "file")
  /\ \E copied \in IF clipboard /\ ~cancel THEN BOOLEAN ELSE {FALSE} :
       local' = [local EXCEPT !.copied = copied]
  /\ UNCHANGED <<state, event, resultMutex, result>> /\ WorkerFrame

\* A cancellation seen at any row deletes the partial file; only a complete
\* file is renamed.
WritePng ==
  /\ Step("file", "done")
  /\ \E file \in IF cancel THEN {"cancelled", "failed"} ELSE {"saved", "failed"} :
       local' = [local EXCEPT !.file = file]
  /\ UNCHANGED <<state, event, resultMutex, result>> /\ WorkerFrame

Done ==
  /\ Step("done", IF cancel THEN "exited" ELSE "store")
  /\ UNCHANGED <<state, event, resultMutex, result, local>> /\ WorkerFrame

StoreResult ==
  /\ Step("store", "complete") /\ resultMutex = "free" /\ result' = local
  /\ UNCHANGED <<state, event, resultMutex, local>> /\ WorkerFrame

\* Stop has won when the exchange fails.
Complete ==
  /\ Step("complete", "wait")
  /\ state' = IF state = "Processing" THEN "Complete" ELSE state
  /\ UNCHANGED <<event, resultMutex, result, local>> /\ WorkerFrame

WorkerNext ==
  \/ Wake \/ Woken \/ Test \/ ReadOptions \/ ConvertFails \/ ConvertRows
  \/ PublishClipboard \/ WritePng \/ Done \/ StoreResult \/ Complete

-----------------------------------------------------------------------------

Next == UiNext \/ CaptureNext \/ WorkerNext

Spec == Init /\ [][Next]_vars

\* Every thread runs on inside a call.  The timer keeps ticking while the
\* viewer is open, so a result is taken and a request expires (frames are
\* bounded: no later one hides a request from the timer for ever).  Once the
\* viewer closes the capture loop ends and stops the service.  Nothing obliges
\* the user, the capture device or an earlier Stop.
FairSpec ==
  /\ Spec
  /\ WF_vars(RequestOptions \/ RequestExchange \/ TakeMove \/ TakeExchange)
  /\ WF_vars(TakeResult) /\ WF_vars(ExpireRequest)
  /\ WF_vars(CaptureNext /\ capturePc \notin {"out", "running"})
  /\ WF_vars(Stop /\ closing)
  /\ WF_vars(WorkerNext)

-----------------------------------------------------------------------------
(* Properties                                                              *)

TypeOK ==
  /\ state \in States /\ cancel \in BOOLEAN /\ event \in BOOLEAN
  /\ clipboard \in BOOLEAN /\ resultMutex \in {"free", "ui"}
  /\ raw \in 0 .. MaxFrames /\ result \in Results /\ local \in Results
  /\ uiPc \in {"idle", "options", "request", "take", "taken"}
  /\ option \in BOOLEAN /\ closing \in BOOLEAN
  /\ capturePc \in {"out", "prepare", "create", "open", "running", "copy",
                    "publish", "signal", "cancel", "wake", "join"}
  /\ frames \in 0 .. MaxFrames /\ sessions \in 0 .. MaxSessions
  /\ workerPc \in {"none", "exited", "wait", "woken", "test", "options", "convert",
                   "clipboard", "file", "done", "store", "complete"}
  /\ request \in [clipboard : BOOLEAN, after : 0 .. MaxFrames]
  /\ requests \in 0 .. MaxRequests /\ answers \in 0 .. 2 /\ taken \in Results

\* "Idle guarantees neither the capture thread nor the worker is using
\* options": the UI never writes clipboard_ while the worker may read it, and
\* the capture thread never writes raw_ and desc_ while the worker reads them,
\* although no lock protects any of them.
MembersExclusive ==
  /\ ~(uiPc = "options" /\ workerPc \in {"options", "convert", "clipboard"})
  /\ ~(capturePc \in {"prepare", "copy"} /\ workerPc \in {"options", "convert", "clipboard", "file"})

\* r has the latest request's clipboard option, at both places where the worker
\* reads it, a file outcome, and a frame captured after the request.
IsAnswer(r) ==
  /\ r.clipboard = request.clipboard /\ (r.copied => request.clipboard)
  /\ r.file \in {"saved", "failed"} /\ r.frame > request.after

\* The result the UI takes answers the request it made last, and only once:
\* never an older request's, a cancelled one or a stale picture, although a
\* Stop and a new Start may come between any two steps.
ResultAnswersRequest == uiPc = "taken" => IsAnswer(taken) /\ answers = 1

\* The service is ready again, or stopped, after every request: no order of
\* the timer, the frames, the worker and Stop leaves it busy for ever.
ServiceReopens == []<>(state \in {"Idle", "Unavailable"})

\* Stop's join returns: the worker never sleeps through the cancellation.
StopReturns == capturePc = "join" ~> capturePc = "out"

-----------------------------------------------------------------------------
(* The inductive invariant behind the three safety properties.             *)

\* The worker has seen Processing and has not answered or given up.
Working ==
  workerPc \in {"options", "convert", "clipboard", "file", "done", "store", "complete"}

\* What the state says of the capture thread and of the worker.
Handover ==
  /\ state = "Copying" <=> capturePc \in {"copy", "publish"}
  /\ capturePc \in {"out", "prepare", "create", "open", "cancel", "wake", "join"}
       => state = "Unavailable"
  /\ state = "Processing" => capturePc \in {"signal", "running"}
  /\ capturePc \in {"out", "prepare", "create"} => workerPc = "none"
  /\ Working => state = "Processing" \/ capturePc \in {"cancel", "wake", "join"}

\* The UI inside Request has seen Idle, and inside TakeResult Complete.  Since
\* then the service may have been stopped, and started again.
UiSaw ==
  /\ uiPc \in {"options", "request"} => ~Working /\ state \in {"Idle", "Unavailable"}
  /\ uiPc \in {"take", "taken"} => ~Working /\ state \in {"Idle", "Unavailable", "Complete"}
  /\ uiPc = "request" => clipboard = option
  /\ uiPc \in {"options", "request"} => requests < MaxRequests

Pending == state \in {"Requested", "Copying", "Processing"} \/ Working

\* The plain members are those of the latest request while it is pending.
MembersCurrent ==
  /\ Pending => clipboard = request.clipboard
  /\ state = "Requested" => request.after <= frames
  /\ capturePc = "copy" => request.after < frames
  /\ capturePc = "publish" \/ state = "Processing" \/ Working => request.after < raw
  /\ request.after <= frames

\* How far the worker's answer is.
LocalCurrent ==
  /\ Working /\ workerPc # "options" => local.clipboard = request.clipboard
  /\ workerPc \in {"convert", "clipboard"} => ~local.copied
  /\ workerPc \in {"clipboard", "file", "done", "store", "complete"} =>
       local.frame > request.after
  /\ workerPc \in {"file", "done"} => (local.copied => request.clipboard)
  /\ workerPc = "done" =>
       local.file \in {"saved", "failed"} \/ (local.file = "cancelled" /\ cancel)
  /\ workerPc = "store" => IsAnswer(local)
  /\ workerPc = "complete" => IsAnswer(result)

\* A result that can be taken is the answer, and the only one.
AnswerCurrent ==
  /\ (state = "Complete" /\ uiPc # "taken") \/ uiPc = "take" => IsAnswer(result) /\ answers = 0
  /\ uiPc = "taken" => IsAnswer(taken) /\ answers = 1
  /\ state \in {"Requested", "Copying", "Processing"} => answers = 0
  /\ answers <= 1

IInv ==
  /\ TypeOK /\ Handover /\ UiSaw /\ MembersCurrent /\ LocalCurrent /\ AnswerCurrent
=============================================================================
