---------------------------- MODULE AudioOutput ----------------------------
(***************************************************************************)
(* The audio output thread (main.cpp AudioRenderThread), from the lease it *)
(* takes to its end, and the threads it meets:                             *)
(*                                                                         *)
(*   owner    AudioRenderThread: an ASIO output with its own recovery, the *)
(*            fall back to WASAPI, the WASAPI sessions of WasapiOutput.cpp *)
(*            Run and their recovery (RecoveryPolicy)                      *)
(*   driver   the ASIO driver's thread: BufferSwitch, and its messages     *)
(*   Windows  the default endpoint and its notifications                   *)
(*   UI       FlushAudioDiagnostics, the settings probe, shutdown          *)
(*                                                                         *)
(* The owner and the ASIO callback both write the lock-free queue of       *)
(* diagnostics that the UI reads.  Samples, mixing and the drift resampler *)
(* are left out; the resampler's one message of a session is not.          *)
(***************************************************************************)
EXTENDS Integers, Sequences

CONSTANTS
  Modes,        \* configured outputs, among "Asio", "Shared" and "Exclusive"
  Attempts,     \* RecoveryPolicy: restarts between two healthy sessions (3)
  Capacity,     \* RealtimeLogQueue::kCapacity (16)
  MaxChanges,   \* bound: changes of the default endpoint
  MaxHealthy    \* bound: sessions that run for 30 seconds

ASSUME ConstantsAssumption ==
  /\ Modes \subseteq {"Asio", "Shared", "Exclusive"}
  /\ Attempts \in Nat /\ Capacity \in Nat \ {0} /\ MaxChanges \in Nat /\ MaxHealthy \in Nat

Writers == {"owner", "callback"}
Messages == {"drift", "failed", "notice"}    \* a notice: a change, a retry, the limit
Endpoints == {"e1", "e2"}

VARIABLES
  running,      \* g_running
  gate,         \* who owns SettingsExclusiveProbeGate: "free", "probe", "audio"
  status,       \* InitializationLease::Status
  warning,      \* g_audioStartupProbeTimeout
  cancelled,    \* history: the shutdown came while the output waited for its lease
  pc, mode,
  attempts,     \* RecoveryPolicy::attempts_ of the recovery loop being run
  healthy,      \* the session's measured runtime is 30 seconds or more
  reinit,       \* the output was open before (reinitializingEndpoint)
  engaged,      \* the session's automatic clock correction has announced itself
  \* asio::Output: the driver, g_activeOutput, g_acceptRequests, g_restartRequested,
  \* the thread inside BufferSwitch, where Stop returns to
  driver, active, accept, restart, callback, after,
  \* wasapi::Run: what it follows, its endpoint, its notification client
  follow, endpoint, registered, changed, failure, session, defaultChange,
  default, notices,
  \* RealtimeLogQueue, its writers, and the message its reader is copying
  messages, write, read, lost, writer, copied,
  changes, healthySessions    \* bounds

asio     == <<driver, active, accept, restart, callback, after>>
stream   == <<failure, session, defaultChange>>
wasapi   == <<follow, endpoint, registered, changed, stream>>
windows  == <<default, notices, changes>>
recovery == <<attempts, healthy, healthySessions>>
log      == <<messages, write, read, lost, writer, copied>>
lease    == <<gate, status, warning, cancelled>>
control  == <<running, lease, pc, mode, reinit, recovery, engaged, asio, wasapi, windows>>
playback == <<reinit, recovery, engaged, asio, wasapi, windows, log>>
vars     == <<control, log>>

Positions == 0 .. Capacity
Following(i) == (i + 1) % (Capacity + 1)
NoWrite == [at |-> "idle", slot |-> 0, message |-> "none"]

Init ==
  /\ running = TRUE /\ gate \in {"free", "probe"} /\ pc = "Lease" /\ mode \in Modes
  /\ status = "Cancelled" /\ warning = FALSE /\ cancelled = FALSE
  /\ attempts = 0 /\ healthy = FALSE /\ healthySessions = 0 /\ reinit = FALSE
  /\ driver = "closed" /\ active = FALSE /\ accept = FALSE /\ restart = FALSE
  /\ callback = "none" /\ after = "none"
  /\ engaged = FALSE
  /\ follow \in BOOLEAN /\ endpoint = "none" /\ registered = FALSE /\ changed = FALSE
  /\ failure = "none" /\ session = FALSE /\ defaultChange = FALSE
  /\ default = "e1" /\ notices = 0 /\ changes = 0
  /\ messages = [i \in Positions |-> "none"] /\ write = 0 /\ read = 0 /\ lost = FALSE
  /\ writer = [w \in Writers |-> NoWrite] /\ copied = "none"

-----------------------------------------------------------------------------
(* RealtimeLogQueue::Push in three steps, for either writer. *)

\* The indices are loaded; a full queue costs the message, never a wait.
Room == Following(write) # read

Log(w, m) ==
  IF Room
    THEN /\ writer' = [writer EXCEPT ![w] = [at |-> "copy", slot |-> write, message |-> m]]
         /\ UNCHANGED <<messages, write, read, lost, copied>>
    ELSE lost' = TRUE /\ UNCHANGED <<messages, write, read, writer, copied>>

CopyMessage(w) ==
  /\ writer[w].at = "copy"
  /\ messages' = [messages EXCEPT ![writer[w].slot] = writer[w].message]
  /\ writer' = [writer EXCEPT ![w].at = "publish"]
  /\ UNCHANGED <<control, write, read, lost, copied>>

Publish(w) ==
  /\ writer[w].at = "publish"
  /\ write' = Following(writer[w].slot)
  /\ writer' = [writer EXCEPT ![w] = NoWrite]
  /\ UNCHANGED <<control, messages, read, lost, copied>>

\* The owner is at p, and not inside Push.
At(p) == pc = p /\ writer["owner"].at = "idle"

(* FlushAudioDiagnostics, on the UI's timer. *)

PopCopy ==
  /\ copied = "none" /\ read # write
  /\ copied' = messages[read]
  /\ UNCHANGED <<control, messages, write, read, lost, writer>>

PopAdvance ==
  /\ copied # "none"
  /\ read' = Following(read) /\ copied' = "none"
  /\ UNCHANGED <<control, messages, write, lost, writer>>

TakeDropped ==
  /\ copied = "none" /\ lost /\ lost' = FALSE
  /\ UNCHANGED <<control, messages, write, read, writer, copied>>

-----------------------------------------------------------------------------
(* Shutdown, and the settings scan that may still be inside a driver. *)

Waiting == pc \in {"Lease", "TryLock", "Leased"}

Shutdown ==
  /\ running /\ running' = FALSE
  /\ cancelled' = Waiting
  /\ UNCHANGED <<gate, status, warning, pc, mode, reinit, recovery, engaged, asio, wasapi, windows, log>>

\* A scan of the settings dialog gets the gate, or has left the last driver.
\* Bound: only while there is an output that it may meet.
ProbeBegins ==
  /\ gate = "free" /\ pc # "Done" /\ gate' = "probe"
  /\ UNCHANGED <<running, status, warning, cancelled, pc, mode, playback>>

ProbeEnds ==
  /\ gate = "probe" /\ gate' = "free"
  /\ UNCHANGED <<running, status, warning, cancelled, pc, mode, playback>>

\* The UI's timer takes g_audioStartupProbeTimeout and shows its message.
WarnOfTimeout ==
  /\ warning /\ warning' = FALSE
  /\ UNCHANGED <<running, gate, status, cancelled, pc, mode, playback>>

-----------------------------------------------------------------------------
(* InitializationLease's constructor, and what the output does with it. *)

\* while (running.load()).
Lease ==
  /\ pc = "Lease"
  /\ pc' = IF running THEN "TryLock" ELSE "OwnsLock"
  /\ UNCHANGED <<running, lease, mode, playback>>

\* try_lock, then try_lock_for for 20 ms: the gate is got whenever it is free.  While a
\* scan holds it the five seconds may have passed or not.
TryLock ==
  /\ pc = "TryLock"
  /\ \/ gate = "free" /\ gate' = "audio" /\ pc' = "Leased" /\ UNCHANGED status
     \/ gate = "probe" /\ pc' = "Lease" /\ UNCHANGED <<gate, status>>
     \/ gate = "probe" /\ pc' = "OwnsLock" /\ status' = "TimedOut" /\ UNCHANGED gate
  /\ UNCHANGED <<running, warning, cancelled, mode, playback>>

\* Wrong variant: a lock that came after the shutdown is not unlocked.
LeasedLate ==
  /\ pc = "Leased" /\ pc' = "OwnsLock"
  /\ status' = IF running THEN "Acquired" ELSE status
  /\ UNCHANGED <<running, gate, warning, cancelled, mode, playback>>

\* A lock that came after the shutdown is unlocked at once: Cancelled.
Leased ==
  /\ pc = "Leased" /\ pc' = "OwnsLock"
  /\ IF running THEN status' = "Acquired" /\ UNCHANGED gate
                ELSE gate' = "free" /\ UNCHANGED status
  /\ UNCHANGED <<running, warning, cancelled, mode, playback>>

\* The output asks for the lock, not for the status; that only tells it of a timeout.
OwnsLock ==
  /\ pc = "OwnsLock"
  /\ pc' = IF gate # "audio" THEN "Return" ELSE IF mode = "Asio" THEN "AsioOpen" ELSE "Begin"
  /\ warning' = (warning \/ (gate # "audio" /\ status = "TimedOut"))
  /\ UNCHANGED <<running, gate, status, cancelled, mode, playback>>

\* The lease is on the stack: its destructor unlocks what it owns.
Return ==
  /\ At("Return")
  /\ pc' = "Done" /\ gate' = IF gate = "audio" THEN "free" ELSE gate
  /\ UNCHANGED <<running, status, warning, cancelled, mode, playback>>

-----------------------------------------------------------------------------
(* AudioRenderThreadAsio and asio::Output. *)

Kept == <<running, lease, mode, wasapi, windows>>

AsioOpen ==
  /\ At("AsioOpen") /\ restart' = FALSE
  /\ \/ driver' = "open" /\ pc' = "AsioPrepare"
     \/ driver' = "closed" /\ pc' = "AsioFailed"
  /\ UNCHANGED <<Kept, reinit, recovery, engaged, active, accept, callback, after, log>>

\* The buffers exist; on a restart beforeStart first resets the render state.
AsioPrepare ==
  /\ At("AsioPrepare")
  /\ \/ /\ pc' = "AsioStart" /\ active' = TRUE /\ accept' = TRUE
        /\ engaged' = (engaged /\ ~reinit)
        /\ UNCHANGED after
     \/ pc' = "Hide" /\ after' = "AsioFailed" /\ UNCHANGED <<active, accept, engaged>>
  /\ UNCHANGED <<Kept, reinit, recovery, driver, restart, callback, log>>

\* Wrong variant: sessionStartMs keeps the start of the first session.
AsioStartUntimed ==
  /\ At("AsioStart")
  /\ \/ /\ driver' = "started" /\ pc' = "AsioRun" /\ UNCHANGED after
     \/ /\ pc' = "Hide" /\ after' = "AsioFailed" /\ UNCHANGED driver
  /\ UNCHANGED <<Kept, reinit, recovery, engaged, active, accept, restart, callback, log>>

AsioStart ==
  /\ At("AsioStart")
  /\ \/ driver' = "started" /\ pc' = "AsioRun" /\ healthy' = FALSE /\ UNCHANGED after
     \/ pc' = "Hide" /\ after' = "AsioFailed" /\ UNCHANGED <<driver, healthy>>
  /\ UNCHANGED <<Kept, reinit, attempts, healthySessions, engaged>>
  /\ UNCHANGED <<active, accept, restart, callback, log>>

\* Time passes: a session has run for 30 seconds.
Plays ==
  /\ pc \in {"AsioRun", "Loop"} /\ ~healthy /\ healthySessions < MaxHealthy
  /\ healthy' = TRUE /\ healthySessions' = healthySessions + 1
  /\ UNCHANGED <<running, lease, pc, mode, reinit, attempts, engaged, asio, wasapi, windows, log>>

Observed == IF healthy THEN 0 ELSE attempts

AsioRun ==
  /\ At("AsioRun")
  /\ \/ /\ ~running /\ after' = "Return" /\ UNCHANGED <<attempts, reinit>>
     \/ /\ running /\ restart /\ after' = "AsioRetry"
        /\ attempts' = Observed /\ reinit' = TRUE
  /\ pc' = "Hide"
  /\ UNCHANGED <<Kept, healthy, healthySessions, engaged>>
  /\ UNCHANGED <<driver, active, accept, restart, callback, log>>

(* Output::Stop: no new callback finds the output, the last one is awaited. *)

Hide ==
  /\ At("Hide") /\ pc' = "Join"
  /\ accept' = FALSE /\ active' = FALSE
  /\ UNCHANGED <<Kept, reinit, recovery, engaged, driver, restart, callback, after, log>>

\* Wrong variant: the driver is closed while its callback may be writing.
JoinAtOnce ==
  /\ At("Join") /\ pc' = after
  /\ driver' = "closed" /\ after' = "none"
  /\ UNCHANGED <<Kept, reinit, recovery, engaged, active, accept, restart, callback, log>>

Join ==
  /\ At("Join") /\ (driver = "started" => callback = "none") /\ pc' = after
  /\ driver' = "closed" /\ after' = "none"
  /\ UNCHANGED <<Kept, reinit, recovery, engaged, active, accept, restart, callback, log>>

\* The first Start failed, or one of the recovery loop's.
AsioFailed ==
  /\ At("AsioFailed") /\ pc' = IF reinit THEN "AsioRetry" ELSE "FallBack"
  /\ UNCHANGED <<Kept, reinit, recovery, engaged, asio, log>>

AsioRetry ==
  /\ At("AsioRetry")
  /\ IF ~running THEN pc' = "Return" /\ UNCHANGED attempts
     ELSE IF attempts < Attempts THEN pc' = "AsioWait" /\ attempts' = attempts + 1
     ELSE pc' = "FallBack" /\ UNCHANGED attempts
  /\ UNCHANGED <<Kept, reinit, healthy, healthySessions, engaged, asio, log>>

\* WaitForAudioRetry.
AsioWait ==
  /\ At("AsioWait") /\ pc' = IF running THEN "AsioOpen" ELSE "Return"
  /\ UNCHANGED <<Kept, reinit, recovery, engaged, asio, log>>

\* A new RecoveryPolicy for WASAPI Shared.
FallBack ==
  /\ At("FallBack") /\ pc' = "Begin" /\ mode' = "Shared" /\ reinit' = TRUE /\ attempts' = 0
  /\ UNCHANGED <<running, lease, healthy, healthySessions, engaged, asio, wasapi, windows, log>>

(* The driver's threads. *)

BufferSwitch ==
  /\ driver = "started" /\ callback = "none" /\ active /\ callback' = "fill"
  /\ UNCHANGED <<Kept, pc, reinit, recovery, engaged>>
  /\ UNCHANGED <<driver, active, accept, restart, after, log>>

\* Switch and FillAsioPcm: nothing is rendered once a restart is requested.
Fill ==
  /\ callback = "fill"
  /\ \/ callback' = "none" /\ UNCHANGED <<engaged, log>>
     \/ /\ ~restart /\ ~engaged /\ engaged' = TRUE
        /\ callback' = "logging" /\ Log("callback", "drift")
  /\ UNCHANGED <<Kept, pc, reinit, recovery, driver, active, accept, restart, after>>

SwitchReturns ==
  /\ callback = "logging" /\ writer["callback"].at = "idle" /\ callback' = "none"
  /\ UNCHANGED <<Kept, pc, reinit, recovery, engaged>>
  /\ UNCHANGED <<driver, active, accept, restart, after, log>>

\* A reset or resync request, or a changed sample rate (AsioSampleRateChanged).
AsioMessage ==
  /\ accept /\ driver # "closed" /\ ~restart /\ restart' = TRUE
  /\ UNCHANGED <<Kept, pc, reinit, recovery, engaged>>
  /\ UNCHANGED <<driver, active, accept, callback, after, log>>

-----------------------------------------------------------------------------
(* AudioRenderThread's loop and wasapi::Run. *)

Begin ==
  /\ At("Begin")
  /\ IF running
       THEN pc' = "Register" /\ healthy' = FALSE /\ engaged' = FALSE
       ELSE pc' = "Return" /\ UNCHANGED <<healthy, engaged>>
  /\ UNCHANGED <<running, lease, mode, reinit, attempts, healthySessions>>
  /\ UNCHANGED <<asio, wasapi, windows, log>>

\* A step of Run that ends it; a "refused" end is never worth a retry.
Fails(kinds) ==
  /\ failure' \in kinds /\ pc' = "Close" /\ Log("owner", "failed")

Opened == <<running, lease, mode, reinit, attempts, engaged, asio>>

Register ==
  /\ At("Register")
  /\ \/ registered' \in (IF follow THEN BOOLEAN ELSE {FALSE}) /\ pc' = "Watch"
        /\ UNCHANGED <<failure, log>>
     \/ Fails({"other", "refused"}) /\ UNCHANGED registered
  /\ UNCHANGED <<Opened, healthy, healthySessions, follow, endpoint, changed, session, defaultChange>>
  /\ UNCHANGED windows

\* watchedDefaultGeneration is read after the registration ...
Watch ==
  /\ At("Watch") /\ changed' = FALSE /\ pc' = "Endpoint"
  /\ UNCHANGED <<Opened, healthy, healthySessions, follow, endpoint, registered, stream, windows, log>>

\* ... and before the endpoint is looked up.
Endpoint ==
  /\ At("Endpoint")
  /\ \/ /\ endpoint' = IF follow THEN default ELSE "chosen"
        /\ pc' = "Prepare" /\ UNCHANGED <<failure, log>>
     \/ Fails({"other"}) /\ UNCHANGED endpoint
  /\ UNCHANGED <<Opened, healthy, healthySessions, follow, registered, changed, session, defaultChange>>
  /\ UNCHANGED windows

\* An exclusive format that Windows would have changed ends Run with S_FALSE.
PrepareFailures ==
  {"other", "invalidated"} \cup (IF mode = "Exclusive" THEN {"refused"} ELSE {})

\* Wrong variant: the generation to watch is read once the endpoint is open.
PrepareAndWatch ==
  /\ At("Prepare") /\ changed' = FALSE
  /\ \/ pc' = "Start" /\ UNCHANGED <<failure, log>>
     \/ Fails(PrepareFailures)
  /\ UNCHANGED <<Opened, healthy, healthySessions, follow, endpoint, registered, session, defaultChange>>
  /\ UNCHANGED windows

\* Activation, format, buffer, event, service and priming.
Prepare ==
  /\ At("Prepare")
  /\ \/ pc' = "Start" /\ UNCHANGED <<failure, log>>
     \/ Fails(PrepareFailures)
  /\ UNCHANGED <<Opened, healthy, healthySessions, follow, endpoint, registered, changed>>
  /\ UNCHANGED <<session, defaultChange, windows>>

Start ==
  /\ At("Start")
  /\ \/ pc' = "Loop" /\ session' = TRUE /\ UNCHANGED <<failure, log>>
     \/ Fails({"other", "invalidated"}) /\ UNCHANGED session
  /\ UNCHANGED <<Opened, healthy, healthySessions, follow, endpoint, registered, changed>>
  /\ UNCHANGED <<defaultChange, windows>>

Loop ==
  /\ At("Loop")
  /\ \/ ~running /\ pc' = "Close" /\ UNCHANGED <<defaultChange, log>>
     \/ /\ running /\ registered /\ changed /\ defaultChange' = TRUE
        /\ pc' = "Close" /\ Log("owner", "notice")
     \/ running /\ ~(registered /\ changed) /\ pc' = "Wait" /\ UNCHANGED <<defaultChange, log>>
  /\ UNCHANGED <<Opened, healthy, healthySessions, follow, endpoint, registered, changed>>
  /\ UNCHANGED <<failure, session, windows>>

\* 100 ms for the device's event; two seconds without one is a failure.
Wait ==
  /\ At("Wait")
  /\ \/ pc' \in {"Render", "Loop"} /\ UNCHANGED <<failure, log>>
     \/ Fails({"other"})
  /\ UNCHANGED <<Opened, healthy, healthySessions, follow, endpoint, registered, changed>>
  /\ UNCHANGED <<session, defaultChange, windows>>

\* GetBuffer, FillWasapiPcm, ReleaseBuffer; Shared defers the drift notice.
Render ==
  /\ At("Render")
  /\ \/ pc' = "Loop" /\ UNCHANGED <<failure, engaged, log>>
     \/ /\ pc' = "Loop" /\ ~engaged /\ engaged' = TRUE /\ UNCHANGED failure
        /\ IF mode = "Exclusive" THEN Log("owner", "drift") ELSE UNCHANGED log
     \/ Fails({"other", "invalidated"}) /\ UNCHANGED engaged
  /\ UNCHANGED <<running, lease, mode, reinit, recovery, asio, follow, endpoint, registered>>
  /\ UNCHANGED <<changed, session, defaultChange, windows>>

\* The device is released and the notification client unregistered, then the generation
\* is read again.
Close ==
  /\ At("Close") /\ pc' = "Classify"
  /\ defaultChange' = (defaultChange \/ (registered /\ changed))
  /\ registered' = FALSE /\ changed' = FALSE /\ endpoint' = "none" /\ notices' = 0
  /\ UNCHANGED <<Opened, healthy, healthySessions, follow>>
  /\ UNCHANGED <<failure, session, default, changes, log>>

\* Without COM, or with S_FALSE for an exclusive format, there is no failed HRESULT.
Retryable == failure \in {"other", "invalidated"} /\ (session \/ reinit \/ failure = "invalidated")

\* Run's result, and what the loop makes of it; Run's locals are gone.
Classify ==
  /\ At("Classify") /\ attempts' = Observed
  /\ healthy' = FALSE /\ failure' = "none" /\ session' = FALSE /\ defaultChange' = FALSE
  /\ reinit' = (reinit \/ (running /\ defaultChange))
  /\ pc' = IF ~running THEN "Return" ELSE IF defaultChange THEN "Begin"
           ELSE IF Retryable THEN "Backoff" ELSE "Return"
  /\ UNCHANGED <<running, lease, mode, healthySessions, engaged, asio>>
  /\ UNCHANGED <<follow, endpoint, registered, changed, windows, log>>

Backoff ==
  /\ At("Backoff")
  /\ IF attempts < Attempts
       THEN pc' = "Pause" /\ attempts' = attempts + 1 /\ Log("owner", "notice")
       ELSE pc' = "Return" /\ UNCHANGED attempts /\ Log("owner", "notice")
  /\ UNCHANGED <<running, lease, mode, reinit, healthy, healthySessions, engaged, asio, wasapi, windows>>

Pause ==
  /\ At("Pause") /\ pc' = (IF running THEN "Begin" ELSE "Return") /\ reinit' = (reinit \/ running)
  /\ UNCHANGED <<running, lease, mode, recovery, engaged, asio, wasapi, windows, log>>

(* Windows.  Bound: the default changes only while it is being followed. *)

WasapiRun == {"Register", "Watch", "Endpoint", "Prepare", "Start", "Loop", "Wait", "Render", "Close"}

ChangeDefault ==
  /\ follow /\ pc \in WasapiRun /\ changes < MaxChanges /\ changes' = changes + 1
  /\ default' \in Endpoints \ {default}
  /\ notices' = notices + (IF registered THEN 1 ELSE 0)
  /\ UNCHANGED <<running, lease, pc, mode, reinit, recovery, engaged, asio, wasapi, log>>

\* DefaultEndpointNotification::OnDefaultDeviceChanged.
Notify ==
  /\ notices > 0 /\ notices' = notices - 1 /\ changed' = TRUE
  /\ UNCHANGED <<running, lease, pc, mode, reinit, recovery, engaged, asio>>
  /\ UNCHANGED <<follow, endpoint, registered, stream, default, changes, log>>

-----------------------------------------------------------------------------
Asio == AsioOpen \/ AsioPrepare \/ AsioStart \/ AsioRun \/ Hide \/ Join
          \/ AsioFailed \/ AsioRetry \/ AsioWait \/ FallBack
Wasapi == Begin \/ Register \/ Watch \/ Endpoint \/ Prepare \/ Start \/ Loop \/ Wait
            \/ Render \/ Close \/ Classify \/ Backoff \/ Pause
Owner == Lease \/ TryLock \/ Leased \/ OwnsLock \/ Return \/ Asio \/ Wasapi
Driver == Fill \/ SwitchReturns
Pushes(w) == CopyMessage(w) \/ Publish(w)
Flush == PopCopy \/ PopAdvance \/ TakeDropped

Next ==
  \/ Owner \/ Driver \/ BufferSwitch \/ AsioMessage \/ Plays
  \/ (\E w \in Writers : Pushes(w)) \/ Flush
  \/ Shutdown \/ ProbeBegins \/ ProbeEnds \/ WarnOfTimeout \/ ChangeDefault \/ Notify

Spec == Init /\ [][Next]_vars

\* Threads that can run do run, and Windows delivers its notifications.
FairSpec ==
  /\ Spec /\ WF_vars(Owner) /\ WF_vars(Driver) /\ WF_vars(Notify)
  /\ \A w \in Writers : WF_vars(Pushes(w))

-----------------------------------------------------------------------------
(* Properties. *)

\* The messages between the two indices, oldest first.
Pending ==
  [i \in 1 .. (write + (Capacity + 1) - read) % (Capacity + 1) |->
     messages[(read + i - 1) % (Capacity + 1)]]

Queue == INSTANCE MessageQueue WITH Message <- Messages, None <- "none",
                               queue <- Pending

\* The lock-free queue is a bounded first-in first-out queue, with the ASIO callback
\* and the owner both writing to it: a message that was given a slot is read once, in
\* order, and no slot is overwritten, because the handover of RealtimeLogQueue.h:11
\* is one writer at a time; and losses are reported only when the queue was full.
ImplementsMessageQueue == Queue!Spec

\* A driver that keeps failing or keeps asking for a reset is given up: with
\* finitely many healthy sessions there are finitely many restarts.
RetriesEnd == <>[](pc \notin {"AsioWait", "Pause"})

\* A session on the default endpoint that is no longer the default one, and
\* whose notifications are registered, moves to the new default.
Playing == pc \in {"Loop", "Wait", "Render"}
FollowsDefault ==
  (Playing /\ registered /\ endpoint # default)
    ~> (~running \/ pc = "Done" \/ (Playing /\ (~registered \/ endpoint = default)))

\* InitializationLease.h:22 and main.cpp:2027: an output that was told to stop while it
\* still waited for the gate, or that timed out there, never enters a driver, although
\* the lock may have come to it after that; and no settings scan is in a driver while
\* the output is, to the end of its last session ("so no late scan can seize the active
\* output").
InDriver ==
  pc \in WasapiRun \cup {"AsioOpen", "AsioPrepare", "AsioStart", "AsioRun", "Hide", "Join"}

DriversLeased == InDriver => ~cancelled /\ status # "TimedOut" /\ gate = "audio"

-----------------------------------------------------------------------------
(* The inductive invariant behind ImplementsMessageQueue and DriversLeased. *)

\* The indices, slots and messages have their types.
LogTyped ==
  /\ write \in Positions /\ read \in Positions
  /\ messages \in [Positions -> Messages \cup {"none"}]
  /\ writer \in [Writers -> [at : {"idle", "copy", "publish"}, slot : Positions,
                             message : Messages \cup {"none"}]]
  /\ copied \in Messages \cup {"none"}

\* Only the session of one output writes at a time: a driver that calls back is
\* started, and from its start until Join has awaited the last callback the owner
\* is not inside Push.
OneWriter ==
  /\ writer["owner"].at # "idle" => pc \in {"Close", "Loop", "Pause", "Return"}
  /\ driver = "started" => pc \in {"AsioRun", "Hide", "Join"}
  /\ callback # "none" => driver = "started"
  /\ writer["callback"].at # "idle" => callback = "logging"

\* A writer's slot is still the next one, still free and filled when published; and
\* the message the reader copies is still in its place.
Writing ==
  /\ \A w \in Writers :
       writer[w].at # "idle" => writer[w].slot = write /\ Room /\ writer[w].message \in Messages
  /\ \A w \in Writers :
       writer[w].at = "publish" => messages[writer[w].slot] = writer[w].message
  /\ copied # "none" => read # write

\* The gate is the output's from its lease to its return, and never after a timeout.
Leasing ==
  /\ after \in {"none", "AsioFailed", "AsioRetry", "Return"}
  /\ pc \in {"Lease", "TryLock", "Done"} => gate # "audio"
  /\ gate = "audio" \/ pc \in {"Lease", "TryLock", "OwnsLock", "Return", "Done"}
  /\ status = "TimedOut" => gate # "audio" /\ pc \in {"OwnsLock", "Return", "Done"}
  /\ cancelled =>
       ~running /\ (Waiting \/ (gate # "audio" /\ pc \in {"OwnsLock", "Return", "Done"}))

IInv == LogTyped /\ OneWriter /\ Writing /\ Leasing
=============================================================================
