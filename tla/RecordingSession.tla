-------------------------- MODULE RecordingSession --------------------------
(***************************************************************************)
(* One Recorder object (src/recording/Recorder.cpp) and the threads that   *)
(* use it without a common lock:                                           *)
(*                                                                         *)
(*   video, audio   the two DirectShow pins, each a serialized producer    *)
(*                  calling Push while graph callbacks run;                *)
(*   worker         the thread Start creates, running Run;                 *)
(*   ui             Start, Stop from the window procedure;                 *)
(*   owner          Configure, Shutdown from the capture thread.           *)
(*                                                                         *)
(* A thread's location `pc' names the next atomic access of shared state:  *)
(* one atomic load, store or read-modify-write of the code per action.     *)
(* Fail and Stop are called from several threads: they are actions of      *)
(* every thread, and `ret' is the location they return to.  Packets are    *)
(* counted, not stored (RecordingPause models their contents); an error    *)
(* code is represented by the Failure class it is reported as, any of      *)
(* Classes.                                                                *)
(***************************************************************************)
EXTENDS Naturals, FiniteSets

CONSTANTS
  Classes,      \* the Failure classes ClassifyFailure may report
  Slots,        \* [Pins -> Nat]: packets.size() of each ring
  Bursts,       \* [Pins -> SUBSET Nat]: packets one Push may publish
  MaxSessions,  \* bound: how many recordings are started
  MaxPackets,   \* bound: packets of each recording after which a pin is silent
  MaxCalls      \* bound: Configure and Shutdown calls of the owner

Pins    == {"video", "audio"}
Threads == Pins \cup {"worker", "ui", "owner"}

Phases == {"Idle", "Starting", "Recording", "Finalizing", "Saved", "Failed"}

ASSUME SlotsAssumption  == Slots \in [Pins -> Nat \ {0}]
ASSUME BurstsAssumption == Bursts \in [Pins -> SUBSET (Nat \ {0})]
ASSUME ClassesAssumption == Classes # {} /\ {"OK", "None"} \cap Classes = {}
ASSUME BoundsAssumption ==
  /\ MaxSessions \in Nat /\ MaxCalls \in Nat
  /\ MaxPackets \in [1 .. MaxSessions -> [Pins -> Nat]]

VARIABLES
  \* shared atomics and handles of the Recorder
  phase, stop, busy, session, result, failure, producers, wake,
  wr, rd,      \* write and read index of each ring
  \* plain members the protocol has to protect
  alloc,       \* the rings and their pools exist
  valid,       \* video_ describes a format Start accepts
  playable,    \* snapshot_.playable
  lifecycle,   \* holder of the lifecycle mutex, or "free"
  \* the threads
  pc, ret,
  err,         \* class a thread in Fail has yet to report
  seen,        \* session a pin loaded on entry to Push
  batch,       \* packets the pin's current Push publishes
  \* locals of Run
  has,         \* rings found non-empty by this iteration
  taken,       \* ring the current packet is taken from
  begun,       \* BeginWriting succeeded
  wrote,       \* streams that wrote at least one packet
  calls        \* calls of the owner so far (bound only)

status  == <<phase, stop, busy, failure>>
atomics == <<status, session, result>>
rings   == <<wr, rd, alloc>>
member  == <<valid, playable>>
call    == <<ret, err>>
pinVars == <<seen, batch>>
runVars == <<has, taken, begun, wrote>>
vars == <<atomics, producers, wake, rings, member, lifecycle, pc, call,
          pinVars, runVars, calls>>

Goto(t, label) == pc' = [pc EXCEPT ![t] = label]
At(t, label)   == pc[t] = label

Init ==
  /\ phase = "Idle" /\ stop = FALSE /\ busy = FALSE /\ session = 0
  /\ result = "OK" /\ failure = "None" /\ producers = 0 /\ wake = FALSE
  /\ wr = [p \in Pins |-> 0] /\ rd = [p \in Pins |-> 0] /\ alloc = FALSE
  /\ valid = FALSE /\ playable = FALSE /\ lifecycle = "free"
  /\ pc = [t \in Threads |-> IF t = "worker" THEN "none" ELSE "idle"]
  /\ ret = [t \in Threads |-> "idle"]
  /\ err = [t \in Threads |-> "None"]
  /\ seen = [p \in Pins |-> 0] /\ batch = [p \in Pins |-> 1]
  /\ has = {} /\ taken = "video" /\ begun = FALSE /\ wrote = {}
  /\ calls = 0

-----------------------------------------------------------------------------
(* Fail and Stop, on whichever thread calls them.                          *)

\* Thread t calls Fail and continues at `back'.
CallFail(t, back) ==
  /\ Goto(t, "failResult")
  /\ ret' = [ret EXCEPT ![t] = back]
  /\ UNCHANGED err

CallStop(t, back) ==
  /\ Goto(t, "stopFlag")
  /\ ret' = [ret EXCEPT ![t] = back]
  /\ UNCHANGED err

\* result_.compare_exchange_strong(ok,hr): the first failure is kept.
FailResult(t) ==
  /\ At(t, "failResult")
  /\ \/ /\ result = "OK"
        /\ \E c \in Classes : result' = c /\ err' = [err EXCEPT ![t] = c]
        /\ Goto(t, "failClass")
     \/ result # "OK" /\ UNCHANGED <<result, err>> /\ Goto(t, "stopFlag")
  /\ UNCHANGED <<phase, stop, failure, wake, ret>>

\* failure_.compare_exchange_strong(none,ClassifyFailure(..)).
FailClass(t) ==
  /\ At(t, "failClass")
  /\ failure' = IF failure = "None" THEN err[t] ELSE failure
  /\ err' = [err EXCEPT ![t] = "None"]
  /\ Goto(t, "stopFlag")
  /\ UNCHANGED <<phase, stop, result, wake, ret>>

StopFlag(t) ==
  /\ At(t, "stopFlag")
  /\ stop' = TRUE
  /\ Goto(t, "stopPhase")
  /\ UNCHANGED <<call, phase, result, failure, wake>>

\* Wrong variant: a stop during encoder start-up does not close admission.
BeginFinalizingLate(ph) == IF ph = "Recording" THEN "Finalizing" ELSE ph

BeginFinalizing(ph) == IF ph \in {"Starting", "Recording"} THEN "Finalizing" ELSE ph

StopPhase(t) ==
  /\ At(t, "stopPhase")
  /\ phase' = BeginFinalizing(phase)
  /\ Goto(t, "stopEvent")
  /\ UNCHANGED <<call, stop, result, failure, wake>>

StopEvent(t) ==
  /\ At(t, "stopEvent")
  /\ wake' = TRUE
  /\ Goto(t, ret[t])
  /\ ret' = [ret EXCEPT ![t] = "idle"]
  /\ UNCHANGED <<phase, stop, result, failure, err>>

FailOrStop(t) ==
  /\ FailResult(t) \/ FailClass(t) \/ StopFlag(t) \/ StopPhase(t) \/ StopEvent(t)
  /\ UNCHANGED <<busy, session, producers, rings, member, lifecycle, pinVars,
                 runVars, calls>>

-----------------------------------------------------------------------------
(* Push, on the thread of pin p.                                           *)

Recording == phase = "Recording"
Used(p)   == wr[p] - rd[p]

\* A callback arrives: session_ is loaded before the first Recording() test.
\* The pin is silent once it published MaxPackets[session][p] (bound).
PushEnter(p) ==
  /\ At(p, "idle")
  /\ alloc => wr[p] < MaxPackets[session][p]
  /\ seen' = [seen EXCEPT ![p] = session]
  /\ Goto(p, "gate1")
  /\ UNCHANGED <<call, producers, wake, wr, batch>>

PushGate1(p) ==
  /\ At(p, "gate1")
  /\ \/ Recording /\ Goto(p, "enter") /\ UNCHANGED seen
     \/ ~Recording /\ Goto(p, "idle") /\ seen' = [seen EXCEPT ![p] = 0]
  /\ UNCHANGED <<call, producers, wake, wr, batch>>

\* The Guard's constructor: ++producers_.
PushCount(p) ==
  /\ At(p, "enter")
  /\ producers' = producers + 1
  /\ Goto(p, "gate2")
  /\ UNCHANGED <<pinVars, call, wake, wr>>

\* Wrong variant: a counted callback does not look at the phase again.
PushGate2Unguarded(p) ==
  /\ At(p, "gate2")
  /\ Goto(p, "gate3")
  /\ UNCHANGED <<pinVars, call, producers, wake, wr>>

\* Recording() is loaded before session_ (short circuit).
PushGate2(p) ==
  /\ At(p, "gate2")
  /\ Goto(p, IF Recording THEN "gate3" ELSE "leave")
  /\ UNCHANGED <<pinVars, call, producers, wake, wr>>

SameSession(p) == seen[p] = session

PushGate3(p) ==
  /\ At(p, "gate3")
  /\ Goto(p, IF SameSession(p) THEN "admitted" ELSE "leave")
  /\ UNCHANGED <<pinVars, call, producers, wake, wr>>

\* The sample is discarded: input is paused or the frame limiter skips it.
PushDiscard(p) ==
  /\ At(p, "admitted")
  /\ Goto(p, "leave")
  /\ UNCHANGED <<pinVars, call, producers, wake, wr>>

\* Wrong variant: the ring is taken to hold one packet more.
PushReserveMore(p) ==
  /\ At(p, "admitted")
  /\ \E n \in Bursts[p] :
       /\ n + Used(p) <= Slots[p] + 1
       /\ batch' = [batch EXCEPT ![p] = n]
  /\ Goto(p, "fill")
  /\ UNCHANGED <<call, producers, wake, wr, seen>>

\* Room for the whole batch and a lease for every packet of it: slots are
\* filled from here on, all invisible until the write index moves.
PushReserve(p) ==
  /\ At(p, "admitted")
  /\ \E n \in Bursts[p] :
       /\ n + Used(p) <= Slots[p]
       /\ batch' = [batch EXCEPT ![p] = n]
  /\ Goto(p, "fill")
  /\ UNCHANGED <<call, producers, wake, wr, seen>>

\* The sample is invalid, the ring cannot take it, or the pool's leases are
\* all held downstream.
PushRefused(p) ==
  /\ At(p, "admitted")
  /\ CallFail(p, "leave")
  /\ UNCHANGED <<pinVars, producers, wake, wr>>

\* A lease was taken but the copy failed; the slot was never published.
PushCopyFails(p) ==
  /\ At(p, "fill")
  /\ CallFail(p, "leave")
  /\ UNCHANGED <<pinVars, producers, wake, wr>>

\* queue.write.store(write+count,release): one store publishes the batch.
PushPublish(p) ==
  /\ At(p, "fill")
  /\ wr' = [wr EXCEPT ![p] = @ + batch[p]]
  /\ Goto(p, "notify")
  /\ UNCHANGED <<pinVars, call, producers, wake>>

PushNotify(p) ==
  /\ At(p, "notify")
  /\ wake' = TRUE
  /\ Goto(p, "leave")
  /\ UNCHANGED <<pinVars, call, producers, wr>>

\* The Guard's destructor: --producers_, then the test of stop_.
PushLeave(p) ==
  /\ At(p, "leave")
  /\ producers' = producers - 1
  /\ seen' = [seen EXCEPT ![p] = 0] /\ batch' = [batch EXCEPT ![p] = 1]
  /\ Goto(p, IF producers' = 0 THEN "lastOut" ELSE "idle")
  /\ UNCHANGED <<call, wake, wr>>

\* Wrong variant: the last callback out does not look at stop_.
PushLastOutSilent(p) ==
  /\ At(p, "lastOut")
  /\ Goto(p, "idle")
  /\ UNCHANGED <<pinVars, call, producers, wake, wr>>

PushLastOut(p) ==
  /\ At(p, "lastOut")
  /\ Goto(p, IF stop THEN "lastEvent" ELSE "idle")
  /\ UNCHANGED <<pinVars, call, producers, wake, wr>>

PushLastEvent(p) ==
  /\ At(p, "lastEvent")
  /\ wake' = TRUE
  /\ Goto(p, "idle")
  /\ UNCHANGED <<pinVars, call, producers, wr>>

\* The graph issues PushEnter; the callback then runs by itself.
PushFrame == UNCHANGED <<atomics, rd, alloc, member, lifecycle, runVars, calls>>

PushStep(p) ==
  \/ /\ \/ PushGate1(p) \/ PushCount(p) \/ PushGate2(p) \/ PushGate3(p)
        \/ PushDiscard(p) \/ PushReserve(p) \/ PushRefused(p)
        \/ PushCopyFails(p) \/ PushPublish(p) \/ PushNotify(p)
        \/ PushLeave(p) \/ PushLastOut(p) \/ PushLastEvent(p)
     /\ PushFrame
  \/ FailOrStop(p)

-----------------------------------------------------------------------------
(* Run, on the worker thread.                                              *)

W == "worker"

\* COM, the folder, free space, converter checks: nothing is open yet.
SetupFails ==
  /\ pc[W] \in {"setup", "prepared"}
  /\ CallFail(W, "finalStop")
  /\ UNCHANGED <<status, rings, runVars, wake, playable>>

PrepareQueues ==
  /\ At(W, "setup")
  /\ wr' = [p \in Pins |-> 0] /\ rd' = [p \in Pins |-> 0] /\ alloc' = TRUE
  /\ Goto(W, "prepared")
  /\ UNCHANGED <<status, runVars, call, wake, playable>>

\* File and sink writer opened, streams added, BeginWriting succeeded.
BeginWriting ==
  /\ At(W, "prepared")
  /\ begun' = TRUE
  /\ Goto(W, "begun")
  /\ UNCHANGED <<status, rings, call, wake, playable, has, taken, wrote>>

\* VerifyRateControl rejects the encoder after writing has begun.
VerifyFails ==
  /\ At(W, "begun")
  /\ CallFail(W, "finalStop")
  /\ UNCHANGED <<status, rings, runVars, wake, playable>>

TryPublishRecording ==
  /\ At(W, "begun")
  /\ \/ /\ phase = "Starting" /\ phase' = "Recording"
        /\ Goto(W, "check")
     \/ /\ phase # "Starting" /\ UNCHANGED phase
        /\ Goto(W, "publishStop")
  /\ UNCHANGED <<rings, runVars, call, stop, busy, failure, wake, playable>>

PublishStop ==
  /\ At(W, "publishStop")
  /\ stop' = TRUE
  /\ Goto(W, "check")
  /\ UNCHANGED <<rings, runVars, call, phase, busy, failure, wake, playable>>

\* RecordingStorageResult, the flush and space requests of each second.
StorageFails ==
  /\ At(W, "check")
  /\ CallFail(W, "finalStop")
  /\ UNCHANGED <<status, rings, runVars, wake, playable>>

StorageHealthy ==
  /\ At(W, "check")
  /\ Goto(W, "loadVideo")
  /\ UNCHANGED <<status, rings, runVars, call, wake, playable>>

\* Free space fell below the reserve: a class without an error, then Stop().
LowSpace ==
  /\ At(W, "check") /\ ~stop
  /\ failure' = IF failure = "None" THEN "DiskFull" ELSE failure
  /\ CallStop(W, "loadVideo")
  /\ UNCHANGED <<rings, runVars, phase, stop, busy, wake, playable>>

NonEmpty(p) == wr[p] # rd[p]

LoadVideo ==
  /\ At(W, "loadVideo")
  /\ has' = {p \in {"video"} : NonEmpty(p)}
  /\ Goto(W, "loadAudio")
  /\ UNCHANGED <<status, rings, call, wake, playable, taken, begun, wrote>>

LoadAudio ==
  /\ At(W, "loadAudio")
  /\ has' = has \cup {p \in {"audio"} : NonEmpty(p)}
  /\ Goto(W, IF has' = {} THEN "readyStop" ELSE "select")
  /\ UNCHANGED <<status, rings, call, wake, playable, taken, begun, wrote>>

\* ReadyToFinalizeRecording: four tests, short circuit, in this order.
ReadyTest(label, ok, yes) ==
  /\ At(W, label)
  /\ Goto(W, IF ok THEN yes ELSE "wait")
  /\ UNCHANGED <<status, rings, runVars, call, wake, playable>>

ReadyStop      == ReadyTest("readyStop", stop, "readyPhase")
ReadyPhase     == ReadyTest("readyPhase", ~Recording, "readyProducers")
ReadyProducers == ReadyTest("readyProducers", producers = 0, "readyTails")
\* Wrong variant: the write indices are not read again.
ReadyTailsOld  == ReadyTest("readyTails", TRUE, "finalStop")
ReadyTails     == ReadyTest("readyTails", \A p \in Pins : ~NonEmpty(p), "finalStop")

\* WaitForSingleObject on the auto-reset event, 1000 ms or 10 ms.
WaitSignalled ==
  /\ pc[W] \in {"wait", "hold"} /\ wake
  /\ wake' = FALSE
  /\ Goto(W, "check")
  /\ UNCHANGED <<status, rings, runVars, call, playable>>

WaitTimeout ==
  /\ pc[W] \in {"wait", "hold"} /\ ~wake
  /\ Goto(W, "check")
  /\ UNCHANGED <<status, rings, runVars, call, wake, playable>>

\* Audio of a resumed epoch waits for the epoch's first video frame.
HoldAudio ==
  /\ At(W, "select") /\ has = {"audio"} /\ ~stop
  /\ Goto(W, "hold")
  /\ UNCHANGED <<status, rings, runVars, call, wake, playable>>

\* The earlier of the two heads; the slot is read here.
Select ==
  /\ At(W, "select")
  /\ \E p \in has : taken' = p
  /\ Goto(W, "move")
  /\ UNCHANGED <<status, rings, call, wake, playable, has, begun, wrote>>

\* The packet has left its slot: queue.read.store(read+1,release).
Advance ==
  /\ At(W, "move")
  /\ rd' = [rd EXCEPT ![taken] = @ + 1]
  /\ Goto(W, "encode")
  /\ UNCHANGED <<status, runVars, call, wake, wr, alloc, playable>>

\* Map, convert, write: kept and written, or cut away by a pause.
Encode ==
  /\ At(W, "encode")
  /\ wrote' \in {wrote, wrote \cup {taken}}
  /\ has' = {} /\ taken' = "video"
  /\ Goto(W, "check")
  /\ UNCHANGED <<status, rings, call, wake, playable, begun>>

EncodeFails ==
  /\ At(W, "encode")
  /\ CallFail(W, "finalStop")
  /\ UNCHANGED <<status, rings, runVars, wake, playable>>

\* The loop or its handler is left: Stop(), then wait for the producers.
FinalStop ==
  /\ At(W, "finalStop")
  /\ CallStop(W, "drain")
  /\ UNCHANGED <<status, rings, runVars, wake, playable>>

\* Wrong variant: the queues are given up while callbacks are inside Push.
DrainAtOnce ==
  /\ At(W, "drain")
  /\ Goto(W, IF begun THEN "finish" ELSE "free")
  /\ UNCHANGED <<status, rings, runVars, call, wake, playable>>

Drain ==
  /\ At(W, "drain")
  /\ producers = 0
  /\ Goto(W, IF begun THEN "finish" ELSE "free")
  /\ UNCHANGED <<status, rings, runVars, call, wake, playable>>

\* timeline->Finish and writer->Finalize.
Finish ==
  /\ At(W, "finish")
  /\ \/ Goto(W, "counts") /\ UNCHANGED call
     \/ CallFail(W, "counts")
  /\ UNCHANGED <<status, rings, runVars, wake, playable>>

\* Wrong variant: a recording without audio or video is not refused.
CountsIgnored ==
  /\ At(W, "counts")
  /\ Goto(W, "close")
  /\ UNCHANGED <<status, rings, runVars, call, wake, playable>>

\* A stream without any packet makes the recording invalid.
CheckCounts ==
  /\ At(W, "counts")
  /\ \/ wrote = Pins /\ Goto(W, "close") /\ UNCHANGED call
     \/ wrote # Pins /\ CallFail(W, "close")
  /\ UNCHANGED <<status, rings, runVars, wake, playable>>

\* Flush and Close of the byte stream or archive.
CloseFile ==
  /\ At(W, "close")
  /\ \/ Goto(W, "validate") /\ UNCHANGED call
     \/ CallFail(W, "validate")
  /\ UNCHANGED <<status, rings, runVars, wake, playable>>

\* ValidateCompletedRecording, only when both streams were written.
Validate ==
  /\ At(W, "validate")
  /\ \/ wrote # Pins /\ Goto(W, "free") /\ UNCHANGED <<playable, ret, err>>
     \/ wrote = Pins /\ playable' = TRUE /\ Goto(W, "free") /\ UNCHANGED call
     \/ wrote = Pins /\ playable' = FALSE /\ CallFail(W, "free")
  /\ UNCHANGED <<status, rings, runVars, wake>>

\* The ring vectors are freed and the pools cleared.
FreeQueues ==
  /\ At(W, "free")
  /\ alloc' = FALSE
  /\ Goto(W, "outcome")
  /\ UNCHANGED <<status, runVars, call, wake, wr, rd, playable>>

Outcome ==
  /\ At(W, "outcome")
  /\ phase' = IF result = "OK" THEN "Saved" ELSE "Failed"
  /\ Goto(W, "exit")
  /\ UNCHANGED <<rings, runVars, call, stop, busy, failure, wake, playable>>

\* busy_=false is Run's last statement; the thread is then joinable.
RunEnds ==
  /\ At(W, "exit")
  /\ busy' = FALSE
  /\ begun' = FALSE /\ wrote' = {} /\ has' = {}
  /\ taken' = "video"
  /\ Goto(W, "none")
  /\ UNCHANGED <<rings, call, phase, stop, failure, wake, playable>>

WorkerStep ==
  \/ /\ \/ SetupFails \/ PrepareQueues \/ BeginWriting \/ VerifyFails
        \/ TryPublishRecording \/ PublishStop
        \/ StorageFails \/ StorageHealthy \/ LowSpace \/ LoadVideo \/ LoadAudio
        \/ ReadyStop \/ ReadyPhase \/ ReadyProducers \/ ReadyTails
        \/ WaitSignalled \/ WaitTimeout \/ HoldAudio \/ Select \/ Advance
        \/ Encode \/ EncodeFails \/ FinalStop \/ Drain \/ Finish \/ CheckCounts
        \/ CloseFile \/ Validate \/ FreeQueues \/ Outcome \/ RunEnds
     /\ UNCHANGED <<session, result, producers, valid, lifecycle, pinVars, calls>>
  \/ FailOrStop(W)

-----------------------------------------------------------------------------
(* Start and Stop on the UI thread, Configure and Shutdown on the capture  *)
(* thread.  Start, Configure and Shutdown hold the lifecycle mutex.        *)

Lock(t)   == lifecycle = "free" /\ lifecycle' = t
Unlock(t) == lifecycle = t /\ lifecycle' = "free"

CallStart ==
  /\ At("ui", "idle") /\ session < MaxSessions
  /\ Goto("ui", "startLock")
  /\ UNCHANGED <<atomics, call, playable, lifecycle>>

StartLock ==
  /\ At("ui", "startLock") /\ Lock("ui")
  /\ Goto("ui", "startBusy")
  /\ UNCHANGED <<atomics, call, playable>>

StartBusy ==
  /\ At("ui", "startBusy")
  /\ \/ busy /\ Unlock("ui") /\ Goto("ui", "idle")
     \/ ~busy /\ Goto("ui", "startJoin") /\ UNCHANGED lifecycle
  /\ UNCHANGED <<atomics, call, playable>>

\* worker_.join(), then ++session_.
StartSession ==
  /\ At("ui", "startJoin") /\ At(W, "none")
  /\ session' = session + 1
  /\ Goto("ui", "startReset")
  /\ UNCHANGED <<status, call, result, playable, lifecycle>>

StartReset ==
  /\ At("ui", "startReset")
  /\ result' = "OK" /\ stop' = FALSE /\ failure' = "None" /\ playable' = FALSE
  /\ Goto("ui", "startPhase")
  /\ UNCHANGED <<call, phase, busy, session, lifecycle>>

StartPhase ==
  /\ At("ui", "startPhase")
  /\ phase' = "Starting"
  /\ Goto("ui", "startAdmit")
  /\ UNCHANGED <<call, stop, busy, session, result, failure, playable, lifecycle>>

\* An unsupported format is refused before any file or thread exists.
StartReject ==
  /\ At("ui", "startAdmit") /\ ~valid
  /\ CallFail("ui", "startRefused")
  /\ UNCHANGED <<atomics, playable, lifecycle>>

StartBusyFlag ==
  /\ At("ui", "startAdmit") /\ valid
  /\ busy' = TRUE
  /\ Goto("ui", "startThread")
  /\ UNCHANGED <<call, phase, stop, session, result, failure, playable, lifecycle>>

StartThread ==
  /\ At("ui", "startThread")
  /\ pc' = [pc EXCEPT !["worker"] = "setup", !["ui"] = "idle"]
  /\ Unlock("ui")
  /\ UNCHANGED <<atomics, call, playable>>

\* std::thread throws: busy_ is withdrawn and the attempt has failed.
StartThreadFails ==
  /\ At("ui", "startThread")
  /\ busy' = FALSE
  /\ CallFail("ui", "startRefused")
  /\ UNCHANGED <<phase, stop, session, result, failure, playable, lifecycle>>

StartRefused ==
  /\ At("ui", "startRefused")
  /\ phase' = "Failed"
  /\ Unlock("ui")
  /\ Goto("ui", "idle")
  /\ UNCHANGED <<call, stop, busy, session, result, failure, playable>>

\* Stop takes no lock: the toggle button, closing, and power events call it.
CallStopUi ==
  /\ At("ui", "idle")
  /\ CallStop("ui", "idle")
  /\ UNCHANGED <<atomics, playable, lifecycle>>

UiFrame == UNCHANGED <<producers, wake, rings, valid, pinVars, runVars, calls>>

UiStep ==
  \/ /\ \/ StartLock \/ StartBusy \/ StartSession \/ StartReset \/ StartPhase
        \/ StartReject \/ StartBusyFlag \/ StartThread \/ StartThreadFails
        \/ StartRefused
     /\ UiFrame
  \/ FailOrStop("ui")

CallConfigure ==
  /\ At("owner", "idle")
  /\ calls < MaxCalls /\ calls' = calls + 1
  /\ Goto("owner", "configureLock")
  /\ UNCHANGED <<call, valid, lifecycle>>

ConfigureLock ==
  /\ At("owner", "configureLock") /\ Lock("owner")
  /\ Goto("owner", "configureBusy")
  /\ UNCHANGED <<call, valid>>

\* Wrong variant: Configure does not look at busy_.
ConfigureAlways ==
  /\ At("owner", "configureBusy")
  /\ Goto("owner", "configure")
  /\ UNCHANGED <<call, valid, lifecycle>>

ConfigureBusy ==
  /\ At("owner", "configureBusy")
  /\ \/ busy /\ Unlock("owner") /\ Goto("owner", "idle")
     \/ ~busy /\ Goto("owner", "configure") /\ UNCHANGED lifecycle
  /\ UNCHANGED <<call, valid>>

\* The plain members video_, audio_, color_ ... are replaced.
Configure ==
  /\ At("owner", "configure")
  /\ valid' \in BOOLEAN
  /\ Unlock("owner")
  /\ Goto("owner", "idle")
  /\ UNCHANGED call

CallShutdown ==
  /\ At("owner", "idle")
  /\ calls < MaxCalls /\ calls' = calls + 1
  /\ Goto("owner", "shutdownLock")
  /\ UNCHANGED <<call, valid, lifecycle>>

ShutdownLock ==
  /\ At("owner", "shutdownLock") /\ Lock("owner")
  /\ CallStop("owner", "shutdownJoin")
  /\ UNCHANGED valid

ShutdownJoin ==
  /\ At("owner", "shutdownJoin") /\ At(W, "none")
  /\ Goto("owner", "shutdownClear")
  /\ UNCHANGED <<call, valid, lifecycle>>

ShutdownClear ==
  /\ At("owner", "shutdownClear")
  /\ valid' = FALSE
  /\ Unlock("owner")
  /\ Goto("owner", "idle")
  /\ UNCHANGED call

OwnerFrame ==
  UNCHANGED <<atomics, producers, wake, rings, playable, pinVars, runVars>>

OwnerStep ==
  \/ /\ \/ ConfigureLock \/ ConfigureBusy \/ Configure
        \/ ShutdownLock \/ ShutdownJoin \/ ShutdownClear
     /\ OwnerFrame /\ UNCHANGED calls
  \/ FailOrStop("owner")

-----------------------------------------------------------------------------
Next ==
  \/ \E p \in Pins : PushEnter(p) /\ PushFrame
  \/ \E p \in Pins : PushStep(p)
  \/ WorkerStep
  \/ (CallStart \/ CallStopUi) /\ UiFrame
  \/ UiStep
  \/ (CallConfigure \/ CallShutdown) /\ OwnerFrame
  \/ OwnerStep

Spec == Init /\ [][Next]_vars

\* A started callback, the worker and a call in progress keep running; nothing
\* forces a new callback, Start, Stop, Configure or Shutdown to be issued.
\* Every step of a thread moves its location, so pc can stand for vars.
Fairness ==
  /\ \A p \in Pins : WF_pc(PushStep(p))
  /\ WF_pc(WorkerStep)
  /\ WF_pc(UiStep)
  /\ WF_pc(OwnerStep)

FairSpec == Spec /\ Fairness
-----------------------------------------------------------------------------
(* Properties.                                                             *)

FailLabels == {"failResult", "failClass"}
StopLabels == {"stopFlag", "stopPhase", "stopEvent"}

PinLabels ==
  {"idle", "gate1", "enter", "gate2", "gate3", "admitted", "fill", "notify",
   "leave", "lastOut", "lastEvent"} \cup FailLabels \cup StopLabels

WorkerLabels ==
  {"none", "setup", "prepared", "begun", "publishStop", "check", "loadVideo",
   "loadAudio", "readyStop", "readyPhase", "readyProducers", "readyTails",
   "wait", "hold", "select", "move", "encode", "finalStop", "drain", "finish",
   "counts", "close", "validate", "free", "outcome", "exit"}
  \cup FailLabels \cup StopLabels

UiLabels ==
  {"idle", "startLock", "startBusy", "startJoin", "startReset", "startPhase",
   "startAdmit", "startThread", "startRefused"} \cup FailLabels \cup StopLabels

OwnerLabels ==
  {"idle", "configureLock", "configureBusy", "configure", "shutdownLock",
   "shutdownJoin", "shutdownClear"} \cup StopLabels

Labels == PinLabels \cup WorkerLabels \cup UiLabels \cup OwnerLabels

\* Every variable has its type; producers_, unsigned in the code, never wraps.
TypeOK ==
  /\ phase \in Phases /\ stop \in BOOLEAN /\ busy \in BOOLEAN
  /\ session \in Nat /\ producers \in Nat /\ wake \in BOOLEAN
  /\ result \in {"OK"} \cup Classes
  /\ failure \in {"None", "DiskFull"} \cup Classes
  /\ wr \in [Pins -> Nat] /\ rd \in [Pins -> Nat]
  /\ alloc \in BOOLEAN /\ valid \in BOOLEAN /\ playable \in BOOLEAN
  /\ lifecycle \in {"free", "ui", "owner"}
  /\ pc \in [Threads -> Labels] /\ ret \in [Threads -> Labels]
  /\ err \in [Threads -> {"None"} \cup Classes]
  /\ seen \in [Pins -> Nat] /\ batch \in [Pins -> Nat \ {0}]
  /\ has \in SUBSET Pins /\ taken \in Pins
  /\ begun \in BOOLEAN /\ wrote \in SUBSET Pins
  /\ calls \in Nat

\* The callback of pin p has passed both gates and may touch ring, pool,
\* limiter and format until it leaves.
Owning(p) == pc[p] \in {"admitted", "fill", "notify"} \cup FailLabels \cup StopLabels

\* A callback that passed the gates works on rings that exist, of the session
\* it saw on entry, while that session is busy: neither the worker's release of
\* the queues nor a Stop followed by a new Start can recycle them under it
\* (Recorder.cpp:589 "Do not let Start/Configure recycle storage").
NoUseAfterRecycle ==
  \A p \in Pins : Owning(p) => alloc /\ busy /\ seen[p] = session

\* A ring is never over-full, and the slots a callback is filling are never
\* the slot the worker is moving a packet out of, batches included.
SlotsExclusive ==
  \A p \in Pins :
    /\ alloc => rd[p] <= wr[p] /\ wr[p] - rd[p] <= Slots[p]
    /\ At(p, "fill") /\ At(W, "move") /\ taken = p =>
         \A k \in 0 .. batch[p] - 1 : (wr[p] + k) % Slots[p] # rd[p] % Slots[p]

\* A recording that has not failed is finalized only after every packet its
\* callbacks published was taken: a callback that entered just before Stop and
\* published after the worker saw empty rings is not cut off.
NothingLost ==
  pc[W] \in {"finish", "counts", "close", "validate", "free", "outcome"}
    /\ result = "OK" => \A p \in Pins : wr[p] = rd[p]

\* The plain members Configure, Shutdown and Start replace are replaced only
\* when no callback past the gates and no worker can read them.
ConfigurationStable ==
  \/ pc["owner"] \in {"configure", "shutdownClear"}
  \/ pc["ui"] \in {"startReset", "startPhase", "startAdmit"}
  => At(W, "none") /\ \A p \in Pins : ~Owning(p)

\* Thread t is committed to a SetEvent.
WillSignal(t) ==
  \/ pc[t] \in {"notify", "lastEvent"} \cup FailLabels \cup StopLabels
  \/ At(t, "lastOut") /\ stop

\* The auto-reset event is never lost: when the worker sleeps with the event
\* unset although a packet is queued or finalization could start, some thread
\* is about to set it.  The poll of one second is never what ends a recording.
NoMissedWakeup ==
  /\ At(W, "wait") /\ ~wake
  /\ \/ \E p \in Pins : NonEmpty(p)
     \/ stop /\ ~Recording /\ producers = 0
  => \E t \in Threads \ {W} : WillSignal(t)

\* What the UI is told once the recorder is idle again: Saved means no error
\* and a validated file, Failed means an error with a reported class, which is
\* the class of that first error or the disk-full notice that came before it.
OutcomeReported ==
  ~busy /\ lifecycle # "ui" =>
    /\ phase \in {"Idle", "Saved", "Failed"}
    /\ phase = "Saved" => result = "OK" /\ playable
    /\ phase = "Failed" => result # "OK" /\ failure \in {result, "DiskFull"}

\* Nobody alters a finished recording's outcome: no late callback of an old
\* session, no Stop or Shutdown; only the next Start does.
OutcomeStable ==
  [][~busy /\ lifecycle # "ui" => UNCHANGED <<result, failure, playable>>]_vars

\* A stop that was asked for while the recorder is busy ends the recording,
\* from whatever step of start-up or recording the worker is in.
StopCompletes == busy /\ stop ~> ~busy
-----------------------------------------------------------------------------
(* The inductive invariant behind TypeOK and NoUseAfterRecycle.            *)

Calling(t) == pc[t] \in FailLabels \/ pc[t] \in StopLabels

\* Each thread is at one of its own locations, and so is where it returns to.
Locations ==
  /\ \A p \in Pins : pc[p] \in PinLabels /\ (Calling(p) => ret[p] = "leave")
  /\ pc[W] \in WorkerLabels
  /\ Calling(W) => ret[W] \in {"finalStop", "loadVideo", "drain", "counts",
                               "close", "validate", "free"}
  /\ pc["ui"] \in UiLabels
  /\ Calling("ui") => ret["ui"] \in {"idle", "startRefused"}
  /\ pc["owner"] \in OwnerLabels
  /\ Calling("owner") => ret["owner"] = "shutdownJoin"

\* The callback of pin p is between ++producers_ and --producers_.
Inside(p)  == pc[p] \in {"gate2", "gate3", "leave"} \/ Owning(p)
Counted(p) == IF Inside(p) THEN 1 ELSE 0

ProducersCounted == producers = Counted("video") + Counted("audio")

\* The worker is between opening admission and having seen producers_ at 0.
Serving ==
  \/ pc[W] \in {"check", "loadVideo", "loadAudio", "readyStop", "readyPhase",
                "readyProducers", "readyTails", "wait", "hold", "select",
                "move", "encode", "finalStop", "drain"}
  \/ Calling(W) /\ ret[W] \in {"finalStop", "loadVideo", "drain"}

\* Admission is open only while the worker serves and has not called Stop.
AdmissionServed ==
  Recording => Serving /\ alloc /\ pc[W] \notin {"stopEvent", "drain"}

\* A callback that saw open admission while counted pins the worker down.
CommittedServed ==
  \A p \in Pins : At(p, "gate3") \/ Owning(p) => Serving /\ alloc

WorkerBusy ==
  /\ ~At(W, "none") => busy
  /\ pc["ui"] \in {"startReset", "startPhase", "startAdmit", "startThread"} => At(W, "none")
  /\ At("ui", "startThread") => busy
  /\ pc[W] \in {"prepared", "begun"} => alloc

OwnsCurrent == \A p \in Pins : Owning(p) => seen[p] = session

IInv ==
  /\ TypeOK /\ Locations /\ ProducersCounted
  /\ AdmissionServed /\ CommittedServed /\ WorkerBusy /\ OwnsCurrent
-----------------------------------------------------------------------------
(* The invariants behind the other safety properties, each beside IInv.    *)

\* Start, Configure and Shutdown hold the mutex from one end to the other, and
\* nothing is configured while a worker exists.
StartHolds ==
  \/ pc["ui"] \in {"startBusy", "startJoin", "startReset", "startPhase", "startAdmit",
                   "startThread", "startRefused"}
  \/ Calling("ui") /\ ret["ui"] = "startRefused"

MutexHeld ==
  /\ StartHolds => lifecycle = "ui"
  /\ pc["owner"] \in {"configureBusy", "configure", "shutdownJoin", "shutdownClear"}
       \/ Calling("owner") => lifecycle = "owner"
  /\ \/ pc["owner"] \in {"configure", "shutdownClear"}
     \/ At("ui", "startRefused") \/ (Calling("ui") /\ ret["ui"] = "startRefused")
     => At(W, "none")

\* No ring is over-full, a reserved batch fits, and the packet the worker is
\* about to take is there.
RingsBounded ==
  /\ \A p \in Pins : rd[p] <= wr[p] /\ wr[p] <= rd[p] + Slots[p]
  /\ \A p \in Pins : At(p, "fill") => wr[p] + batch[p] <= rd[p] + Slots[p]
  /\ pc[W] \in {"loadAudio", "select"} => \A p \in has : rd[p] < wr[p]
  /\ At(W, "move") => rd[taken] < wr[taken]

\* A ring that fills after the worker has read it empty comes with its event.
Announced(p) == NonEmpty(p) => wake \/ At(p, "notify")

Wakeful ==
  /\ At(W, "loadAudio") /\ "video" \notin has => Announced("video")
  /\ pc[W] \in {"readyStop", "readyPhase", "readyProducers", "readyTails", "wait"} =>
       \A p \in Pins : Announced(p)

\* An error has its class, or the thread that found it is about to tell it.
ErrorClassed ==
  /\ result = "OK" =>
       failure \in {"None", "DiskFull"} /\ \A t \in Threads : ~At(t, "failClass")
  /\ result # "OK" => \/ failure \in {result, "DiskFull"}
                      \/ failure = "None" /\ \E t \in Threads : At(t, "failClass")
  /\ \A t \in Threads : At(t, "failClass") => err[t] = result

\* The callback of pin p may still publish.
Committed(p) == At(p, "gate3") \/ Owning(p)

\* From ReadyToFinalizeRecording on, and without an error, nothing is queued and
\* nothing can be.
Closing ==
  \/ pc[W] \in {"finalStop", "drain", "finish", "counts", "close", "validate", "free", "outcome"}
  \/ Calling(W) /\ ret[W] = "drain"

Settled ==
  /\ Calling(W) =>
       IF ret[W] \in {"loadVideo", "drain"} THEN pc[W] \in StopLabels
       ELSE At(W, "failResult") \/ result # "OK"
  /\ pc[W] \in {"readyPhase", "readyProducers", "readyTails"} => stop
  /\ pc[W] \in {"readyProducers", "readyTails"} => ~Recording
  /\ At(W, "readyTails") => \A p \in Pins : ~Committed(p)
  /\ Closing /\ result = "OK" =>
       ~Recording /\ \A p \in Pins : ~Committed(p) /\ wr[p] = rd[p]

\* A file that is reported as saved was begun, has both streams and was validated.
Working ==
  \/ pc[W] \in {"begun", "publishStop", "check", "loadVideo", "loadAudio", "readyStop",
                "readyPhase", "readyProducers", "readyTails", "wait", "hold", "select", "move",
                "encode"}
  \/ Calling(W) /\ ret[W] = "loadVideo"

Validated ==
  /\ Working => begun
  /\ Closing /\ result = "OK" => begun
  /\ pc[W] \in {"close", "validate"} /\ result = "OK" => wrote = Pins
  /\ pc[W] \in {"free", "outcome"} /\ result = "OK" => playable

\* The phase is settled exactly when neither a worker nor Start is under way.
Underway == {"Starting", "Recording", "Finalizing"}
Starting ==
  \/ pc["ui"] \in {"startAdmit", "startThread", "startRefused"}
  \/ Calling("ui") /\ ret["ui"] = "startRefused"

PhaseTold ==
  /\ phase \in Underway <=> pc[W] \notin {"none", "exit"} \/ Starting
  /\ Calling("ui") =>
       IF ret["ui"] = "idle" THEN pc["ui"] \in StopLabels
       ELSE At("ui", "failResult") \/ result # "OK"
  /\ At("ui", "startRefused") => result # "OK"
  /\ phase = "Saved" => result = "OK" /\ (playable \/ At("ui", "startPhase"))
  /\ phase = "Failed" => result # "OK" \/ At("ui", "startPhase")
-----------------------------------------------------------------------------
(* What all of it amounts to: the recorder implements RecordingContract.   *)

\* The statement of Run that the worker is at, or will return to.
RunAt == IF Calling(W) THEN ret[W] ELSE pc[W]

\* A recording starts from nothing: no rings, no error, no validated file.
Fresh ==
  /\ pc[W] \in {"none", "setup", "outcome", "exit"} => ~alloc
  /\ pc["ui"] \in {"startPhase", "startAdmit", "startThread"} => result = "OK" /\ ~playable
  /\ RunAt \notin {"none", "free", "outcome", "exit"} => ~playable

\* The queues are prepared before anything can fail, a recording that began writing
\* has them until they are freed, and a pin outside Push carries no session.
Prepared ==
  /\ At(W, "setup") => result = "OK"
  /\ begun => alloc \/ pc[W] \in {"outcome", "exit"}
  /\ \A p \in Pins : pc[p] \in {"idle", "lastOut", "lastEvent"} => seen[p] = 0

\* Start has cleared the last outcome and has not created the worker.
Beginning == At("ui", "startPhase") \/ Starting

Sealed == {"finish", "counts", "close", "validate", "free", "outcome"}

Stage ==
  LET at == RunAt IN
  CASE at = "none" -> IF Beginning THEN "starting"
                      ELSE IF At("ui", "startReset") THEN "called" ELSE "idle"
    [] at = "exit" -> "told"
    [] at \in Sealed -> "sealed"
    [] OTHER -> IF alloc THEN "running" ELSE "starting"

\* What the rings' indices say is queued, in whatever stage: it stays after an error,
\* until the next recording prepares its queues.
Held == [p \in Pins |-> wr[p] - rd[p]]

Told ==
  IF Stage = "starting" THEN "none"
  ELSE CASE phase = "Saved"  -> "saved"
         [] phase = "Failed" -> "failed"
         [] OTHER            -> "none"

Contract == INSTANCE RecordingContract WITH
  Stream <- Pins, Capacity <- Slots, stage <- Stage, current <- session,
  offered <- seen, held <- Held, error <- result # "OK", whole <- playable,
  outcome <- Told

\* Whatever the callbacks, the worker, Start, Stop and Shutdown do between each
\* other's steps, it looks like one recording at a time: a packet goes in only while the
\* recording runs that was current when its callback arrived, never before its queues
\* are prepared nor after it is sealed; an outcome without an error means that all were
\* taken and that the file is whole; and an outcome stands until the next one begins.
ImplementsContract == Contract!Spec
=============================================================================
