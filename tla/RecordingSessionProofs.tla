----------------------- MODULE RecordingSessionProofs -----------------------
(***************************************************************************)
(* IInv is an inductive invariant of RecordingSession, for rings of any    *)
(* size, batches of any size and any number of sessions and calls.         *)
(***************************************************************************)
EXTENDS RecordingSession, TLAPS

\* A step of a callback keeps the invariant.
LEMMA PushKeepsIInv ==
  ASSUME IInv, NEW p \in Pins, PushFrame,
         \/ PushEnter(p) \/ PushGate1(p) \/ PushCount(p) \/ PushGate2(p)
         \/ PushGate3(p) \/ PushDiscard(p) \/ PushReserve(p)
         \/ PushRefused(p) \/ PushCopyFails(p) \/ PushPublish(p)
         \/ PushNotify(p) \/ PushLeave(p) \/ PushLastOut(p)
         \/ PushLastEvent(p)
  PROVE  IInv'
<1> USE BurstsAssumption, ClassesAssumption
    DEF PushFrame, IInv, TypeOK, Locations, ProducersCounted, AdmissionServed, CommittedServed,
      WorkerBusy, OwnsCurrent, Inside, Counted, Owning, Calling, Serving,
      Recording, At, Goto, Pins, Threads, W, PinLabels, WorkerLabels,
      UiLabels, OwnerLabels, Labels, FailLabels, StopLabels, atomics, status,
      rings, member, call, pinVars, runVars
<1>1. CASE PushEnter(p)
  BY <1>1 DEF PushEnter
<1>2. CASE PushGate1(p)
  BY <1>2 DEF PushGate1
<1>3. CASE PushCount(p)
  BY <1>3 DEF PushCount
<1>4. CASE PushGate2(p)
  BY <1>4 DEF PushGate2
<1>5. CASE PushGate3(p)
  BY <1>5 DEF PushGate3, SameSession
<1>6. CASE PushDiscard(p)
  BY <1>6 DEF PushDiscard
<1>7. CASE PushReserve(p)
  BY <1>7 DEF PushReserve, Used
<1>8. CASE PushRefused(p)
  BY <1>8 DEF PushRefused, CallFail
<1>9. CASE PushCopyFails(p)
  BY <1>9 DEF PushCopyFails, CallFail
<1>10. CASE PushPublish(p)
  <2>1. /\ wr' \in [Pins -> Nat] /\ UNCHANGED <<pinVars, call, producers, wake>>
        /\ At(p, "fill") /\ Goto(p, "notify")
    BY <1>10 DEF PushPublish
  <2>2. QED
    BY <1>10, <2>1 DEF PushPublish
<1>11. CASE PushNotify(p)
  BY <1>11 DEF PushNotify
<1>12. CASE PushLeave(p)
  BY <1>12 DEF PushLeave
<1>13. CASE PushLastOut(p)
  BY <1>13 DEF PushLastOut
<1>14. CASE PushLastEvent(p)
  BY <1>14 DEF PushLastEvent
<1> QED
  BY <1>1, <1>2, <1>3, <1>4, <1>5, <1>6, <1>7, <1>8, <1>9, <1>10, <1>11,
     <1>12, <1>13, <1>14

\* Fail and Stop keep the invariant, on any thread.
LEMMA CallKeepsIInv ==
  ASSUME IInv, NEW t \in Threads,
         UNCHANGED <<busy, session, producers, rings, member, lifecycle, pinVars,
                     runVars, calls>>,
         \/ FailResult(t) \/ FailClass(t) \/ StopFlag(t) \/ StopPhase(t)
         \/ StopEvent(t)
  PROVE  IInv'
<1> USE BurstsAssumption, ClassesAssumption
    DEF IInv, TypeOK, Locations, ProducersCounted, AdmissionServed, CommittedServed,
      WorkerBusy, OwnsCurrent, Inside, Counted, Owning, Calling, Serving,
      Recording, At, Goto, Pins, Threads, W, PinLabels, WorkerLabels,
      UiLabels, OwnerLabels, Labels, FailLabels, StopLabels, atomics, status,
      rings, member, call, pinVars, runVars
<1>1. CASE FailResult(t)
  BY <1>1 DEF FailResult
<1>2. CASE FailClass(t)
  BY <1>2 DEF FailClass
<1>3. CASE StopFlag(t)
  BY <1>3 DEF StopFlag
<1>4. CASE StopPhase(t)
  BY <1>4 DEF StopPhase, BeginFinalizing, Phases
<1>5. CASE StopEvent(t)
  BY <1>5 DEF StopEvent
<1> QED
  BY <1>1, <1>2, <1>3, <1>4, <1>5

\* A step of the worker keeps the invariant.
LEMMA RunKeepsIInv ==
  ASSUME IInv, UNCHANGED <<session, result, producers, valid, lifecycle, pinVars, calls>>,
         \/ SetupFails \/ PrepareQueues \/ BeginWriting \/ VerifyFails
         \/ TryPublishRecording \/ PublishStop \/ StorageFails
         \/ StorageHealthy \/ LowSpace \/ LoadVideo \/ LoadAudio
         \/ ReadyStop \/ ReadyPhase \/ ReadyProducers \/ ReadyTails
         \/ WaitSignalled \/ WaitTimeout \/ HoldAudio \/ Select \/ Advance
         \/ Encode \/ EncodeFails \/ FinalStop \/ Drain \/ Finish
         \/ CheckCounts \/ CloseFile \/ Validate \/ FreeQueues \/ Outcome
         \/ RunEnds
  PROVE  IInv'
<1> USE BurstsAssumption, ClassesAssumption
    DEF IInv, TypeOK, Locations, ProducersCounted, AdmissionServed, CommittedServed,
      WorkerBusy, OwnsCurrent, Inside, Counted, Owning, Calling, Serving,
      Recording, At, Goto, Pins, Threads, W, PinLabels, WorkerLabels,
      UiLabels, OwnerLabels, Labels, FailLabels, StopLabels, atomics, status,
      rings, member, call, pinVars, runVars
<1>1. CASE SetupFails
  BY <1>1 DEF SetupFails, CallFail
<1>2. CASE PrepareQueues
  BY <1>2 DEF PrepareQueues
<1>3. CASE BeginWriting
  BY <1>3 DEF BeginWriting
<1>4. CASE VerifyFails
  BY <1>4 DEF VerifyFails, CallFail
<1>5. CASE TryPublishRecording
  BY <1>5 DEF TryPublishRecording, Phases
<1>6. CASE PublishStop
  BY <1>6 DEF PublishStop
<1>7. CASE StorageFails
  BY <1>7 DEF StorageFails, CallFail
<1>8. CASE StorageHealthy
  BY <1>8 DEF StorageHealthy
<1>9. CASE LowSpace
  BY <1>9 DEF LowSpace, CallStop
<1>10. CASE LoadVideo
  BY <1>10 DEF LoadVideo
<1>11. CASE LoadAudio
  <2>1. has' \in SUBSET Pins
    BY <1>11, Zenon DEF LoadAudio
  <2> QED
    BY <1>11, <2>1 DEF LoadAudio
<1>12. CASE ReadyStop
  BY <1>12 DEF ReadyStop, ReadyTest
<1>13. CASE ReadyPhase
  BY <1>13 DEF ReadyPhase, ReadyTest
<1>14. CASE ReadyProducers
  BY <1>14 DEF ReadyProducers, ReadyTest
<1>15. CASE ReadyTails
  BY <1>15 DEF ReadyTails, ReadyTest
<1>16. CASE WaitSignalled
  <2>1. wake' \in BOOLEAN
    BY <1>16, Zenon DEF WaitSignalled
  <2> QED
    BY <1>16, <2>1 DEF WaitSignalled
<1>17. CASE WaitTimeout
  BY <1>17 DEF WaitTimeout
<1>18. CASE HoldAudio
  BY <1>18 DEF HoldAudio
<1>19. CASE Select
  BY <1>19 DEF Select
<1>20. CASE Advance
  BY <1>20 DEF Advance
<1>21. CASE Encode
  BY <1>21 DEF Encode
<1>22. CASE EncodeFails
  BY <1>22 DEF EncodeFails, CallFail
<1>23. CASE FinalStop
  BY <1>23 DEF FinalStop, CallStop
<1>24. CASE Drain
  BY <1>24 DEF Drain
<1>25. CASE Finish
  BY <1>25 DEF Finish, CallFail
<1>26. CASE CheckCounts
  BY <1>26 DEF CheckCounts, CallFail
<1>27. CASE CloseFile
  BY <1>27 DEF CloseFile, CallFail
<1>28. CASE Validate
  <2>1. playable' \in BOOLEAN
    BY <1>28, Zenon DEF Validate, CallFail
  <2> QED
    BY <1>28, <2>1 DEF Validate, CallFail
<1>29. CASE FreeQueues
  <2>1. alloc' \in BOOLEAN
    BY <1>29, Zenon DEF FreeQueues
  <2> QED
    BY <1>29, <2>1 DEF FreeQueues
<1>30. CASE Outcome
  BY <1>30 DEF Outcome, Phases
<1>31. CASE RunEnds
  <2>1. busy' \in BOOLEAN /\ begun' \in BOOLEAN
    BY <1>31, Zenon DEF RunEnds
  <2> QED
    BY <1>31, <2>1 DEF RunEnds
<1> QED
  BY <1>1, <1>2, <1>3, <1>4, <1>5, <1>6, <1>7, <1>8, <1>9, <1>10, <1>11,
     <1>12, <1>13, <1>14, <1>15, <1>16, <1>17, <1>18, <1>19, <1>20, <1>21,
     <1>22, <1>23, <1>24, <1>25, <1>26, <1>27, <1>28, <1>29, <1>30, <1>31

\* A step of Start, and the calls of the UI thread, keep the invariant.
LEMMA StartKeepsIInv ==
  ASSUME IInv, UiFrame,
         \/ CallStart \/ CallStopUi \/ StartLock \/ StartBusy
         \/ StartSession \/ StartReset \/ StartPhase \/ StartReject
         \/ StartBusyFlag \/ StartThread \/ StartThreadFails \/ StartRefused
  PROVE  IInv'
<1> USE BurstsAssumption, ClassesAssumption
    DEF UiFrame, IInv, TypeOK, Locations, ProducersCounted, AdmissionServed, CommittedServed,
      WorkerBusy, OwnsCurrent, Inside, Counted, Owning, Calling, Serving,
      Recording, At, Goto, Pins, Threads, W, PinLabels, WorkerLabels,
      UiLabels, OwnerLabels, Labels, FailLabels, StopLabels, atomics, status,
      rings, member, call, pinVars, runVars
<1>1. CASE CallStart
  BY <1>1 DEF CallStart
<1>2. CASE CallStopUi
  BY <1>2 DEF CallStopUi, CallStop
<1>3. CASE StartLock
  BY <1>3 DEF StartLock, Lock
<1>4. CASE StartBusy
  BY <1>4 DEF StartBusy, Unlock
<1>5. CASE StartSession
  BY <1>5 DEF StartSession
<1>6. CASE StartReset
  <2>1. stop' \in BOOLEAN /\ playable' \in BOOLEAN
    BY <1>6, Zenon DEF StartReset
  <2> QED
    BY <1>6, <2>1 DEF StartReset
<1>7. CASE StartPhase
  BY <1>7 DEF StartPhase, Phases
<1>8. CASE StartReject
  BY <1>8 DEF StartReject, CallFail
<1>9. CASE StartBusyFlag
  BY <1>9 DEF StartBusyFlag
<1>10. CASE StartThread
  BY <1>10 DEF StartThread, Unlock
<1>11. CASE StartThreadFails
  <2>1. busy' \in BOOLEAN
    BY <1>11, Zenon DEF StartThreadFails, CallFail
  <2> QED
    BY <1>11, <2>1 DEF StartThreadFails, CallFail
<1>12. CASE StartRefused
  BY <1>12 DEF StartRefused, Unlock, Phases
<1> QED
  BY <1>1, <1>2, <1>3, <1>4, <1>5, <1>6, <1>7, <1>8, <1>9, <1>10, <1>11,
     <1>12

\* A step of Configure or Shutdown keeps the invariant.
LEMMA OwnerKeepsIInv ==
  ASSUME IInv, OwnerFrame, calls' \in Nat,
         \/ CallConfigure \/ CallShutdown \/ ConfigureLock \/ ConfigureBusy
         \/ Configure \/ ShutdownLock \/ ShutdownJoin \/ ShutdownClear
  PROVE  IInv'
<1> USE BurstsAssumption, ClassesAssumption
    DEF OwnerFrame, IInv, TypeOK, Locations, ProducersCounted, AdmissionServed, CommittedServed,
      WorkerBusy, OwnsCurrent, Inside, Counted, Owning, Calling, Serving,
      Recording, At, Goto, Pins, Threads, W, PinLabels, WorkerLabels,
      UiLabels, OwnerLabels, Labels, FailLabels, StopLabels, atomics, status,
      rings, member, call, pinVars, runVars
<1>1. CASE CallConfigure
  BY <1>1 DEF CallConfigure
<1>2. CASE CallShutdown
  BY <1>2 DEF CallShutdown
<1>3. CASE ConfigureLock
  BY <1>3 DEF ConfigureLock, Lock
<1>4. CASE ConfigureBusy
  BY <1>4 DEF ConfigureBusy, Unlock
<1>5. CASE Configure
  BY <1>5 DEF Configure, Unlock
<1>6. CASE ShutdownLock
  BY <1>6 DEF ShutdownLock, Lock, CallStop
<1>7. CASE ShutdownJoin
  BY <1>7 DEF ShutdownJoin
<1>8. CASE ShutdownClear
  <2>1. valid' \in BOOLEAN
    BY <1>8, Zenon DEF ShutdownClear, Unlock
  <2> QED
    BY <1>8, <2>1 DEF ShutdownClear, Unlock
<1> QED
  BY <1>1, <1>2, <1>3, <1>4, <1>5, <1>6, <1>7, <1>8

-----------------------------------------------------------------------------
\* The invariant holds of a Recorder that was just constructed.
LEMMA InitIInv == Init => IInv
<1> SUFFICES ASSUME Init PROVE IInv
  OBVIOUS
<1> USE DEF Init, At, W, Pins, Threads
<1>1. TypeOK
  <2>1. /\ stop \in BOOLEAN /\ busy \in BOOLEAN /\ wake \in BOOLEAN
        /\ alloc \in BOOLEAN /\ valid \in BOOLEAN /\ playable \in BOOLEAN
        /\ begun \in BOOLEAN
    BY Zenon
  <2>2. pc \in [Threads -> Labels] /\ ret \in [Threads -> Labels]
    BY DEF Labels, PinLabels, WorkerLabels
  <2> QED
    BY <2>1, <2>2 DEF TypeOK, Phases
<1>2. Locations
  BY DEF Locations, Calling, PinLabels, WorkerLabels, UiLabels, OwnerLabels,
     FailLabels, StopLabels
<1>3. \A p \in Pins : ~Owning(p) /\ ~Inside(p)
  BY DEF Owning, Inside, FailLabels, StopLabels
<1>4. ProducersCounted
  BY <1>3 DEF ProducersCounted, Counted
<1>5. AdmissionServed /\ CommittedServed /\ OwnsCurrent
  BY <1>3 DEF AdmissionServed, CommittedServed, OwnsCurrent, Recording
<1>6. WorkerBusy
  BY DEF WorkerBusy
<1> QED
  BY <1>1, <1>2, <1>4, <1>5, <1>6 DEF IInv

\* The invariant depends on nothing but the variables.
LEMMA StutterIInv == IInv /\ UNCHANGED vars => IInv'
  BY DEF vars, atomics, status, rings, member, call, pinVars, runVars, IInv,
     TypeOK, Locations, ProducersCounted, AdmissionServed, CommittedServed,
     WorkerBusy, OwnsCurrent, Inside, Counted, Owning, Calling, Serving,
     Recording, At

\* Every step of every thread, and a stutter, keeps the invariant.
LEMMA NextIInv == IInv /\ [Next]_vars => IInv'
<1> SUFFICES ASSUME IInv, [Next]_vars PROVE IInv'
  OBVIOUS
<1>1. ASSUME NEW t \in Threads, FailOrStop(t) PROVE IInv'
  BY <1>1, CallKeepsIInv DEF FailOrStop
<1>2. CASE \E p \in Pins : PushEnter(p) /\ PushFrame
  BY <1>2, PushKeepsIInv
<1>3. CASE \E p \in Pins : PushStep(p)
  BY <1>1, <1>3, PushKeepsIInv DEF PushStep, Threads
<1>4. CASE WorkerStep
  BY <1>1, <1>4, RunKeepsIInv DEF WorkerStep, Threads, W
<1>5. CASE (CallStart \/ CallStopUi) /\ UiFrame
  BY <1>5, StartKeepsIInv
<1>6. CASE UiStep
  BY <1>1, <1>6, StartKeepsIInv DEF UiStep, Threads
<1>7. calls \in Nat
  BY DEF IInv, TypeOK
<1>8. CASE (CallConfigure \/ CallShutdown) /\ OwnerFrame
  <2>1. calls' \in Nat
    BY <1>7, <1>8 DEF CallConfigure, CallShutdown
  <2> QED
    BY <1>8, <2>1, OwnerKeepsIInv
<1>9. CASE OwnerStep
  BY <1>1, <1>7, <1>9, OwnerKeepsIInv DEF OwnerStep, Threads
<1>10. CASE UNCHANGED vars
  BY <1>10, StutterIInv
<1> QED
  BY <1>2, <1>3, <1>4, <1>5, <1>6, <1>8, <1>9, <1>10 DEF Next

\* The invariant holds whenever the threads of one Recorder run.
THEOREM Invariance == Spec => []IInv
  BY InitIInv, NextIInv, PTL DEF Spec

\* Every variable keeps its type; in particular producers_ never goes below 0.
THEOREM TypeCorrect == Spec => []TypeOK
<1>1. IInv => TypeOK
  BY DEF IInv
<1> QED
  BY <1>1, Invariance, PTL

\* A callback past the gates always works on live rings of its own session.
THEOREM RecycleSafe == Spec => []NoUseAfterRecycle
<1>1. IInv => NoUseAfterRecycle
  <2> SUFFICES ASSUME IInv, NEW p \in Pins, Owning(p)
               PROVE  alloc /\ busy /\ seen[p] = session
    BY DEF NoUseAfterRecycle
  <2>1. alloc /\ Serving
    BY DEF IInv, CommittedServed
  <2>2. ~At(W, "none")
    BY <2>1 DEF Serving, Calling, At, W, FailLabels, StopLabels
  <2>3. busy
    BY <2>2 DEF IInv, WorkerBusy
  <2> QED
    BY <2>1, <2>3 DEF IInv, OwnsCurrent
<1> QED
  BY <1>1, Invariance, PTL

(***************************************************************************)
(* The other safety properties, for rings and batches of any size and any  *)
(* number of sessions and calls.  Each has an invariant of its own beside  *)
(* IInv.                                                                   *)
(***************************************************************************)

-----------------------------------------------------------------------------
(* The steps, by the thread that takes them                                *)

PinStep(p) ==
  /\ PushFrame
  /\ \/ PushEnter(p) \/ PushGate1(p) \/ PushCount(p) \/ PushGate2(p) \/ PushGate3(p)
     \/ PushDiscard(p) \/ PushReserve(p) \/ PushRefused(p) \/ PushCopyFails(p)
     \/ PushPublish(p) \/ PushNotify(p) \/ PushLeave(p) \/ PushLastOut(p)
     \/ PushLastEvent(p)

RunStep ==
  /\ UNCHANGED <<session, result, producers, valid, lifecycle, pinVars, calls>>
  /\ \/ SetupFails \/ PrepareQueues \/ BeginWriting \/ VerifyFails
     \/ TryPublishRecording \/ PublishStop \/ StorageFails
     \/ StorageHealthy \/ LowSpace \/ LoadVideo \/ LoadAudio
     \/ ReadyStop \/ ReadyPhase \/ ReadyProducers \/ ReadyTails
     \/ WaitSignalled \/ WaitTimeout \/ HoldAudio \/ Select \/ Advance
     \/ Encode \/ EncodeFails \/ FinalStop \/ Drain \/ Finish
     \/ CheckCounts \/ CloseFile \/ Validate \/ FreeQueues \/ Outcome
     \/ RunEnds

StartStep ==
  /\ UiFrame
  /\ \/ CallStart \/ CallStopUi \/ StartLock \/ StartBusy \/ StartSession \/ StartReset
     \/ StartPhase \/ StartReject \/ StartBusyFlag \/ StartThread \/ StartThreadFails
     \/ StartRefused

OwnStep ==
  /\ OwnerFrame
  /\ \/ CallConfigure \/ CallShutdown \/ ConfigureLock \/ ConfigureBusy \/ Configure
     \/ ShutdownLock \/ ShutdownJoin \/ ShutdownClear

LEMMA Steps ==
  ASSUME [Next]_vars
  PROVE  \/ \E p \in Pins : PinStep(p)
         \/ \E t \in Threads : FailOrStop(t)
         \/ RunStep \/ StartStep \/ OwnStep \/ UNCHANGED vars
  BY
     DEF Next, PushStep, WorkerStep, UiStep, OwnerStep, PinStep, RunStep, StartStep,
         OwnStep, Threads, W

\* A thread that moves leaves the others where they are.
Others(t) == \A u \in Threads \ {t} : pc'[u] = pc[u] /\ ret'[u] = ret[u] /\ err'[u] = err[u]

LEMMA PinLocal ==
  ASSUME IInv, NEW p \in Pins, PinStep(p)
  PROVE  Others(p)
  BY
     DEF IInv, TypeOK, Others, PinStep, Goto, CallFail, call, PushEnter, PushGate1,
         PushCount, PushGate2, PushGate3, PushDiscard, PushReserve, PushRefused,
         PushCopyFails, PushPublish, PushNotify, PushLeave, PushLastOut, PushLastEvent

LEMMA CallLocal ==
  ASSUME IInv, NEW t \in Threads, FailOrStop(t)
  PROVE  Others(t)
  BY
     DEF IInv, TypeOK, Others, FailOrStop, Goto, call, FailResult, FailClass, StopFlag,
         StopPhase, StopEvent

LEMMA RunLocal ==
  ASSUME IInv, RunStep
  PROVE  Others(W)
  BY
     DEF IInv, TypeOK, Others, RunStep, W, Goto, CallFail, CallStop, call, ReadyTest,
         SetupFails, PrepareQueues, BeginWriting, VerifyFails, TryPublishRecording,
         PublishStop, StorageFails, StorageHealthy, LowSpace, LoadVideo, LoadAudio,
         ReadyStop, ReadyPhase, ReadyProducers, ReadyTails, WaitSignalled, WaitTimeout,
         HoldAudio, Select, Advance, Encode, EncodeFails, FinalStop, Drain, Finish,
         CheckCounts, CloseFile, Validate, FreeQueues, Outcome, RunEnds

LEMMA OwnerLocal ==
  ASSUME IInv, OwnStep
  PROVE  Others("owner")
  BY
     DEF IInv, TypeOK, Others, OwnStep, Goto, CallStop, call, CallConfigure,
         CallShutdown, ConfigureLock, ConfigureBusy, Configure, ShutdownLock,
         ShutdownJoin, ShutdownClear

-----------------------------------------------------------------------------
(* ConfigurationStable                                                     *)

LEMMA MutexHeldKept ==
  ASSUME IInv, MutexHeld, [Next]_vars
  PROVE  MutexHeld'
<1> USE DEF MutexHeld, StartHolds, Calling, At, W, Threads, Pins, FailLabels, StopLabels
<1>1. ASSUME NEW p \in Pins, PinStep(p)
      PROVE  MutexHeld'
  BY <1>1, PinLocal DEF Others, PinStep, PushFrame
<1>2. ASSUME NEW t \in Threads, FailOrStop(t)
      PROVE  MutexHeld'
  <2>1. Others(t) /\ UNCHANGED lifecycle
    BY <1>2, CallLocal DEF FailOrStop
  <2>2. /\ Calling(t) /\ (t = W => pc'[W] # "none")
        /\ (Calling(t)' /\ ret'[t] = ret[t]) \/ pc'[t] = ret[t]
    BY <1>2
       DEF FailOrStop, FailResult, FailClass, StopFlag, StopPhase, StopEvent, Goto,
           call, IInv, TypeOK, Locations
  <2>3. QED
    BY <2>1, <2>2 DEF Others, IInv, TypeOK, Locations
<1>3. CASE RunStep
  <2>1. Others(W) /\ UNCHANGED lifecycle
    BY <1>3, RunLocal DEF RunStep
  <2>2. ~At(W, "none")
    BY <1>3
       DEF RunStep, SetupFails, PrepareQueues, BeginWriting, VerifyFails,
           TryPublishRecording, PublishStop, StorageFails, StorageHealthy, LowSpace,
           LoadVideo, LoadAudio, ReadyStop, ReadyPhase, ReadyProducers, ReadyTails,
           ReadyTest, WaitSignalled, WaitTimeout, HoldAudio, Select, Advance, Encode,
           EncodeFails, FinalStop, Drain, Finish, CheckCounts, CloseFile, Validate,
           FreeQueues, Outcome, RunEnds
  <2>3. QED
    BY <2>1, <2>2 DEF Others
<1>4. CASE StartStep
  BY <1>4
     DEF StartStep, UiFrame, IInv, TypeOK, Locations, WorkerBusy, Goto, CallFail,
         CallStop, call, atomics, status, Lock, Unlock, CallStart, CallStopUi,
         StartLock, StartBusy, StartSession, StartReset, StartPhase, StartReject,
         StartBusyFlag, StartThread, StartThreadFails, StartRefused
<1>5. CASE OwnStep
  BY <1>5
     DEF OwnStep, OwnerFrame, IInv, TypeOK, Locations, WorkerBusy, Goto, CallStop, call,
         Lock, Unlock, CallConfigure, CallShutdown, ConfigureLock, ConfigureBusy,
         Configure, ShutdownLock, ShutdownJoin, ShutdownClear
<1>6. CASE UNCHANGED vars
  BY <1>6 DEF vars, call
<1>7. QED
  BY <1>1, <1>2, <1>3, <1>4, <1>5, <1>6, Steps

\* The plain members are only replaced while no worker exists; and without one no
\* callback is past the gates.
LEMMA StableWhenHeld ==
  ASSUME IInv, MutexHeld
  PROVE  ConfigurationStable
<1>1. \A p \in Pins : Owning(p) => ~At(W, "none")
  BY DEF IInv, CommittedServed, Serving, Calling, At, W, FailLabels, StopLabels
<1>2. QED
  BY <1>1 DEF ConfigurationStable, MutexHeld, IInv, WorkerBusy, At

-----------------------------------------------------------------------------
(* SlotsExclusive                                                          *)

LEMMA RingsBoundedKept ==
  ASSUME IInv, RingsBounded, [Next]_vars
  PROVE  RingsBounded'
<1> USE SlotsAssumption, BurstsAssumption DEF RingsBounded, At, W, Pins, Threads
<1>1. ASSUME NEW p \in Pins, PinStep(p)
      PROVE  RingsBounded'
  <2>1. Others(p) /\ UNCHANGED <<rd, has, taken>>
    BY <1>1, PinLocal DEF PinStep, PushFrame, runVars
  <2>2. QED
    BY <1>1, <2>1
       DEF PinStep, Others, Used, IInv, TypeOK, Goto, CallFail, pinVars, call,
           PushEnter, PushGate1, PushCount, PushGate2, PushGate3, PushDiscard,
           PushReserve, PushRefused, PushCopyFails, PushPublish, PushNotify, PushLeave,
           PushLastOut, PushLastEvent
<1>2. ASSUME NEW t \in Threads, FailOrStop(t)
      PROVE  RingsBounded'
  BY <1>2
     DEF FailOrStop, IInv, TypeOK, Locations, Calling, FailLabels, StopLabels, Goto,
         rings, pinVars, runVars, call, FailResult, FailClass, StopFlag, StopPhase,
         StopEvent
<1>3. CASE RunStep
  <2>1. Others(W) /\ UNCHANGED batch
    BY <1>3, RunLocal DEF RunStep, pinVars
  <2>2. At(W, "setup") => \A p \in Pins : ~At(p, "fill")
    BY DEF IInv, CommittedServed, Owning, Serving, Calling, FailLabels, StopLabels
  <2>3. CASE PrepareQueues
    <3>1. \A p \in Pins : wr'[p] = 0 /\ rd'[p] = 0 /\ Slots[p] \in Nat
      BY <2>3 DEF PrepareQueues
    <3>2. pc'[W] = "prepared" /\ \A p \in Pins : pc'[p] # "fill"
      BY <2>1, <2>2, <2>3 DEF Others, PrepareQueues, Goto, IInv, TypeOK
    <3>3. QED
      BY <3>1, <3>2
  <2>4. CASE LoadVideo
    BY <2>1, <2>4 DEF Others, LoadVideo, NonEmpty, IInv, TypeOK, Goto, rings
  <2>5. CASE LoadAudio
    <3>1. has' \subseteq has \cup {p \in {"audio"} : NonEmpty(p)} /\ UNCHANGED rings
      BY <2>5 DEF LoadAudio
    <3>2. \A p \in Pins : NonEmpty(p) => rd[p] < wr[p]
      BY DEF NonEmpty, IInv, TypeOK
    <3>3. QED
      BY <2>1, <2>5, <3>1, <3>2 DEF Others, LoadAudio, IInv, TypeOK, Goto, rings
  <2>6. CASE Select
    BY <2>1, <2>6 DEF Others, Select, IInv, TypeOK, Goto, rings
  <2>7. CASE Advance
    BY <2>1, <2>7 DEF Others, Advance, IInv, TypeOK, Goto, runVars
  <2>8. CASE ~(PrepareQueues \/ LoadVideo \/ LoadAudio \/ Select \/ Advance)
    <3>1. UNCHANGED <<wr, rd>>
      BY <1>3, <2>8
         DEF RunStep, rings, SetupFails, PrepareQueues, BeginWriting, VerifyFails,
             TryPublishRecording, PublishStop, StorageFails, StorageHealthy, LowSpace,
             LoadVideo, LoadAudio, ReadyStop, ReadyPhase, ReadyProducers, ReadyTails,
             ReadyTest, WaitSignalled, WaitTimeout, HoldAudio, Select, Advance, Encode,
             EncodeFails, FinalStop, Drain, Finish, CheckCounts, CloseFile, Validate,
             FreeQueues, Outcome, RunEnds
    <3>2. pc'[W] \notin {"loadAudio", "select", "move"}
      BY <1>3, <2>8
         DEF RunStep, IInv, TypeOK, Locations, Goto, CallFail, CallStop, SetupFails,
             PrepareQueues, BeginWriting, VerifyFails, TryPublishRecording, PublishStop,
             StorageFails, StorageHealthy, LowSpace, LoadVideo, LoadAudio, ReadyStop,
             ReadyPhase, ReadyProducers, ReadyTails, ReadyTest, WaitSignalled,
             WaitTimeout, HoldAudio, Select, Advance, Encode, EncodeFails, FinalStop,
             Drain, Finish, CheckCounts, CloseFile, Validate, FreeQueues, Outcome,
             RunEnds
    <3>3. QED
      BY <2>1, <3>1, <3>2 DEF Others
  <2>9. QED
    BY <2>3, <2>4, <2>5, <2>6, <2>7, <2>8
<1>4. CASE StartStep
  BY <1>4
     DEF StartStep, UiFrame, IInv, TypeOK, Goto, CallFail, CallStop, rings, pinVars,
         runVars, CallStart, CallStopUi, StartLock, StartBusy, StartSession, StartReset,
         StartPhase, StartReject, StartBusyFlag, StartThread, StartThreadFails,
         StartRefused
<1>5. CASE OwnStep
  BY <1>5, OwnerLocal DEF Others, OwnStep, OwnerFrame, rings, pinVars, runVars
<1>6. CASE UNCHANGED vars
  BY <1>6 DEF vars, rings, pinVars, runVars
<1>7. QED
  BY <1>1, <1>2, <1>3, <1>4, <1>5, <1>6, Steps

\* Indices less than a ring apart are different slots.
LEMMA Apart ==
  ASSUME NEW size \in Nat \ {0}, NEW a \in Nat, NEW b \in Nat, b < a, a < b + size
  PROVE  a % size # b % size
<1>1. PICK q \in Nat, r \in 0 .. size - 1 : a = size * q + r /\ r = a % size
  OBVIOUS
<1>2. PICK k \in Nat, s \in 0 .. size - 1 : b = size * k + s /\ s = b % size
  OBVIOUS
<1>3. SUFFICES ASSUME r = s PROVE FALSE
  BY <1>1, <1>2
<1>4. size * q > size * k /\ size * q < size * k + size
  BY <1>1, <1>2, <1>3
<1>5. q > k
  BY <1>4
<1>6. size * q >= size * k + size
  <2>1. PICK d \in Nat : q = k + 1 + d
    BY <1>5
  <2>2. size * q = size * k + size + size * d
    BY <2>1
  <2>3. size * d >= 0
    OBVIOUS
  <2>4. QED
    BY <2>2, <2>3
<1>7. QED
  BY <1>4, <1>6

LEMMA ExclusiveWhenBounded ==
  ASSUME IInv, RingsBounded
  PROVE  SlotsExclusive
<1>1. ASSUME NEW p \in Pins
      PROVE  rd[p] <= wr[p] /\ wr[p] - rd[p] <= Slots[p]
  BY SlotsAssumption DEF RingsBounded, IInv, TypeOK
<1>2. ASSUME NEW p \in Pins, At(p, "fill"), At(W, "move"), taken = p,
             NEW k \in 0 .. batch[p] - 1
      PROVE  (wr[p] + k) % Slots[p] # rd[p] % Slots[p]
  <2>1. /\ wr[p] + k \in Nat /\ rd[p] \in Nat /\ Slots[p] \in Nat \ {0}
        /\ rd[p] < wr[p] + k /\ wr[p] + k < rd[p] + Slots[p]
    BY <1>2, SlotsAssumption DEF RingsBounded, IInv, TypeOK
  <2>2. QED
    BY <2>1, Apart
<1>3. QED
  BY <1>1, <1>2 DEF SlotsExclusive

-----------------------------------------------------------------------------
(* NoMissedWakeup                                                          *)

\* The event and the stop that a sleeping worker waits for.
Signalled == Wakeful /\ NoMissedWakeup

LEMMA SignalledKept ==
  ASSUME IInv, MutexHeld, Signalled, [Next]_vars
  PROVE  Signalled'
<1> USE
   DEF Signalled, Wakeful, NoMissedWakeup, WillSignal, Announced, NonEmpty, Recording,
       At, W, Pins, Threads, FailLabels, StopLabels
<1>1. ASSUME NEW p \in Pins, PinStep(p)
      PROVE  Signalled'
  <2>1. Others(p) /\ UNCHANGED <<rd, has, stop, phase>>
    BY <1>1, PinLocal DEF PinStep, PushFrame, runVars, atomics, status
  <2>2. QED
    BY <1>1, <2>1
       DEF PinStep, Others, IInv, TypeOK, Goto, CallFail, pinVars, call, PushEnter,
           PushGate1, PushCount, PushGate2, PushGate3, PushDiscard, PushReserve,
           PushRefused, PushCopyFails, PushPublish, PushNotify, PushLeave, PushLastOut,
           PushLastEvent
<1>2. ASSUME NEW t \in Threads, FailOrStop(t)
      PROVE  Signalled'
  <2>1. Others(t) /\ UNCHANGED <<wr, rd, has, producers>>
    BY <1>2, CallLocal DEF FailOrStop, rings, runVars
  <2>2. QED
    BY <1>2, <2>1
       DEF FailOrStop, Others, IInv, TypeOK, Locations, Calling, BeginFinalizing, Goto,
           call, FailResult, FailClass, StopFlag, StopPhase, StopEvent
<1>3. CASE RunStep
  <2>1. Others(W) /\ UNCHANGED producers
    BY <1>3, RunLocal DEF RunStep
  <2>3. QED
    BY <1>3, <2>1
       DEF RunStep, Others, IInv, TypeOK, Locations, Goto, CallFail, CallStop, rings,
           runVars, call, status, SetupFails, PrepareQueues, BeginWriting, VerifyFails,
           TryPublishRecording, PublishStop, StorageFails, StorageHealthy, LowSpace,
           LoadVideo, LoadAudio, ReadyStop, ReadyPhase, ReadyProducers, ReadyTails,
           ReadyTest, WaitSignalled, WaitTimeout, HoldAudio, Select, Advance, Encode,
           EncodeFails, FinalStop, Drain, Finish, CheckCounts, CloseFile, Validate,
           FreeQueues, Outcome, RunEnds
<1>4. CASE StartStep
  <2>1. CASE At(W, "none")
    <3>1. pc'[W] \in {"none", "setup"}
      BY <1>4, <2>1
         DEF StartStep, IInv, TypeOK, Goto, CallFail, CallStop, CallStart, CallStopUi,
             StartLock, StartBusy, StartSession, StartReset, StartPhase, StartReject,
             StartBusyFlag, StartThread, StartThreadFails, StartRefused
    <3>2. QED
      BY <3>1
  <2>2. CASE ~At(W, "none")
    <3>1. Others("ui") /\ UNCHANGED <<wr, rd, has, producers, stop, phase, wake>>
      BY <1>4, <2>2
         DEF StartStep, UiFrame, Others, MutexHeld, IInv, TypeOK, WorkerBusy, Goto,
             CallFail, CallStop, call, rings, runVars, atomics, status, CallStart,
             CallStopUi, StartLock, StartBusy, StartSession, StartReset, StartPhase,
             StartReject, StartBusyFlag, StartThread, StartThreadFails, StartRefused
    <3>2. ~WillSignal("ui")
      BY <1>4
         DEF StartStep, CallStart, CallStopUi, StartLock, StartBusy, StartSession,
             StartReset, StartPhase, StartReject, StartBusyFlag, StartThread,
             StartThreadFails, StartRefused
    <3>3. QED
      BY <3>1, <3>2 DEF Others
  <2>3. QED
    BY <2>1, <2>2
<1>5. CASE OwnStep
  <2>1. Others("owner") /\ UNCHANGED <<wr, rd, has, producers, stop, phase, wake>>
    BY <1>5, OwnerLocal DEF OwnStep, OwnerFrame, rings, runVars, atomics, status
  <2>2. ~WillSignal("owner")
    BY <1>5
       DEF OwnStep, CallConfigure, CallShutdown, ConfigureLock, ConfigureBusy,
           Configure, ShutdownLock, ShutdownJoin, ShutdownClear
  <2>3. QED
    BY <2>1, <2>2 DEF Others
<1>6. CASE UNCHANGED vars
  BY <1>6 DEF vars, rings, pinVars, runVars, atomics, status
<1>7. QED
  BY <1>1, <1>2, <1>3, <1>4, <1>5, <1>6, Steps

-----------------------------------------------------------------------------
(* NothingLost                                                             *)

LEMMA SettledKept ==
  ASSUME IInv, Settled, [Next]_vars
  PROVE  Settled'
<1> USE
   DEF Settled, Closing, Committed, Owning, Calling, Recording, NonEmpty, At, W, Pins,
       Threads, FailLabels, StopLabels
<1>1. ASSUME NEW p \in Pins, PinStep(p)
      PROVE  Settled'
  <2>1. Others(p) /\ UNCHANGED <<rd, stop, phase, result>>
    BY <1>1, PinLocal DEF PinStep, PushFrame, atomics, status
  <2>2. /\ Committed(p)' => Committed(p) \/ Recording
        /\ wr' = wr \/ Committed(p)
    BY <1>1
       DEF PinStep, IInv, TypeOK, Goto, CallFail, pinVars, call, PushEnter, PushGate1,
           PushCount, PushGate2, PushGate3, PushDiscard, PushReserve, PushRefused,
           PushCopyFails, PushPublish, PushNotify, PushLeave, PushLastOut, PushLastEvent
  <2>3. QED
    BY <2>1, <2>2 DEF Others
<1>2. ASSUME NEW t \in Threads, FailOrStop(t)
      PROVE  Settled'
  <2>1. Others(t) /\ UNCHANGED <<wr, rd>>
    BY <1>2, CallLocal DEF FailOrStop, rings
  <2>2. QED
    BY <1>2, <2>1, ClassesAssumption
       DEF FailOrStop, Others, IInv, TypeOK, Locations, BeginFinalizing, Goto, call,
           FailResult, FailClass, StopFlag, StopPhase, StopEvent
<1>3. CASE RunStep
  <2>1. Others(W) /\ UNCHANGED <<producers, result>>
    BY <1>3, RunLocal DEF RunStep
  <2>2. producers = 0 => \A p \in Pins : ~Committed(p)
    BY DEF IInv, ProducersCounted, Counted, Inside
  <2>3. QED
    BY <1>3, <2>1, <2>2
       DEF RunStep, Others, IInv, TypeOK, Locations, Goto, CallFail, CallStop, rings,
           call, status, SetupFails, PrepareQueues, BeginWriting, VerifyFails,
           TryPublishRecording, PublishStop, StorageFails, StorageHealthy, LowSpace,
           LoadVideo, LoadAudio, ReadyStop, ReadyPhase, ReadyProducers, ReadyTails,
           ReadyTest, WaitSignalled, WaitTimeout, HoldAudio, Select, Advance, Encode,
           EncodeFails, FinalStop, Drain, Finish, CheckCounts, CloseFile, Validate,
           FreeQueues, Outcome, RunEnds
<1>4. CASE StartStep
  <2>1. CASE At(W, "none")
    <3>1. pc'[W] \in {"none", "setup"}
      BY <1>4, <2>1
         DEF StartStep, IInv, TypeOK, Goto, CallFail, CallStop, CallStart, CallStopUi,
             StartLock, StartBusy, StartSession, StartReset, StartPhase, StartReject,
             StartBusyFlag, StartThread, StartThreadFails, StartRefused
    <3>2. QED
      BY <3>1
  <2>2. CASE ~At(W, "none")
    <3>1. Others("ui") /\ UNCHANGED <<wr, rd, stop, result>> /\ (Recording' => Recording)
      BY <1>4, <2>2
         DEF StartStep, UiFrame, Others, IInv, TypeOK, WorkerBusy, Goto, CallFail,
             CallStop, call, rings, atomics, status, CallStart, CallStopUi, StartLock,
             StartBusy, StartSession, StartReset, StartPhase, StartReject,
             StartBusyFlag, StartThread, StartThreadFails, StartRefused
    <3>2. QED
      BY <3>1 DEF Others
  <2>3. QED
    BY <2>1, <2>2
<1>5. CASE OwnStep
  BY <1>5, OwnerLocal DEF Others, OwnStep, OwnerFrame, rings, atomics, status
<1>6. CASE UNCHANGED vars
  BY <1>6 DEF vars, rings, call, atomics, status
<1>7. QED
  BY <1>1, <1>2, <1>3, <1>4, <1>5, <1>6, Steps

LEMMA NothingLostWhenSettled ==
  ASSUME Settled
  PROVE  NothingLost
  BY DEF Settled, Closing, NothingLost, At, W

-----------------------------------------------------------------------------
(* OutcomeReported and OutcomeStable                                       *)

LEMMA ErrorClassedKept ==
  ASSUME IInv, ErrorClassed, [Next]_vars
  PROVE  ErrorClassed'
<1> USE ClassesAssumption DEF ErrorClassed, At, W, Pins, Threads
<1>1. ASSUME NEW p \in Pins, PinStep(p)
      PROVE  ErrorClassed'
  <2>1. Others(p) /\ UNCHANGED <<result, failure>>
    BY <1>1, PinLocal DEF PinStep, PushFrame, atomics, status
  <2>2. ~At(p, "failClass") /\ pc'[p] # "failClass"
    BY <1>1
       DEF PinStep, IInv, TypeOK, Locations, Goto, CallFail, PushEnter, PushGate1,
           PushCount, PushGate2, PushGate3, PushDiscard, PushReserve, PushRefused,
           PushCopyFails, PushPublish, PushNotify, PushLeave, PushLastOut, PushLastEvent
  <2>3. QED
    BY <2>1, <2>2 DEF Others
<1>2. ASSUME NEW t \in Threads, FailOrStop(t)
      PROVE  ErrorClassed'
  <2>1. Others(t)
    BY <1>2, CallLocal
  <2>2. CASE FailResult(t)
    BY <2>1, <2>2 DEF Others, IInv, TypeOK, Goto, FailResult
  <2>3. CASE FailClass(t)
    BY <2>1, <2>3 DEF Others, IInv, TypeOK, Goto, FailClass
  <2>4. CASE StopFlag(t) \/ StopPhase(t) \/ StopEvent(t)
    <3>1. UNCHANGED <<result, failure, err>> /\ ~At(t, "failClass") /\ pc'[t] # "failClass"
      BY <2>4
         DEF StopFlag, StopPhase, StopEvent, Goto, call, IInv, TypeOK, Locations,
             Calling, FailLabels, StopLabels
    <3>2. QED
      BY <2>1, <3>1 DEF Others
  <2>5. QED
    BY <1>2, <2>2, <2>3, <2>4 DEF FailOrStop
<1>3. CASE RunStep
  <2>1. Others(W) /\ UNCHANGED result
    BY <1>3, RunLocal DEF RunStep
  <2>2. ~At(W, "failClass") /\ pc'[W] # "failClass"
    BY <1>3
       DEF RunStep, IInv, TypeOK, Goto, CallFail, CallStop, SetupFails, PrepareQueues,
           BeginWriting, VerifyFails, TryPublishRecording, PublishStop, StorageFails,
           StorageHealthy, LowSpace, LoadVideo, LoadAudio, ReadyStop, ReadyPhase,
           ReadyProducers, ReadyTails, ReadyTest, WaitSignalled, WaitTimeout, HoldAudio,
           Select, Advance, Encode, EncodeFails, FinalStop, Drain, Finish, CheckCounts,
           CloseFile, Validate, FreeQueues, Outcome, RunEnds
  <2>3. failure' # failure => failure = "None" /\ failure' = "DiskFull"
    <3>1. CASE LowSpace
      BY <3>1 DEF LowSpace
    <3>2. CASE ~LowSpace
      BY <1>3, <3>2
         DEF RunStep, ReadyTest, status, CallFail, CallStop, SetupFails, PrepareQueues,
             BeginWriting, VerifyFails, TryPublishRecording, PublishStop, StorageFails,
             StorageHealthy, LowSpace, LoadVideo, LoadAudio, ReadyStop, ReadyPhase,
             ReadyProducers, ReadyTails, WaitSignalled, WaitTimeout, HoldAudio, Select,
             Advance, Encode, EncodeFails, FinalStop, Drain, Finish, CheckCounts,
             CloseFile, Validate, FreeQueues, Outcome, RunEnds
    <3>3. QED
      BY <3>1, <3>2
  <2>4. QED
    BY <2>1, <2>2, <2>3 DEF Others
<1>4. CASE StartStep
  <2>1. ~At("ui", "failClass") /\ pc'["ui"] # "failClass"
    BY <1>4
       DEF StartStep, IInv, TypeOK, Goto, CallFail, CallStop, CallStart, CallStopUi,
           StartLock, StartBusy, StartSession, StartReset, StartPhase, StartReject,
           StartBusyFlag, StartThread, StartThreadFails, StartRefused
  <2>2. CASE StartReset
    <3>1. At(W, "none") /\ \A p \in Pins : ~Owning(p)
      BY <2>2
         DEF StartReset, IInv, WorkerBusy, CommittedServed, Serving, Calling,
             FailLabels, StopLabels
    <3>2. \A t \in Threads : ~At(t, "failClass")
      BY <2>1, <3>1 DEF IInv, Locations, OwnerLabels, Owning, FailLabels, StopLabels
    <3>3. UNCHANGED err /\ \A t \in Threads : pc'[t] # "failClass"
      BY <2>2, <3>2 DEF StartReset, IInv, TypeOK, Goto, call
    <3>4. result' = "OK" /\ failure' = "None"
      BY <2>2 DEF StartReset
    <3>5. QED
      BY <3>3, <3>4
  <2>3. CASE ~StartReset
    <3>1. UNCHANGED <<result, failure, err>>
      BY <1>4, <2>3
         DEF StartStep, atomics, status, call, CallFail, CallStop, CallStart,
             CallStopUi, StartLock, StartBusy, StartSession, StartReset, StartPhase,
             StartReject, StartBusyFlag, StartThread, StartThreadFails, StartRefused
    <3>2. \A u \in Threads \ {"ui"} :
            pc'[u] # pc[u] => pc[u] # "failClass" /\ pc'[u] # "failClass"
      <4>1. CASE StartThread
        BY <4>1
           DEF StartThread, IInv, TypeOK, Locations, WorkerBusy, WorkerLabels, UiLabels,
               PinLabels, Labels
      <4>2. CASE ~StartThread
        BY <1>4, <2>3, <4>2
           DEF StartStep, IInv, TypeOK, Goto, CallFail, CallStop, CallStart, CallStopUi,
               StartLock, StartBusy, StartSession, StartReset, StartPhase, StartReject,
               StartBusyFlag, StartThread, StartThreadFails, StartRefused
      <4>3. QED
        BY <4>1, <4>2
    <3>3. QED
      BY <2>1, <3>1, <3>2
  <2>4. QED
    BY <2>2, <2>3
<1>5. CASE OwnStep
  <2>1. Others("owner") /\ UNCHANGED <<result, failure>>
    BY <1>5, OwnerLocal DEF OwnStep, OwnerFrame, atomics, status
  <2>2. ~At("owner", "failClass") /\ pc'["owner"] # "failClass"
    BY <1>5
       DEF OwnStep, IInv, TypeOK, Goto, CallStop, CallConfigure, CallShutdown,
           ConfigureLock, ConfigureBusy, Configure, ShutdownLock, ShutdownJoin,
           ShutdownClear
  <2>3. QED
    BY <2>1, <2>2 DEF Others
<1>6. CASE UNCHANGED vars
  BY <1>6 DEF vars, call, atomics, status
<1>7. QED
  BY <1>1, <1>2, <1>3, <1>4, <1>5, <1>6, Steps

\* The file's way to being playable, beside what Settled says of errors.
LEMMA ValidatedKept ==
  ASSUME IInv, Settled, Validated, [Next]_vars
  PROVE  Validated'
<1> USE
   DEF Validated, Working, Closing, Calling, At, W, Pins, Threads, FailLabels,
       StopLabels
<1>1. ASSUME NEW p \in Pins, PinStep(p)
      PROVE  Validated'
  BY <1>1, PinLocal DEF Others, PinStep, PushFrame, runVars, atomics, member
<1>2. ASSUME NEW t \in Threads, FailOrStop(t)
      PROVE  Validated'
  <2>1. Others(t) /\ UNCHANGED <<begun, wrote, playable>>
    BY <1>2, CallLocal DEF FailOrStop, runVars, member
  <2>2. result' = "OK" => result = "OK"
    BY <1>2, ClassesAssumption
       DEF FailOrStop, FailResult, FailClass, StopFlag, StopPhase, StopEvent
  <2>3. QED
    BY <1>2, <2>1, <2>2, ClassesAssumption
       DEF FailOrStop, Others, Settled, IInv, TypeOK, Locations, Goto, call, FailResult,
           FailClass, StopFlag, StopPhase, StopEvent
<1>3. CASE RunStep
  <2>1. Others(W) /\ UNCHANGED result
    BY <1>3, RunLocal DEF RunStep
  <2>2. QED
    BY <1>3, <2>1
       DEF RunStep, Others, Settled, IInv, TypeOK, Locations, Goto, CallFail, CallStop,
           runVars, call, SetupFails, PrepareQueues, BeginWriting, VerifyFails,
           TryPublishRecording, PublishStop, StorageFails, StorageHealthy, LowSpace,
           LoadVideo, LoadAudio, ReadyStop, ReadyPhase, ReadyProducers, ReadyTails,
           ReadyTest, WaitSignalled, WaitTimeout, HoldAudio, Select, Advance, Encode,
           EncodeFails, FinalStop, Drain, Finish, CheckCounts, CloseFile, Validate,
           FreeQueues, Outcome, RunEnds
<1>4. CASE StartStep
  <2>1. CASE At(W, "none")
    <3>1. pc'[W] \in {"none", "setup"}
      BY <1>4, <2>1
         DEF StartStep, IInv, TypeOK, Goto, CallFail, CallStop, CallStart, CallStopUi,
             StartLock, StartBusy, StartSession, StartReset, StartPhase, StartReject,
             StartBusyFlag, StartThread, StartThreadFails, StartRefused
    <3>2. QED
      BY <3>1
  <2>2. CASE ~At(W, "none")
    <3>1. Others("ui") /\ UNCHANGED <<begun, wrote, playable, result>>
      BY <1>4, <2>2
         DEF StartStep, UiFrame, Others, IInv, TypeOK, WorkerBusy, Goto, CallFail,
             CallStop, call, runVars, atomics, status, CallStart, CallStopUi, StartLock,
             StartBusy, StartSession, StartReset, StartPhase, StartReject,
             StartBusyFlag, StartThread, StartThreadFails, StartRefused
    <3>2. QED
      BY <3>1 DEF Others
  <2>3. QED
    BY <2>1, <2>2
<1>5. CASE OwnStep
  BY <1>5, OwnerLocal DEF Others, OwnStep, OwnerFrame, runVars, atomics, status
<1>6. CASE UNCHANGED vars
  BY <1>6 DEF vars, runVars, member, call, atomics, status
<1>7. QED
  BY <1>1, <1>2, <1>3, <1>4, <1>5, <1>6, Steps

LEMMA PhaseToldKept ==
  ASSUME IInv, MutexHeld, Settled, Validated, PhaseTold, [Next]_vars
  PROVE  PhaseTold'
<1> USE
   DEF PhaseTold, Underway, Starting, Calling, At, W, Pins, Threads, FailLabels,
       StopLabels
<1>1. ASSUME NEW p \in Pins, PinStep(p)
      PROVE  PhaseTold'
  BY <1>1, PinLocal DEF Others, PinStep, PushFrame, atomics, status, member
<1>2. ASSUME NEW t \in Threads, FailOrStop(t)
      PROVE  PhaseTold'
  <2>1. Others(t) /\ UNCHANGED playable
    BY <1>2, CallLocal DEF FailOrStop, member
  <2>2. CASE FailResult(t)
    <3>1. phase \in Underway
      BY <2>2
         DEF FailResult, IInv, Locations, CommittedServed, Owning, Serving, OwnerLabels
    <3>2. QED
      BY <2>1, <2>2, <3>1, ClassesAssumption
         DEF FailResult, Others, Settled, IInv, TypeOK, Locations, Goto
  <2>3. CASE FailClass(t) \/ StopFlag(t)
    BY <2>1, <2>3 DEF FailClass, StopFlag, Others, IInv, TypeOK, Locations, Goto, call
  <2>4. CASE StopPhase(t)
    BY <2>1, <2>4
       DEF StopPhase, BeginFinalizing, Others, IInv, TypeOK, Locations, Goto, call
  <2>5. CASE StopEvent(t)
    BY <2>1, <2>5 DEF StopEvent, Others, IInv, TypeOK, Locations, Goto, call
  <2>6. QED
    BY <1>2, <2>2, <2>3, <2>4, <2>5 DEF FailOrStop
<1>3. CASE RunStep
  <2>1. Others(W) /\ UNCHANGED result
    BY <1>3, RunLocal DEF RunStep
  <2>2. ~At(W, "none")
    BY <1>3
       DEF RunStep, ReadyTest, SetupFails, PrepareQueues, BeginWriting, VerifyFails,
           TryPublishRecording, PublishStop, StorageFails, StorageHealthy, LowSpace,
           LoadVideo, LoadAudio, ReadyStop, ReadyPhase, ReadyProducers, ReadyTails,
           WaitSignalled, WaitTimeout, HoldAudio, Select, Advance, Encode, EncodeFails,
           FinalStop, Drain, Finish, CheckCounts, CloseFile, Validate, FreeQueues,
           Outcome, RunEnds
  <2>3. ~Starting
    BY <2>2 DEF MutexHeld, IInv, WorkerBusy
  <2>4. CASE Outcome \/ RunEnds
    BY <2>1, <2>2, <2>3, <2>4
       DEF Outcome, RunEnds, Others, Validated, Closing, IInv, TypeOK, Goto
  <2>5. CASE ~(Outcome \/ RunEnds)
    <3>1. /\ pc[W] \notin {"none", "exit"} /\ pc'[W] \notin {"none", "exit"}
          /\ phase' \in {phase, "Recording"}
      BY <1>3, <2>5
         DEF RunStep, ReadyTest, status, IInv, TypeOK, Locations, Goto, CallFail,
             CallStop, SetupFails, PrepareQueues, BeginWriting, VerifyFails,
             TryPublishRecording, PublishStop, StorageFails, StorageHealthy, LowSpace,
             LoadVideo, LoadAudio, ReadyStop, ReadyPhase, ReadyProducers, ReadyTails,
             WaitSignalled, WaitTimeout, HoldAudio, Select, Advance, Encode,
             EncodeFails, FinalStop, Drain, Finish, CheckCounts, CloseFile, Validate,
             FreeQueues, Outcome, RunEnds
    <3>2. QED
      BY <2>1, <2>3, <3>1 DEF Others
  <2>6. QED
    BY <2>4, <2>5
<1>4. CASE StartStep
  BY <1>4, ClassesAssumption
     DEF StartStep, UiFrame, MutexHeld, IInv, TypeOK, Locations, WorkerBusy, UiLabels,
         Goto, CallFail, CallStop, call, atomics, status, CallStart, CallStopUi,
         StartLock, StartBusy, StartSession, StartReset, StartPhase, StartReject,
         StartBusyFlag, StartThread, StartThreadFails, StartRefused
<1>5. CASE OwnStep
  BY <1>5, OwnerLocal DEF Others, OwnStep, OwnerFrame, atomics, status
<1>6. CASE UNCHANGED vars
  BY <1>6 DEF vars, call, atomics, status, member
<1>7. QED
  BY <1>1, <1>2, <1>3, <1>4, <1>5, <1>6, Steps

\* Between recordings nobody is inside Fail.
LEMMA NobodyFails ==
  ASSUME IInv, MutexHeld, PhaseTold, ~busy, lifecycle # "ui"
  PROVE  At(W, "none") /\ ~StartHolds /\ \A t \in Threads : pc[t] \notin FailLabels
<1> USE DEF MutexHeld, StartHolds, Calling, At, W, Pins, Threads, FailLabels, StopLabels
<1>1. At(W, "none")
  BY DEF IInv, WorkerBusy
<1>2. \A p \in Pins : pc[p] \notin FailLabels
  BY <1>1 DEF IInv, CommittedServed, Owning, Serving
<1>3. pc["ui"] \notin FailLabels
  BY DEF IInv, Locations, PhaseTold
<1>4. pc["owner"] \notin FailLabels
  BY DEF IInv, Locations, OwnerLabels
<1>5. QED
  BY <1>1, <1>2, <1>3, <1>4

LEMMA ReportedWhenTold ==
  ASSUME IInv, MutexHeld, ErrorClassed, PhaseTold
  PROVE  OutcomeReported
<1> SUFFICES ASSUME ~busy, lifecycle # "ui"
             PROVE  /\ phase \in {"Idle", "Saved", "Failed"}
                    /\ phase = "Saved" => result = "OK" /\ playable
                    /\ phase = "Failed" => result # "OK" /\ failure \in {result, "DiskFull"}
  BY DEF OutcomeReported
<1>1. ~Starting /\ ~At("ui", "startPhase")
  BY NobodyFails DEF Starting, StartHolds, At
<1>2. phase \in {"Idle", "Saved", "Failed"}
  BY <1>1, NobodyFails DEF PhaseTold, Underway, IInv, TypeOK, Phases, At
<1>3. \A t \in Threads : ~At(t, "failClass")
  BY NobodyFails DEF At, FailLabels
<1>4. QED
  BY <1>1, <1>2, <1>3 DEF PhaseTold, ErrorClassed

LEMMA OutcomeKept ==
  ASSUME IInv, MutexHeld, PhaseTold, [Next]_vars, ~busy, lifecycle # "ui"
  PROVE  UNCHANGED <<result, failure, playable>>
<1>1. ASSUME NEW p \in Pins, PinStep(p)
      PROVE  UNCHANGED <<result, failure, playable>>
  BY <1>1 DEF PinStep, PushFrame, atomics, status, member
<1>2. ASSUME NEW t \in Threads, FailOrStop(t)
      PROVE  UNCHANGED <<result, failure, playable>>
  <2>1. pc[t] \notin FailLabels
    BY NobodyFails
  <2>2. QED
    BY <1>2, <2>1
       DEF FailOrStop, FailResult, FailClass, StopFlag, StopPhase, StopEvent, At,
           FailLabels, member
<1>3. CASE RunStep
  BY <1>3, NobodyFails
     DEF RunStep, At, W, ReadyTest, SetupFails, PrepareQueues, BeginWriting,
         VerifyFails, TryPublishRecording, PublishStop, StorageFails, StorageHealthy,
         LowSpace, LoadVideo, LoadAudio, ReadyStop, ReadyPhase, ReadyProducers,
         ReadyTails, WaitSignalled, WaitTimeout, HoldAudio, Select, Advance, Encode,
         EncodeFails, FinalStop, Drain, Finish, CheckCounts, CloseFile, Validate,
         FreeQueues, Outcome, RunEnds
<1>4. CASE StartStep
  <2>1. ~StartReset
    BY NobodyFails DEF StartReset, StartHolds, At
  <2>2. QED
    BY <1>4, <2>1
       DEF StartStep, atomics, status, member, CallFail, CallStop, CallStart,
           CallStopUi, StartLock, StartBusy, StartSession, StartReset, StartPhase,
           StartReject, StartBusyFlag, StartThread, StartThreadFails, StartRefused
<1>5. CASE OwnStep
  BY <1>5 DEF OwnStep, OwnerFrame, atomics, status
<1>6. CASE UNCHANGED vars
  BY <1>6 DEF vars, atomics, status, member
<1>7. QED
  BY <1>1, <1>2, <1>3, <1>4, <1>5, <1>6, Steps

-----------------------------------------------------------------------------
(* ImplementsContract                                                      *)

\* Fail and Stop return to the statement they were called for.
LEMMA RunAtKept ==
  ASSUME IInv, NEW t \in Threads, FailOrStop(t)
  PROVE  RunAt' = RunAt
<1> USE DEF RunAt, Calling, At, W, Pins, Threads, FailLabels, StopLabels
<1>1. CASE t = W
  BY <1>1
     DEF FailOrStop, FailResult, FailClass, StopFlag, StopPhase, StopEvent, Goto, call,
         IInv, TypeOK, Locations
<1>2. CASE t # W
  BY <1>2, CallLocal DEF Others
<1>3. QED
  BY <1>1, <1>2

\* Fail is only called while a recording is being started or is under way.
LEMMA FailsUnderway ==
  ASSUME IInv, MutexHeld, PhaseTold, NEW t \in Threads, At(t, "failResult")
  PROVE  RunAt \notin {"none", "exit"} \/ (RunAt = "none" /\ Starting)
<1> USE DEF RunAt, Calling, At, W, Pins, Threads, FailLabels, StopLabels, Starting
<1>1. CASE t \in Pins
  <2>1. Serving
    BY <1>1 DEF IInv, CommittedServed, Owning
  <2>2. QED
    BY <2>1 DEF Serving
<1>2. CASE t = W
  BY <1>2 DEF IInv, Locations
<1>3. CASE t = "ui"
  <2>1. ret["ui"] = "startRefused"
    BY <1>3 DEF PhaseTold, IInv, Locations
  <2>2. At(W, "none")
    BY <1>3, <2>1 DEF MutexHeld
  <2>3. QED
    BY <1>3, <2>1, <2>2
<1>4. t # "owner"
  BY DEF IInv, Locations, OwnerLabels
<1>5. QED
  BY <1>1, <1>2, <1>3, <1>4

LEMMA FreshKept ==
  ASSUME IInv, MutexHeld, PhaseTold, Fresh, [Next]_vars
  PROVE  Fresh'
<1> USE DEF Fresh, At, W, Pins, Threads
<1>1. ASSUME NEW p \in Pins, PinStep(p)
      PROVE  Fresh'
  BY <1>1, PinLocal DEF Others, PinStep, PushFrame, RunAt, Calling, atomics, rings, member
<1>2. ASSUME NEW t \in Threads, FailOrStop(t)
      PROVE  Fresh'
  <2>1. RunAt' = RunAt /\ UNCHANGED <<alloc, playable>>
    BY <1>2, RunAtKept DEF FailOrStop, rings, member
  <2>2. pc'[W] \in {"none", "setup", "outcome", "exit"} => pc[W] = pc'[W]
    BY <1>2
       DEF FailOrStop, FailResult, FailClass, StopFlag, StopPhase, StopEvent, Goto, call,
           Calling, FailLabels, StopLabels, IInv, TypeOK, Locations
  <2>3. ASSUME pc'["ui"] \in {"startPhase", "startAdmit", "startThread"}
        PROVE  result' = "OK" /\ ~playable
    <3>1. pc["ui"] = pc'["ui"]
      BY <1>2, <2>3
         DEF FailOrStop, FailResult, FailClass, StopFlag, StopPhase, StopEvent, Goto, call,
             Calling, FailLabels, StopLabels, IInv, TypeOK, Locations
    <3>2. ~At(t, "failResult")
      <4>1. At(W, "none")
        BY <2>3, <3>1 DEF IInv, WorkerBusy, MutexHeld, StartHolds
      <4>2. RunAt = "none"
        BY <4>1 DEF RunAt, Calling, FailLabels, StopLabels
      <4>3. t = "owner" => ~At(t, "failResult")
        BY DEF IInv, Locations, OwnerLabels, StopLabels
      <4>4. t \in Pins => ~At(t, "failResult")
        BY <4>1 DEF IInv, CommittedServed, Owning, Serving, Calling, FailLabels, StopLabels
      <4>5. QED
        BY <2>3, <3>1, <4>1, <4>3, <4>4
    <3>3. result' = result
      BY <1>2, <3>2 DEF FailOrStop, FailResult, FailClass, StopFlag, StopPhase, StopEvent
    <3>4. QED
      BY <2>3, <3>1, <3>3
  <2>4. QED
    BY <2>1, <2>2, <2>3
<1>3. CASE RunStep
  <2>1. Others(W) /\ UNCHANGED result
    BY <1>3, RunLocal DEF RunStep
  <2>2. ~At(W, "none")
    BY <1>3
       DEF RunStep, ReadyTest, SetupFails, PrepareQueues, BeginWriting, VerifyFails,
           TryPublishRecording, PublishStop, StorageFails, StorageHealthy, LowSpace,
           LoadVideo, LoadAudio, ReadyStop, ReadyPhase, ReadyProducers, ReadyTails,
           WaitSignalled, WaitTimeout, HoldAudio, Select, Advance, Encode, EncodeFails,
           FinalStop, Drain, Finish, CheckCounts, CloseFile, Validate, FreeQueues,
           Outcome, RunEnds
  <2>3. pc["ui"] \notin {"startPhase", "startAdmit", "startThread"}
    BY <2>2 DEF IInv, WorkerBusy
  <2>4. /\ pc'[W] \in {"none", "setup", "outcome", "exit"} => ~alloc'
        /\ RunAt' \notin {"none", "free", "outcome", "exit"} => ~playable'
    BY <1>3
       DEF RunStep, RunAt, Calling, FailLabels, StopLabels, IInv, TypeOK, Locations, Goto,
           CallFail, CallStop, rings, call, ReadyTest, SetupFails, PrepareQueues,
           BeginWriting, VerifyFails, TryPublishRecording, PublishStop, StorageFails,
           StorageHealthy, LowSpace, LoadVideo, LoadAudio, ReadyStop, ReadyPhase,
           ReadyProducers, ReadyTails, WaitSignalled, WaitTimeout, HoldAudio, Select,
           Advance, Encode, EncodeFails, FinalStop, Drain, Finish, CheckCounts, CloseFile,
           Validate, FreeQueues, Outcome, RunEnds
  <2>5. QED
    BY <2>1, <2>3, <2>4 DEF Others
<1>4. CASE StartStep
  BY <1>4
     DEF StartStep, UiFrame, RunAt, Calling, FailLabels, StopLabels, IInv, TypeOK,
         Locations, WorkerBusy, Goto, CallFail, CallStop, call, rings, atomics, status,
         CallStart, CallStopUi, StartLock, StartBusy, StartSession, StartReset, StartPhase,
         StartReject, StartBusyFlag, StartThread, StartThreadFails, StartRefused
<1>5. CASE OwnStep
  BY <1>5, OwnerLocal
     DEF Others, OwnStep, OwnerFrame, RunAt, Calling, atomics, rings
<1>6. CASE UNCHANGED vars
  BY <1>6 DEF vars, atomics, rings, member, call, RunAt, Calling
<1>7. QED
  BY <1>1, <1>2, <1>3, <1>4, <1>5, <1>6, Steps

LEMMA PreparedKept ==
  ASSUME IInv, MutexHeld, PhaseTold, Fresh, Prepared, [Next]_vars
  PROVE  Prepared'
<1> USE DEF Prepared, At, W, Pins, Threads
<1>1. ASSUME NEW p \in Pins, PinStep(p)
      PROVE  Prepared'
  <2>1. Others(p) /\ UNCHANGED <<result, alloc, begun>>
    BY <1>1, PinLocal DEF PinStep, PushFrame, atomics, runVars
  <2>2. \A q \in Pins : pc'[q] \in {"idle", "lastOut", "lastEvent"} => seen'[q] = 0
    BY <1>1, <2>1
       DEF Others, PinStep, Goto, CallFail, call, pinVars, IInv, TypeOK, PushEnter,
           PushGate1, PushCount, PushGate2, PushGate3, PushDiscard, PushReserve,
           PushRefused, PushCopyFails, PushPublish, PushNotify, PushLeave, PushLastOut,
           PushLastEvent
  <2>3. QED
    BY <2>1, <2>2 DEF Others
<1>2. ASSUME NEW t \in Threads, FailOrStop(t)
      PROVE  Prepared'
  <2> USE <1>2
      DEF FailOrStop, FailResult, FailClass, StopFlag, StopPhase, StopEvent, Goto, call,
          IInv, TypeOK, Locations, Calling, FailLabels, StopLabels
  <2>1. UNCHANGED <<alloc, begun, seen>>
    BY DEF rings, runVars, pinVars
  <2>2. pc'[W] \in {"setup", "outcome", "exit"} <=> pc[W] \in {"setup", "outcome", "exit"}
    OBVIOUS
  <2>3. \A q \in Pins : pc'[q] \in {"idle", "lastOut", "lastEvent"} => pc'[q] = pc[q]
    OBVIOUS
  <2>4. At(W, "setup") => ~At(t, "failResult")
    BY FailsUnderway DEF CommittedServed, Owning, Serving, PhaseTold, MutexHeld, OwnerLabels
  <2>5. pc'[W] = "setup" => pc[W] = "setup" /\ result' = result
    BY <2>4
  <2>6. pc[W] \in {"outcome", "exit"} => pc'[W] \in {"outcome", "exit"}
    OBVIOUS
  <2>7. QED
    BY <2>1, <2>3, <2>5, <2>6
<1>3. CASE RunStep
  <2>1. Others(W) /\ UNCHANGED <<result, seen>>
    BY <1>3, RunLocal DEF RunStep, pinVars
  <2>2. /\ pc'[W] # "setup"
        /\ begun' => alloc' \/ pc'[W] \in {"outcome", "exit"}
    BY <1>3
       DEF RunStep, IInv, TypeOK, Locations, WorkerBusy, Goto, CallFail, CallStop, rings,
           runVars, call, ReadyTest, SetupFails, PrepareQueues, BeginWriting, VerifyFails,
           TryPublishRecording, PublishStop, StorageFails, StorageHealthy, LowSpace,
           LoadVideo, LoadAudio, ReadyStop, ReadyPhase, ReadyProducers, ReadyTails,
           WaitSignalled, WaitTimeout, HoldAudio, Select, Advance, Encode, EncodeFails,
           FinalStop, Drain, Finish, CheckCounts, CloseFile, Validate, FreeQueues,
           Outcome, RunEnds
  <2>3. QED
    BY <2>1, <2>2 DEF Others
<1>4. CASE StartStep
  BY <1>4
     DEF StartStep, UiFrame, IInv, TypeOK, Locations, WorkerBusy, Fresh, Goto, CallFail,
         CallStop, call, rings, runVars, pinVars, atomics, status, CallStart, CallStopUi,
         StartLock, StartBusy, StartSession, StartReset, StartPhase, StartReject,
         StartBusyFlag, StartThread, StartThreadFails, StartRefused
<1>5. CASE OwnStep
  BY <1>5, OwnerLocal DEF Others, OwnStep, OwnerFrame, atomics, rings, pinVars, runVars
<1>6. CASE UNCHANGED vars
  BY <1>6 DEF vars, atomics, rings, pinVars, runVars
<1>7. QED
  BY <1>1, <1>2, <1>3, <1>4, <1>5, <1>6, Steps

-----------------------------------------------------------------------------
(* The invariant                                                           *)

AllInv ==
  /\ IInv /\ MutexHeld /\ RingsBounded /\ Signalled
  /\ ErrorClassed /\ Settled /\ Validated /\ PhaseTold /\ Fresh
  /\ Prepared

LEMMA InitAllInv == Init => AllInv
<1> SUFFICES ASSUME Init PROVE AllInv
  OBVIOUS
<1> USE DEF Init, At, W, Pins, Threads, Calling, FailLabels, StopLabels
<1>1. IInv
  BY InitIInv
<1>2. MutexHeld
  BY DEF MutexHeld, StartHolds
<1>3. RingsBounded
  BY SlotsAssumption DEF RingsBounded
<1>4. Signalled
  BY DEF Signalled, Wakeful, NoMissedWakeup
<1>5. ErrorClassed
  BY DEF ErrorClassed
<1>6. Settled /\ Validated
  BY DEF Settled, Validated, Closing, Working
<1>7. PhaseTold
  BY DEF PhaseTold, Underway, Starting
<1>8. Fresh
  BY DEF Fresh, RunAt
<1>9. Prepared
  BY DEF Prepared
<1>10. QED
  BY <1>1, <1>2, <1>3, <1>4, <1>5, <1>6, <1>7, <1>8, <1>9 DEF AllInv

LEMMA NextAllInv == AllInv /\ [Next]_vars => AllInv'
<1> SUFFICES ASSUME AllInv, [Next]_vars PROVE AllInv'
  OBVIOUS
<1>1. IInv' /\ MutexHeld'
  BY NextIInv, MutexHeldKept DEF AllInv
<1>2. RingsBounded' /\ Signalled'
  BY RingsBoundedKept, SignalledKept DEF AllInv
<1>3. ErrorClassed' /\ Settled'
  BY ErrorClassedKept, SettledKept DEF AllInv
<1>4. Validated' /\ PhaseTold'
  BY ValidatedKept, PhaseToldKept DEF AllInv
<1>5. Fresh'
  BY FreshKept DEF AllInv
<1>6. Prepared'
  BY PreparedKept DEF AllInv
<1>7. QED
  BY <1>1, <1>2, <1>3, <1>4, <1>5, <1>6 DEF AllInv

\* The invariants of this module hold of every behaviour of the recorder.
THEOREM AllInvariant == Spec => []AllInv
  BY InitAllInv, NextAllInv, PTL DEF Spec

-----------------------------------------------------------------------------
(* The steps of the contract                                               *)

\* What the contract sees of a thread's step: nothing that it has no action for.
LEMMA PinImplements ==
  ASSUME AllInv, NEW p \in Pins, PinStep(p)
  PROVE  \/ Contract!Offer(p) \/ Contract!Withdraw(p) \/ Contract!Put(p)
         \/ UNCHANGED Contract!vars
<1> USE DEF AllInv, Pins, Threads
<1>1. Others(p)
  BY PinLocal
<1>2. RunAt' = RunAt /\ Beginning' = Beginning /\ pc'["ui"] = pc["ui"]
  BY <1>1 DEF Others, RunAt, Beginning, Starting, Calling, At, W
<1>3. UNCHANGED <<rd, alloc, phase, result, playable, session>>
  BY DEF PinStep, PushFrame, atomics, status, member
<1>4. UNCHANGED <<Stage, session, Told, playable, result>>
  BY <1>2, <1>3 DEF Stage, Sealed, Told, At
<1>5. CASE PushPublish(p)
  <2>1. Owning(p) /\ Serving /\ alloc
    BY <1>5 DEF PushPublish, At, IInv, CommittedServed, Owning
  <2>2. Stage = "running"
    BY <2>1 DEF Serving, Stage, Sealed, RunAt, Calling, At, W, FailLabels, StopLabels
  <2>3. /\ batch[p] \in Nat \ {0} /\ wr[p] \in Nat /\ rd[p] \in Nat /\ Slots[p] \in Nat
        /\ rd[p] <= wr[p] /\ wr[p] + batch[p] <= rd[p] + Slots[p]
    BY <1>5, SlotsAssumption DEF PushPublish, RingsBounded, IInv, TypeOK
  <2>4. batch[p] \in 1 .. Slots[p] - (wr[p] - rd[p])
    BY <2>3
  <2>5. wr' = [wr EXCEPT ![p] = @ + batch[p]] /\ seen' = seen
    BY <1>5 DEF PushPublish, pinVars
  <2>6. seen[p] = session
    BY <2>1 DEF IInv, OwnsCurrent
  <2>7. batch[p] \in 1 .. Slots[p] - Held[p]
    BY <2>4 DEF Held
  <2>8. Held' = [Held EXCEPT ![p] = @ + batch[p]]
    <3>1. \A q \in Pins : wr[q] \in Nat /\ rd[q] \in Nat
      BY DEF IInv, TypeOK
    <3>2. \A q \in Pins : wr'[q] - rd[q] = IF q = p THEN (wr[q] - rd[q]) + batch[p]
                                            ELSE wr[q] - rd[q]
      BY <2>3, <2>5, <3>1 DEF IInv, TypeOK
    <3>3. Held = [q \in Pins |-> wr[q] - rd[q]] /\ Held' = [q \in Pins |-> wr'[q] - rd[q]]
      BY <1>3 DEF Held
    <3>4. QED
      BY <3>2, <3>3, Zenon
  <2>9. QED
    BY <1>4, <2>2, <2>5, <2>6, <2>7, <2>8 DEF Contract!Put, Contract!truth
<1>6. CASE ~PushPublish(p)
  <2>1. UNCHANGED wr
    BY <1>6
       DEF PinStep, PushEnter, PushGate1, PushCount, PushGate2, PushGate3, PushDiscard,
           PushReserve, PushRefused, PushCopyFails, PushNotify, PushLeave, PushLastOut,
           PushLastEvent
  <2>2. UNCHANGED Held
    BY <1>3, <2>1 DEF Held
  <2>3. CASE PushEnter(p)
    <3>1. seen[p] = 0 /\ seen' = [seen EXCEPT ![p] = session]
      BY <2>3 DEF PushEnter, Prepared, At
    <3>2. QED
      BY <1>4, <2>2, <3>1 DEF Contract!Offer, Contract!truth
  <2>4. CASE seen' = [seen EXCEPT ![p] = 0]
    BY <1>4, <2>2, <2>4 DEF Contract!Withdraw, Contract!truth
  <2>5. CASE UNCHANGED seen
    BY <1>4, <2>2, <2>5 DEF Contract!vars, Contract!input, Contract!truth
  <2>6. PushEnter(p) \/ seen' = [seen EXCEPT ![p] = 0] \/ UNCHANGED seen
    BY <1>6
       DEF PinStep, pinVars, PushGate1, PushCount, PushGate2, PushGate3, PushDiscard,
           PushReserve, PushRefused, PushCopyFails, PushNotify, PushLeave, PushLastOut,
           PushLastEvent
  <2>7. QED
    BY <2>3, <2>4, <2>5, <2>6
<1>7. QED
  BY <1>5, <1>6

LEMMA CallImplements ==
  ASSUME AllInv, NEW t \in Threads, FailOrStop(t)
  PROVE  Contract!Fail \/ UNCHANGED Contract!vars
<1> USE DEF AllInv
<1>1. RunAt' = RunAt
  BY RunAtKept
<1>2. Beginning' = Beginning /\ (At("ui", "startReset"))' = At("ui", "startReset")
  <2>1. CASE t = "ui"
    BY <2>1
       DEF FailOrStop, FailResult, FailClass, StopFlag, StopPhase, StopEvent, Goto, call,
           Beginning, Starting, Calling, At, FailLabels, StopLabels, IInv, TypeOK, Locations
  <2>2. CASE t # "ui"
    BY <2>2, CallLocal DEF Others, Beginning, Starting, Calling, At, Threads
  <2>3. QED
    BY <2>1, <2>2
<1>3. UNCHANGED <<wr, rd, alloc, playable, session, seen>>
  BY DEF FailOrStop, rings, member, pinVars
<1>4. phase' = phase \/ (phase \in Underway /\ phase' \in Underway)
  BY DEF FailOrStop, FailResult, FailClass, StopFlag, StopPhase, StopEvent, BeginFinalizing,
         Underway
<1>5. UNCHANGED <<Stage, session, seen, Held, playable, Told>>
  BY <1>1, <1>2, <1>3, <1>4 DEF Stage, Sealed, Told, Held, Underway
<1>6. CASE At(t, "failResult") /\ result = "OK"
  <2>1. result' # "OK"
    BY <1>6, ClassesAssumption
       DEF FailOrStop, FailResult, FailClass, StopFlag, StopPhase, StopEvent, At
  <2>2. Stage \in {"starting", "running", "sealed"}
    BY <1>6, FailsUnderway DEF Stage, Sealed, Beginning
  <2>3. QED
    BY <1>5, <2>1, <2>2 DEF Contract!Fail, Contract!input
<1>7. CASE ~(At(t, "failResult") /\ result = "OK")
  <2>1. result' = result
    BY <1>7 DEF FailOrStop, FailResult, FailClass, StopFlag, StopPhase, StopEvent
  <2>2. QED
    BY <1>5, <2>1 DEF Contract!vars, Contract!input, Contract!truth
<1>8. QED
  BY <1>6, <1>7

LEMMA RunImplements ==
  ASSUME AllInv, RunStep
  PROVE  \/ \E p \in Pins : Contract!Take(p)
         \/ Contract!Run \/ Contract!Seal \/ Contract!Validate \/ Contract!Tell
         \/ Contract!Rest \/ UNCHANGED Contract!vars
<1> USE DEF AllInv, At, W
<1>1. UNCHANGED <<result, session, seen>>
  BY DEF RunStep, pinVars
<1>2. CASE Advance
  <2>1. /\ At(W, "move") /\ pc' = [pc EXCEPT ![W] = "encode"] /\ taken \in Pins
        /\ rd' = [rd EXCEPT ![taken] = @ + 1] /\ UNCHANGED <<wr, alloc, phase, playable>>
    BY <1>2 DEF Advance, Goto, status, IInv, TypeOK
  <2>2. alloc
    BY <2>1 DEF Validated, Working, Prepared
  <2>3. Stage = "running" /\ Stage' = "running"
    BY <2>1, <2>2
       DEF Stage, Sealed, RunAt, Calling, FailLabels, StopLabels, IInv, TypeOK, Threads
  <2>4. UNCHANGED Told
    BY <2>1, <2>3 DEF Told
  <2>5. \A q \in Pins : wr[q] \in Nat /\ rd[q] \in Nat
    BY DEF IInv, TypeOK
  <2>6. Held[taken] > 0
    BY <2>1, <2>5 DEF RingsBounded, Held
  <2>7. Held = [q \in Pins |-> wr[q] - rd[q]] /\ Held' = [q \in Pins |-> wr[q] - rd'[q]]
    BY <2>1 DEF Held
  <2>8. \A q \in Pins : wr[q] - rd'[q] = IF q = taken THEN (wr[q] - rd[q]) - 1
                                          ELSE wr[q] - rd[q]
    BY <2>1, <2>5 DEF IInv, TypeOK
  <2>9. Held' = [Held EXCEPT ![taken] = @ - 1]
    BY <2>7, <2>8, Zenon
  <2>10. QED
    BY <1>1, <2>1, <2>3, <2>4, <2>6, <2>9 DEF Contract!Take, Contract!truth
<1>3. CASE PrepareQueues
  <2>1. /\ At(W, "setup") /\ pc' = [pc EXCEPT ![W] = "prepared"] /\ ~alloc /\ alloc'
        /\ wr' = [p \in Pins |-> 0] /\ rd' = [p \in Pins |-> 0]
        /\ UNCHANGED <<phase, playable>> /\ result = "OK"
    BY <1>3 DEF PrepareQueues, Goto, status, Fresh, Prepared
  <2>2. Stage = "starting" /\ Stage' = "running"
    BY <2>1 DEF Stage, Sealed, RunAt, Calling, FailLabels, StopLabels, IInv, TypeOK, Threads
  <2>3. Held' = Contract!Nothing
    BY <2>1 DEF Held, Contract!Nothing
  <2>4. phase \in Underway
    BY <2>1 DEF PhaseTold
  <2>5. UNCHANGED Told
    BY <2>1, <2>2, <2>4 DEF Told, Underway
  <2>6. QED
    BY <1>1, <2>1, <2>2, <2>3, <2>5 DEF Contract!Run, Contract!truth
<1>4. CASE Drain
  <2>1. /\ At(W, "drain") /\ pc'[W] \in {"finish", "free"}
        /\ UNCHANGED <<wr, rd, alloc, phase, playable>>
    BY <1>4 DEF Drain, Goto, status, rings, IInv, TypeOK, Threads
  <2>2. /\ Stage = IF alloc THEN "running" ELSE "starting"
        /\ Stage' = "sealed"
    BY <2>1 DEF Stage, Sealed, RunAt, Calling, FailLabels, StopLabels
  <2>3. phase \in Underway
    BY <2>1 DEF PhaseTold
  <2>4. UNCHANGED <<Told, Held>>
    BY <2>1, <2>2, <2>3 DEF Told, Held, Underway
  <2>5. result = "OK" => \A p \in Pins : wr[p] = rd[p] /\ wr[p] \in Nat
    BY <2>1 DEF Settled, Closing, IInv, TypeOK
  <2>6. result = "OK" => Held = Contract!Nothing
    BY <2>5 DEF Held, Contract!Nothing
  <2>7. result = "OK" => alloc
    BY <2>1 DEF Validated, Closing, Prepared
  <2>8. QED
    BY <1>1, <2>1, <2>2, <2>4, <2>6, <2>7
       DEF Contract!Seal, Contract!input, Contract!truth
<1>5. CASE Validate
  <2>1. /\ At(W, "validate") /\ Stage = "sealed" /\ Stage' = "sealed" /\ phase' = phase
        /\ UNCHANGED <<wr, rd>>
    BY <1>5
       DEF Validate, Goto, CallFail, call, status, rings, Stage, Sealed, RunAt, Calling,
           FailLabels, StopLabels, IInv, TypeOK, Threads
  <2>2. UNCHANGED <<Held, Told>>
    BY <2>1 DEF Held, Told
  <2>3. ~playable
    BY <2>1 DEF Fresh, RunAt, Calling, FailLabels, StopLabels
  <2>4. playable' \in {TRUE, playable}
    BY <1>5, <2>3 DEF Validate, IInv, TypeOK
  <2>5. QED
    BY <1>1, <2>1, <2>2, <2>4
       DEF Contract!Validate, Contract!vars, Contract!input, Contract!truth
<1>6. CASE Outcome
  <2>1. /\ At(W, "outcome") /\ Stage = "sealed" /\ Stage' = "told" /\ playable' = playable
        /\ phase' = (IF result = "OK" THEN "Saved" ELSE "Failed") /\ UNCHANGED <<wr, rd>>
    BY <1>6
       DEF Outcome, Goto, rings, Stage, Sealed, RunAt, Calling, FailLabels, StopLabels, IInv,
           TypeOK, Threads
  <2>2. UNCHANGED Held /\ Told' = IF result = "OK" THEN "saved" ELSE "failed"
    BY <2>1 DEF Held, Told
  <2>3. result = "OK" => playable
    BY <2>1 DEF Validated
  <2>4. QED
    BY <1>1, <2>1, <2>2, <2>3 DEF Contract!Tell, Contract!input
<1>7. CASE RunEnds
  <2>1. /\ At(W, "exit") /\ pc' = [pc EXCEPT ![W] = "none"]
        /\ UNCHANGED <<ret, phase, playable, wr, rd>>
    BY <1>7 DEF RunEnds, Goto, call, rings
  <2>2. ~Beginning /\ pc["ui"] # "startReset"
    BY <2>1
       DEF Beginning, Starting, MutexHeld, IInv, WorkerBusy
  <2>3. ~Beginning' /\ pc'["ui"] # "startReset"
    BY <2>1, <2>2
       DEF Beginning, Starting, Calling, FailLabels, StopLabels, IInv, TypeOK, Threads
  <2>4. Stage = "told" /\ Stage' = "idle"
    BY <2>1, <2>3 DEF Stage, Sealed, RunAt, Calling, FailLabels, StopLabels, IInv, TypeOK, Threads
  <2>5. UNCHANGED <<Held, Told>>
    BY <2>1, <2>4 DEF Held, Told
  <2>6. QED
    BY <1>1, <2>1, <2>4, <2>5 DEF Contract!Rest, Contract!input, Contract!truth
<1>8. CASE ~(Advance \/ PrepareQueues \/ Drain \/ Validate \/ Outcome \/ RunEnds)
  <2>1. UNCHANGED <<wr, rd, playable>> /\ (alloc' = alloc \/ FreeQueues)
    BY <1>8
       DEF RunStep, rings,
         SetupFails, BeginWriting, VerifyFails, TryPublishRecording,
         PublishStop, StorageFails, StorageHealthy, LowSpace, LoadVideo, LoadAudio,
         ReadyStop, ReadyPhase, ReadyProducers, ReadyTails, ReadyTest, WaitSignalled,
         WaitTimeout, HoldAudio, Select, Encode, EncodeFails, FinalStop, Finish,
         CheckCounts, CloseFile, FreeQueues
  <2>2. /\ RunAt \in Sealed /\ RunAt' \in Sealed
        \/ /\ RunAt \notin Sealed \cup {"none", "exit"}
           /\ RunAt' \notin Sealed \cup {"none", "exit"} /\ ~FreeQueues
    BY <1>8
       DEF RunStep, Sealed, RunAt, Calling, FailLabels, StopLabels, Goto, CallFail,
         CallStop, call, IInv, TypeOK, Locations, Threads,
         SetupFails, BeginWriting, VerifyFails, TryPublishRecording,
         PublishStop, StorageFails, StorageHealthy, LowSpace, LoadVideo, LoadAudio,
         ReadyStop, ReadyPhase, ReadyProducers, ReadyTails, ReadyTest, WaitSignalled,
         WaitTimeout, HoldAudio, Select, Encode, EncodeFails, FinalStop, Finish,
         CheckCounts, CloseFile, FreeQueues
  <2>3. Stage' = Stage
    BY <2>1, <2>2 DEF Stage, Sealed
  <2>4. phase' = phase \/ (phase \in Underway /\ phase' \in Underway)
    BY <1>8
       DEF RunStep, status, Underway,
         SetupFails, BeginWriting, VerifyFails, TryPublishRecording,
         PublishStop, StorageFails, StorageHealthy, LowSpace, LoadVideo, LoadAudio,
         ReadyStop, ReadyPhase, ReadyProducers, ReadyTails, ReadyTest, WaitSignalled,
         WaitTimeout, HoldAudio, Select, Encode, EncodeFails, FinalStop, Finish,
         CheckCounts, CloseFile, FreeQueues
  <2>5. UNCHANGED <<Held, Told>>
    BY <2>1, <2>3, <2>4 DEF Held, Told, Underway
  <2>6. QED
    BY <1>1, <2>1, <2>3, <2>5 DEF Contract!vars, Contract!input, Contract!truth
<1>9. QED
  BY <1>2, <1>3, <1>4, <1>5, <1>6, <1>7, <1>8

LEMMA StartImplements ==
  ASSUME AllInv, StartStep
  PROVE  \/ Contract!Call \/ Contract!Begin \/ Contract!Refuse
         \/ UNCHANGED Contract!vars
<1> USE DEF AllInv, At, W
<1>1. UNCHANGED <<wr, rd, alloc, seen>> /\ UNCHANGED Held
  BY DEF StartStep, UiFrame, rings, pinVars, Held
<1>2. RunAt' = RunAt \/ StartThread
  BY DEF StartStep, CallStart, CallStopUi, StartLock, StartBusy, StartSession, StartReset,
         StartPhase, StartReject, StartBusyFlag, StartThreadFails, StartRefused, Goto,
         CallFail, CallStop, call, RunAt, Calling, IInv, TypeOK, Threads
<1>3. CASE StartSession
  <2>1. /\ RunAt = "none" /\ RunAt' = "none" /\ ~Beginning /\ ~Beginning'
        /\ pc["ui"] # "startReset" /\ pc'["ui"] = "startReset"
        /\ session' = session + 1 /\ UNCHANGED <<phase, result, playable>>
    BY <1>3
       DEF StartSession, Goto, call, status, RunAt, Beginning, Starting, Calling, FailLabels,
           StopLabels, IInv, TypeOK, Threads
  <2>2. Stage = "idle" /\ Stage' = "called"
    BY <2>1 DEF Stage, Sealed
  <2>3. UNCHANGED Told
    BY <2>1, <2>2 DEF Told
  <2>4. QED
    BY <1>1, <2>1, <2>2, <2>3 DEF Contract!Call, Contract!input, Contract!truth
<1>4. CASE StartReset
  <2>1. /\ RunAt = "none" /\ RunAt' = "none" /\ ~Beginning /\ Beginning'
        /\ pc["ui"] = "startReset" /\ result' = "OK" /\ playable' = FALSE
        /\ session' = session
    BY <1>4
       DEF StartReset, Goto, call, RunAt, Beginning, Starting, Calling, FailLabels,
           StopLabels, IInv, TypeOK, WorkerBusy, Threads
  <2>2. Stage = "called" /\ Stage' = "starting"
    BY <2>1 DEF Stage, Sealed
  <2>3. Told' = "none"
    BY <2>2 DEF Told
  <2>4. QED
    BY <1>1, <2>1, <2>2, <2>3 DEF Contract!Begin, Contract!input
<1>5. CASE StartThread
  <2>1. /\ RunAt = "none" /\ RunAt' = "setup" /\ Beginning
        /\ UNCHANGED <<phase, result, playable, session>>
    BY <1>5
       DEF StartThread, call, atomics, status, RunAt, Beginning, Starting, Calling,
           FailLabels, StopLabels, IInv, TypeOK, WorkerBusy, Threads
  <2>2. ~alloc
    BY <1>5 DEF Fresh, StartThread, IInv, WorkerBusy
  <2>3. Stage = "starting" /\ Stage' = "starting"
    BY <1>1, <2>1, <2>2 DEF Stage, Sealed
  <2>4. QED
    BY <1>1, <2>1, <2>3 DEF Told, Contract!vars, Contract!input, Contract!truth
<1>6. CASE StartRefused
  <2>1. /\ RunAt = "none" /\ RunAt' = "none" /\ Beginning /\ ~Beginning' /\ phase' = "Failed"
        /\ pc'["ui"] = "idle"
        /\ UNCHANGED <<result, playable, session>> /\ result # "OK"
    BY <1>6
       DEF StartRefused, Goto, call, RunAt, Beginning, Starting, Calling, FailLabels,
           StopLabels, IInv, TypeOK, MutexHeld, PhaseTold, Threads
  <2>2. Stage = "starting" /\ Stage' = "idle"
    BY <2>1 DEF Stage, Sealed
  <2>3. Told' = "failed"
    BY <2>1, <2>2 DEF Told
  <2>4. QED
    BY <1>1, <2>1, <2>2, <2>3 DEF Contract!Refuse, Contract!input
<1>7. CASE ~(StartSession \/ StartReset \/ StartThread \/ StartRefused)
  <2>1. /\ Beginning' = Beginning /\ UNCHANGED <<result, playable, session>>
        /\ pc["ui"] # "startReset" /\ pc'["ui"] # "startReset"
    BY <1>7
       DEF StartStep, CallStart, CallStopUi, StartLock, StartBusy, StartPhase,
           StartReject, StartBusyFlag, StartThreadFails, Goto, CallFail, CallStop, call,
           atomics, status, Beginning, Starting, Calling, FailLabels, StopLabels, IInv,
           TypeOK, Threads
  <2>2. Stage' = Stage
    BY <1>1, <1>2, <1>7, <2>1 DEF Stage, Sealed
  <2>3. UNCHANGED Told
    <3>1. CASE StartPhase
      <4>1. Stage = "starting"
        BY <3>1
           DEF StartPhase, Stage, Sealed, RunAt, Beginning, Calling, FailLabels, StopLabels, IInv,
               WorkerBusy
      <4>2. QED
        BY <2>2, <4>1 DEF Told
    <3>2. CASE ~StartPhase
      <4>1. phase' = phase
        BY <1>7, <3>2
           DEF StartStep, CallStart, CallStopUi, StartLock, StartBusy,
               StartReject, StartBusyFlag, StartThreadFails, atomics, status
      <4>2. QED
        BY <2>2, <4>1 DEF Told
    <3>3. QED
      BY <3>1, <3>2
  <2>4. QED
    BY <1>1, <2>1, <2>2, <2>3 DEF Contract!vars, Contract!input, Contract!truth
<1>8. QED
  BY <1>3, <1>4, <1>5, <1>6, <1>7

LEMMA OwnerImplements ==
  ASSUME AllInv, OwnStep
  PROVE  UNCHANGED Contract!vars
<1>1. RunAt' = RunAt /\ Beginning' = Beginning /\ pc'["ui"] = pc["ui"]
  BY OwnerLocal DEF AllInv, Others, RunAt, Beginning, Starting, Calling, At, W, Threads, Pins
<1>2. UNCHANGED <<wr, rd, alloc, phase, result, playable, session, seen>>
  BY DEF OwnStep, OwnerFrame, atomics, status, rings, pinVars
<1>3. QED
  BY <1>1, <1>2 DEF Contract!vars, Contract!input, Contract!truth, Stage, Sealed, Told, Held, At

LEMMA InitImplements == Init => Contract!Init
<1> SUFFICES ASSUME Init PROVE Contract!Init
  OBVIOUS
<1>1. RunAt = "none" /\ ~Beginning /\ ~At("ui", "startReset")
  BY DEF Init, RunAt, Beginning, Starting, Calling, At, W, Threads, Pins, FailLabels, StopLabels
<1>2. Stage = "idle"
  BY <1>1 DEF Stage, Sealed
<1>3. Held = Contract!Nothing /\ seen = Contract!Nothing
  BY DEF Init, Held, Contract!Nothing
<1>4. Told = "none"
  BY <1>2 DEF Told, Init
<1>5. QED
  BY <1>2, <1>3, <1>4 DEF Init, Contract!Init

LEMMA NextImplements == AllInv /\ [Next]_vars => [Contract!Next]_(Contract!vars)
<1> SUFFICES ASSUME AllInv, [Next]_vars PROVE [Contract!Next]_(Contract!vars)
  OBVIOUS
<1>1. ASSUME NEW p \in Pins, PinStep(p)
      PROVE  [Contract!Next]_(Contract!vars)
  BY <1>1, PinImplements DEF Contract!Next
<1>2. ASSUME NEW t \in Threads, FailOrStop(t)
      PROVE  [Contract!Next]_(Contract!vars)
  BY <1>2, CallImplements DEF Contract!Next
<1>3. CASE RunStep
  BY <1>3, RunImplements DEF Contract!Next
<1>4. CASE StartStep
  BY <1>4, StartImplements DEF Contract!Next
<1>5. CASE OwnStep
  BY <1>5, OwnerImplements
<1>6. CASE UNCHANGED vars
  BY <1>6
     DEF vars, atomics, status, rings, member, call, pinVars, Contract!vars, Contract!input,
         Contract!truth, Stage, Told, Held, RunAt, Beginning, Starting, Calling, At
<1>7. QED
  BY <1>1, <1>2, <1>3, <1>4, <1>5, <1>6, Steps

-----------------------------------------------------------------------------
(* The theorems                                                            *)

\* Configure, Shutdown and Start replace the plain members only while no worker
\* exists and no callback is past the gates, whatever the number of calls.
THEOREM ConfigurationStableHolds == Spec => []ConfigurationStable
<1>1. AllInv => ConfigurationStable
  BY StableWhenHeld DEF AllInv
<1>2. QED
  BY <1>1, AllInvariant, PTL

\* A callback never fills the slot the worker is moving a packet out of, for
\* rings of every size and batches of every length.
THEOREM SlotsExclusiveHolds == Spec => []SlotsExclusive
<1>1. AllInv => SlotsExclusive
  BY ExclusiveWhenBounded DEF AllInv
<1>2. QED
  BY <1>1, AllInvariant, PTL

\* A worker asleep on the unset event, with a packet queued or a recording to
\* finalize, has some thread about to set it.
THEOREM NoMissedWakeupHolds == Spec => []NoMissedWakeup
<1>1. AllInv => NoMissedWakeup
  BY DEF AllInv, Signalled
<1>2. QED
  BY <1>1, AllInvariant, PTL

\* A recording without an error is finalized with every published packet taken.
THEOREM NothingLostHolds == Spec => []NothingLost
<1>1. AllInv => NothingLost
  BY NothingLostWhenSettled DEF AllInv
<1>2. QED
  BY <1>1, AllInvariant, PTL

\* Once idle the recorder tells the truth: Saved is a validated file without an
\* error, Failed has an error and a class for it.
THEOREM OutcomeReportedHolds == Spec => []OutcomeReported
<1>1. AllInv => OutcomeReported
  BY ReportedWhenTold DEF AllInv
<1>2. QED
  BY <1>1, AllInvariant, PTL

\* No late callback, Stop or Shutdown alters the outcome of a finished recording.
THEOREM OutcomeStableHolds == Spec => OutcomeStable
<1>1. AllInv /\ [Next]_vars =>
        [~busy /\ lifecycle # "ui" => UNCHANGED <<result, failure, playable>>]_vars
  BY OutcomeKept DEF AllInv
<1>2. QED
  BY <1>1, AllInvariant, PTL DEF Spec, OutcomeStable

\* Whatever its threads do between each other's steps, the recorder is one recording at a
\* time: a packet goes in only while the recording runs in which its callback arrived,
\* never outside its start and its sealing; an outcome without an error means that all
\* were taken and the file is whole, and it stands until the next.
THEOREM ImplementsContractHolds == Spec => ImplementsContract
  BY InitImplements, NextImplements, AllInvariant, PTL
     DEF Spec, ImplementsContract, Contract!Spec
=============================================================================
