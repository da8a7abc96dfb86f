-------------------------- MODULE CaptureLoopProofs --------------------------
(***************************************************************************)
(* The safety properties of CaptureLoop, for any number of driver streams  *)
(* and power revisions and graph batches and queues of any length.         *)
(***************************************************************************)
EXTENDS CaptureLoop, TLAPS

Pcs == {"Setup", "Output", "Connect", "Sound", "Run", "Acquire", "Top", "Audio", "Wait",
        "Drain", "Wake", "Check", "Take", "Taken", "Resize", "Refresh", "Admit", "Upload",
        "Present", "Stop", "Stopping", "Ended"}

Outcomes == {"none", "setup", "ended", "renderer", "audio", "graph", "completed", "format",
             "timeout", "decode"}

Readinesses == [handle : BOOLEAN, ready : BOOLEAN, bypassed : BOOLEAN]

LEMMA Typed ==
  TypeOK <=>
    /\ pc \in Pcs /\ outcome \in Outcomes
    /\ readiness \in Readinesses /\ queue \in Seq(Codes)
    /\ mode \in Modes /\ scenario \in Scenarios /\ running \in BOOLEAN /\ closing \in BOOLEAN
    /\ latest \in BOOLEAN /\ formatFailure \in BOOLEAN /\ frameEvent \in BOOLEAN
    /\ streamPc \in [Streams -> {"idle", "push", "reject", "signal"}] /\ audioRejected \in BOOLEAN
    /\ frameReady \in BOOLEAN /\ received \in BOOLEAN /\ taken \in BOOLEAN /\ timedOut \in BOOLEAN
    /\ outputChanged \in BOOLEAN /\ occluded \in BOOLEAN
    /\ chain \in {"signaled", "granted", "busy", "silent"}
    /\ count \in 0 .. Batch
    /\ failure \in BOOLEAN /\ completionPending \in BOOLEAN /\ errorQueued \in BOOLEAN
    /\ power \in 0 .. MaxPower /\ observed \in 0 .. MaxPower
    /\ powerEvent \in BOOLEAN /\ notifying \in BOOLEAN
    /\ request \in {"none", "live", "dead", "failed"}
  BY Zenon DEF TypeOK, Pcs, Outcomes, Readinesses

\* A readiness record after any of the assignments of the loop.
LEMMA ReadinessTyped ==
  ASSUME readiness \in Readinesses,
         \/ readiness' = readiness
         \/ readiness' \in {Fresh(mode), NoHandle}
         \/ readiness' \in {[Fresh(mode) EXCEPT !.ready = (mode = "VSync")], NoHandle}
         \/ readiness' = [readiness EXCEPT !.ready = TRUE]
         \/ readiness' = [readiness EXCEPT !.ready = FALSE]
         \/ readiness' = [readiness EXCEPT !.bypassed = TRUE]
  PROVE  readiness' \in Readinesses
<1>1. NoHandle \in Readinesses
  BY DEF NoHandle, Readinesses
<1>2. (mode = "VSync") \in BOOLEAN
  OBVIOUS
<1>3. Fresh(mode) \in Readinesses
  BY <1>1, <1>2 DEF Fresh, Readinesses
<1>4. [Fresh(mode) EXCEPT !.ready = (mode = "VSync")] \in Readinesses
  BY <1>2, <1>3 DEF Readinesses
<1>5. QED
  BY <1>1, <1>3, <1>4 DEF Readinesses

LEMMA TypeKept ==
  ASSUME TypeOK, [Next]_vars
  PROVE  TypeOK'
<1> USE ConstantsAssumption
<1>1. ASSUME NEW s \in Streams, Stream(s)
      PROVE  TypeOK'
  <2>1. streamPc' \in [Streams -> {"idle", "push", "reject", "signal"}]
    BY <1>1, Typed DEF Stream, SampleArrives, Push, RejectFormat, SignalFrame
  <2>2. latest' \in BOOLEAN /\ formatFailure' \in BOOLEAN /\ frameEvent' \in BOOLEAN
    BY <1>1, Typed DEF Stream, SampleArrives, Push, RejectFormat, SignalFrame
  <2>3. UNCHANGED <<mode, scenario, pc, outcome, ui, audioRejected, loop, display, graph, powers>>
    BY <1>1 DEF Stream
  <2>4. QED
    BY <2>1, <2>2, <2>3, Typed DEF TypeOK, ui, loop, display, graph, powers
<1>2. CASE Owner
  <2>1. pc' \in Pcs /\ outcome' \in Outcomes
    <3> USE DEF Pcs, Outcomes, GoTo, Leave, StayIn
    <3>0. pc \in Pcs /\ outcome \in Outcomes
      BY Typed
    <3>1. CASE Setup
      <4>1. /\ pc' \in {"Sound", "Output", "Connect", "Run", "Stopping"}
            /\ outcome' = outcome \/ outcome' = "setup"
        BY <3>1 DEF OpenDevice, BuildOutput, ConnectVideo, ConnectAudio, Setup, Stage
      <4>2. QED
        BY <3>0, <4>1
    <3>2. CASE Run \/ Acquire \/ Top \/ CheckAudio
      <4>1. /\ pc' \in {"Acquire", "Top", "Stopping", "Stop", "Audio", "Wait"}
            /\ outcome' = outcome \/ outcome' \in {"setup", "ended", "renderer", "audio"}
        BY <3>2 DEF Run, Acquire, Top, CheckAudio, Recover, Resized
      <4>2. QED
        BY <3>0, <4>1
    <3>3. CASE WaitGraph \/ WaitWake \/ WaitFrame \/ WaitPresentation \/ WaitTimeout
      BY <3>0, <3>3 DEF WaitGraph, WaitWake, WaitFrame, WaitPresentation, WaitTimeout
    <3>4. CASE DrainEvent \/ Drained \/ ApplyPending
      BY <3>0, <3>4 DEF DrainEvent, Drained, ApplyPending
    <3>5. CASE CheckFails \/ CheckUnpaced
      BY <3>0, <3>5 DEF CheckFails, CheckEnds, CheckUnpaced
    <3>6. CASE CheckOccluded \/ CheckPaced
      BY <3>0, <3>6 DEF Recover, CheckOccluded, CheckPaced
    <3>7. CASE Take \/ Taken \/ Resize \/ Refresh
      BY <3>0, <3>7 DEF Recover, Resized, Take, Taken, Resize, Refresh
    <3>8. CASE Admit \/ Upload \/ Present
      BY <3>0, <3>8 DEF Recover, Admit, Upload, Present
    <3>9. CASE Stop \/ Teardown
      BY <3>0, <3>9 DEF Stop, Teardown
    <3>10. QED
      BY <1>2, <3>1, <3>2, <3>3, <3>4, <3>5, <3>6, <3>7, <3>8, <3>9, Zenon DEF Owner
  <2>2. readiness' \in Readinesses
    <3>1. readiness \in Readinesses
      BY Typed
    <3>2. QED
      BY <1>2, <3>1, ReadinessTyped
         DEF Owner, display, GoTo, Leave, StayIn, Drop, Recover, Resized, NewChain,
             Passed, OpenDevice, BuildOutput, ConnectVideo, ConnectAudio, Setup, Stage,
             Run, Acquire, Top, CheckAudio, WaitGraph, WaitWake, WaitFrame,
             WaitPresentation, WaitTimeout, DrainEvent, Drained, ApplyPending,
             CheckFails, CheckEnds, CheckUnpaced, CheckOccluded, CheckPaced, Take,
             Taken, Resize, Refresh, Admit, Upload, Present, Stop, Teardown
  <2>3. queue' \in Seq(Codes)
    <3>1. queue' = queue \/ (queue # <<>> /\ queue' = Tail(queue))
      BY <1>2
         DEF Owner, graph, OpenDevice, BuildOutput, ConnectVideo, ConnectAudio, Setup,
             Stage, Run, Acquire, Top, CheckAudio, WaitGraph, WaitWake, WaitFrame,
             WaitPresentation, WaitTimeout, DrainEvent, Drained, ApplyPending,
             CheckFails, CheckEnds, CheckUnpaced, CheckOccluded, CheckPaced, Take,
             Taken, Resize, Refresh, Admit, Upload, Present, Stop, Teardown
    <3>2. QED
      BY <3>1, Typed
  <2>4. /\ mode' \in Modes /\ scenario' \in Scenarios /\ running' \in BOOLEAN /\ closing' \in BOOLEAN
        /\ audioRejected' \in BOOLEAN
        /\ streamPc' \in [Streams -> {"idle", "push", "reject", "signal"}]
    BY <1>2, Typed
       DEF Owner, ui, mailbox, OpenDevice, BuildOutput, ConnectVideo, ConnectAudio,
           Setup, Stage, Run, Acquire, Top, CheckAudio, WaitGraph, WaitWake, WaitFrame,
           WaitPresentation, WaitTimeout, DrainEvent, Drained, ApplyPending, CheckFails,
           CheckEnds, CheckUnpaced, CheckOccluded, CheckPaced, Take, Taken, Resize,
           Refresh, Admit, Upload, Present, Stop, Teardown
  <2>5. latest' \in BOOLEAN /\ formatFailure' \in BOOLEAN /\ frameEvent' \in BOOLEAN
    BY <1>2, Typed
       DEF Owner, mailbox, OpenDevice, BuildOutput, ConnectVideo, ConnectAudio, Setup,
           Stage, Run, Acquire, Top, CheckAudio, WaitGraph, WaitWake, WaitFrame,
           WaitPresentation, WaitTimeout, DrainEvent, Drained, ApplyPending, CheckFails,
           CheckEnds, CheckUnpaced, CheckOccluded, CheckPaced, Take, Taken, Resize,
           Refresh, Admit, Upload, Present, Stop, Teardown
  <2>6. frameReady' \in BOOLEAN /\ received' \in BOOLEAN /\ taken' \in BOOLEAN /\ timedOut' \in BOOLEAN
    BY <1>2, Typed
       DEF Owner, loop, Drop, OpenDevice, BuildOutput, ConnectVideo, ConnectAudio,
           Setup, Stage, Run, Acquire, Top, CheckAudio, WaitGraph, WaitWake, WaitFrame,
           WaitPresentation, WaitTimeout, DrainEvent, Drained, ApplyPending, CheckFails,
           CheckEnds, CheckUnpaced, CheckOccluded, CheckPaced, Take, Taken, Resize,
           Refresh, Admit, Upload, Present, Stop, Teardown
  <2>7. outputChanged' \in BOOLEAN /\ occluded' \in BOOLEAN /\ chain' \in {"signaled", "granted", "busy", "silent"}
    BY <1>2, Typed
       DEF Owner, display, Recover, Resized, NewChain, OpenDevice, BuildOutput,
           ConnectVideo, ConnectAudio, Setup, Stage, Run, Acquire, Top, CheckAudio,
           WaitGraph, WaitWake, WaitFrame, WaitPresentation, WaitTimeout, DrainEvent,
           Drained, ApplyPending, CheckFails, CheckEnds, CheckUnpaced, CheckOccluded,
           CheckPaced, Take, Taken, Resize, Refresh, Admit, Upload, Present, Stop,
           Teardown
  <2>8. /\ count' \in 0 .. Batch
        /\ failure' \in BOOLEAN /\ completionPending' \in BOOLEAN /\ errorQueued' \in BOOLEAN
    <3>1. CASE DrainEvent
      <4>1. count' \in 0 .. Batch
        BY <3>1, Typed DEF DrainEvent
      <4>2. failure' \in BOOLEAN /\ completionPending' \in BOOLEAN /\ errorQueued' \in BOOLEAN
        BY <3>1, Typed, Zenon DEF DrainEvent
      <4>3. QED
        BY <4>1, <4>2
    <3>2. CASE Drained
      <4>1. count' \in 0 .. Batch
        BY <3>2 DEF Drained
      <4>2. failure' \in BOOLEAN /\ completionPending' \in BOOLEAN /\ errorQueued' \in BOOLEAN
        BY <3>2, Typed, Zenon DEF Drained
      <4>3. QED
        BY <4>1, <4>2
    <3>3. CASE ~DrainEvent /\ ~Drained
      BY <1>2, <3>3, Typed
         DEF Owner, graph, OpenDevice, BuildOutput, ConnectVideo, ConnectAudio, Setup,
             Stage, Run, Acquire, Top, CheckAudio, WaitGraph, WaitWake, WaitFrame,
             WaitPresentation, WaitTimeout, DrainEvent, Drained, ApplyPending,
             CheckFails, CheckEnds, CheckUnpaced, CheckOccluded, CheckPaced, Take,
             Taken, Resize, Refresh, Admit, Upload, Present, Stop, Teardown
    <3>4. QED
      BY <3>1, <3>2, <3>3
  <2>9. /\ power' \in 0 .. MaxPower /\ observed' \in 0 .. MaxPower
        /\ powerEvent' \in BOOLEAN /\ notifying' \in BOOLEAN
        /\ request' \in {"none", "live", "dead", "failed"}
    BY <1>2, Typed
       DEF Owner, powers, OpenDevice, BuildOutput, ConnectVideo, ConnectAudio, Setup,
           Stage, Run, Acquire, Top, CheckAudio, WaitGraph, WaitWake, WaitFrame,
           WaitPresentation, WaitTimeout, DrainEvent, Drained, ApplyPending, CheckFails,
           CheckEnds, CheckUnpaced, CheckOccluded, CheckPaced, Take, Taken, Resize,
           Refresh, Admit, Upload, Present, Stop, Teardown
  <2>10. QED
    BY <2>1, <2>2, <2>3, <2>4, <2>5, <2>6, <2>7, <2>8, <2>9
       DEF TypeOK, Pcs, Outcomes, Readinesses
<1>3. CASE AudioRejects \/ Environment
  <2>1. UNCHANGED <<mode, scenario, pc, outcome, mailbox, loop, readiness, occluded>>
    BY <1>3
       DEF AudioRejects, Environment, display, GraphEvent, ChainSignals, OutputChanges,
           NotifyPower, SignalPower, Sleep, Close
  <2>2. /\ running' \in BOOLEAN /\ closing' \in BOOLEAN /\ audioRejected' \in BOOLEAN
        /\ outputChanged' \in BOOLEAN /\ chain' \in {"signaled", "granted", "busy", "silent"}
    BY <1>3, Typed
       DEF AudioRejects, Environment, ui, display, GraphEvent, ChainSignals,
           OutputChanges, NotifyPower, SignalPower, Sleep, Close
  <2>3. /\ power' \in 0 .. MaxPower /\ observed' \in 0 .. MaxPower
        /\ powerEvent' \in BOOLEAN /\ notifying' \in BOOLEAN
        /\ request' \in {"none", "live", "dead", "failed"}
    <3>1. power' \in 0 .. MaxPower
      <4>1. CASE NotifyPower
        BY <4>1, ConstantsAssumption, Typed DEF NotifyPower
      <4>2. CASE ~NotifyPower
        BY <1>3, <4>2, Typed
           DEF AudioRejects, Environment, powers, GraphEvent, ChainSignals,
               OutputChanges, NotifyPower, SignalPower, Sleep, Close
      <4>3. QED
        BY <4>1, <4>2
    <3>2. /\ UNCHANGED observed
          /\ powerEvent' \in BOOLEAN /\ notifying' \in BOOLEAN
          /\ request' \in {"none", "live", "dead", "failed"}
      BY <1>3, Typed
         DEF AudioRejects, Environment, powers, GraphEvent, ChainSignals, OutputChanges,
             NotifyPower, SignalPower, Sleep, Close
    <3>3. QED
      BY <3>1, <3>2, Typed
  <2>4. count' \in 0 .. Batch /\ failure' \in BOOLEAN /\ completionPending' \in BOOLEAN
    BY <1>3, Typed
       DEF AudioRejects, Environment, graph, GraphEvent, ChainSignals, OutputChanges,
           NotifyPower, SignalPower, Sleep, Close
  <2>5. queue' \in Seq(Codes) /\ errorQueued' \in BOOLEAN
    <3>1. CASE GraphEvent
      <4>1. PICK code \in Codes : /\ queue' = Append(queue, code)
                                  /\ errorQueued' = (errorQueued \/ (code = "error" /\ outcome = "none"))
        BY <3>1 DEF GraphEvent
      <4>2. queue' \in Seq(Codes)
        BY <4>1, Typed
      <4>3. errorQueued' \in BOOLEAN
        BY <4>1, Zenon
      <4>4. QED
        BY <4>2, <4>3
    <3>2. CASE ~GraphEvent
      BY <1>3, <3>2, Typed
         DEF AudioRejects, Environment, graph, GraphEvent, ChainSignals, OutputChanges,
             NotifyPower, SignalPower, Sleep, Close
    <3>3. QED
      BY <3>1, <3>2
  <2>6. QED
    BY <2>1, <2>2, <2>3, <2>4, <2>5, Typed DEF TypeOK, mailbox, loop
<1>4. CASE UNCHANGED vars
  BY <1>4 DEF TypeOK, vars, ui, mailbox, loop, display, graph, powers
<1>5. QED
  BY <1>1, <1>2, <1>3, <1>4 DEF Next

LEMMA NoStaleFrameKept ==
  ASSUME IInv, [Next]_vars
  PROVE  NoStaleFrame'
<1> USE DEF NoStaleFrame
<1>1. ASSUME NEW s \in Streams, Stream(s)
      PROVE  NoStaleFrame'
  BY <1>1 DEF IInv, TypeOK, Stream, SampleArrives, Push, RejectFormat, SignalFrame
<1>2. CASE Owner
  BY <1>2
     DEF IInv, TypeOK, Owner, GoTo, Leave, StayIn, Drop, Recover, Resized, NewChain,
         Fresh, NoHandle, Passed, OpenDevice, BuildOutput, ConnectVideo, ConnectAudio,
         Setup, Stage, Run, Acquire, Top, CheckAudio, WaitGraph, WaitWake, WaitFrame,
         WaitPresentation, WaitTimeout, DrainEvent, Drained, ApplyPending, CheckFails,
         CheckEnds, CheckUnpaced, CheckOccluded, CheckPaced, Take, Taken, Resize,
         Refresh, Admit, Upload, Present, Stop, Teardown, ui, mailbox, loop, display,
         graph, powers
<1>3. CASE AudioRejects \/ Environment
  BY <1>3
     DEF IInv, AudioRejects, Environment, GraphEvent, ChainSignals, OutputChanges,
         NotifyPower, SignalPower, Sleep, Close, ui, mailbox, loop, display, graph,
         powers
<1>4. CASE UNCHANGED vars
  BY <1>4 DEF IInv, vars, mailbox
<1>5. QED
  BY <1>1, <1>2, <1>3, <1>4 DEF Next

LEMMA KnownKept ==
  ASSUME IInv, [Next]_vars
  PROVE  (Alive => Known)'
<1> USE DEF Known, Alive
<1>1. ASSUME NEW s \in Streams, Stream(s)
      PROVE  (Alive => Known)'
  BY <1>1
     DEF IInv, TypeOK, NoStaleFrame, Stream, loop, SampleArrives, Push, RejectFormat,
         SignalFrame
<1>2. CASE Owner
  BY <1>2
     DEF IInv, TypeOK, Owner, SettingUp, GoTo, Leave, StayIn, Drop, Recover, Resized,
         NewChain, Fresh, NoHandle, Passed, OpenDevice, BuildOutput, ConnectVideo,
         ConnectAudio, Setup, Stage, Run, Acquire, Top, CheckAudio, WaitGraph, WaitWake,
         WaitFrame, WaitPresentation, WaitTimeout, DrainEvent, Drained, ApplyPending,
         CheckFails, CheckEnds, CheckUnpaced, CheckOccluded, CheckPaced, Take, Taken,
         Resize, Refresh, Admit, Upload, Present, Stop, Teardown, ui, mailbox, loop,
         display, graph, powers
<1>3. CASE AudioRejects \/ Environment
  BY <1>3
     DEF IInv, AudioRejects, Environment, GraphEvent, ChainSignals, OutputChanges,
         NotifyPower, SignalPower, Sleep, Close, ui, mailbox, loop, display, graph,
         powers
<1>4. CASE UNCHANGED vars
  BY <1>4 DEF IInv, vars, mailbox, loop
<1>5. QED
  BY <1>1, <1>2, <1>3, <1>4 DEF Next

LEMMA ErrorsKept ==
  ASSUME IInv, [Next]_vars
  PROVE  (Errors /\ CompletionHidesNoError)'
<1> USE ConstantsAssumption DEF Errors, CompletionHidesNoError, Alive
<1>1. ASSUME NEW s \in Streams, Stream(s)
      PROVE  (Errors /\ CompletionHidesNoError)'
  BY <1>1 DEF IInv, Stream, graph
<1>2. CASE Owner
  <2>1. CASE DrainEvent
    <3>1. /\ queue' = Tail(queue) /\ queue \in Seq(Codes) /\ queue # <<>>
          /\ failure' = (failure \/ Head(queue) = "error")
          /\ UNCHANGED <<pc, outcome, errorQueued>>
      BY <2>1 DEF DrainEvent, IInv, TypeOK
    <3>2. ASSUME NEW i \in 1 .. Len(queue), queue[i] = "error"
          PROVE  failure' \/ \E j \in 1 .. Len(queue') : queue'[j] = "error"
      <4>1. CASE i = 1
        <5>1. Head(queue) = "error"
          BY <3>1, <3>2, <4>1
        <5>2. QED
          BY <3>1, <5>1, Zenon
      <4>2. CASE i # 1
        <5>1. i - 1 \in 1 .. Len(queue') /\ queue'[i - 1] = queue[i]
          BY <3>1, <4>2
        <5>2. QED
          BY <3>2, <5>1
      <4>3. QED
        BY <4>1, <4>2
    <3>3. QED
      BY <3>1, <3>2 DEF IInv
  <2>2. CASE Drained
    BY <2>2 DEF IInv, TypeOK, Drained, GoTo, Leave, StayIn
  <2>3. CASE Owner /\ ~DrainEvent /\ ~Drained
    <3>1. UNCHANGED <<queue, failure, errorQueued>>
      BY <2>3
         DEF Owner, GoTo, Leave, StayIn, Drop, Recover, Resized, NewChain, Fresh,
             NoHandle, Passed, OpenDevice, BuildOutput, ConnectVideo, ConnectAudio,
             Setup, Stage, Run, Acquire, Top, CheckAudio, WaitGraph, WaitWake,
             WaitFrame, WaitPresentation, WaitTimeout, DrainEvent, Drained,
             ApplyPending, CheckFails, CheckEnds, CheckUnpaced, CheckOccluded,
             CheckPaced, Take, Taken, Resize, Refresh, Admit, Upload, Present, Stop,
             Teardown, ui, mailbox, loop, display, graph, powers
    <3>2. /\ outcome' # outcome => outcome' # "completed" /\ outcome' # "none"
          /\ pc' \notin {"Stop", "Stopping", "Ended"} => outcome' = outcome /\ Alive
      BY <2>3
         DEF Owner, GoTo, Leave, StayIn, Drop, Recover, Resized, NewChain, Fresh,
             NoHandle, Passed, OpenDevice, BuildOutput, ConnectVideo, ConnectAudio,
             Setup, Stage, Run, Acquire, Top, CheckAudio, WaitGraph, WaitWake,
             WaitFrame, WaitPresentation, WaitTimeout, DrainEvent, Drained,
             ApplyPending, CheckFails, CheckEnds, CheckUnpaced, CheckOccluded,
             CheckPaced, Take, Taken, Resize, Refresh, Admit, Upload, Present, Stop,
             Teardown, ui, mailbox, loop, display, graph, powers
    <3>3. QED
      BY <3>1, <3>2 DEF IInv
  <2>4. QED
    BY <1>2, <2>1, <2>2, <2>3
<1>3. CASE AudioRejects \/ Environment
  <2>1. CASE GraphEvent
    BY <2>1 DEF IInv, TypeOK, GraphEvent, Codes
  <2>2. CASE ~GraphEvent
    BY <1>3, <2>2
       DEF IInv, AudioRejects, Environment, GraphEvent, ChainSignals, OutputChanges,
           NotifyPower, SignalPower, Sleep, Close, ui, mailbox, loop, display, graph,
           powers
  <2>3. QED
    BY <2>1, <2>2
<1>4. CASE UNCHANGED vars
  BY <1>4 DEF IInv, vars, graph
<1>5. QED
  BY <1>1, <1>2, <1>3, <1>4 DEF Next

LEMMA NewsKept ==
  ASSUME IInv, [Next]_vars
  PROVE  (News /\ PowerFollowsState)'
<1> USE ConstantsAssumption DEF News, PowerFollowsState, InLoop, Alive, SettingUp
<1>1. ASSUME NEW s \in Streams, Stream(s)
      PROVE  (News /\ PowerFollowsState)'
  BY <1>1 DEF IInv, Stream, powers, ui, Suspended
<1>2. CASE Owner
  <2>1. CASE Run
    BY <2>1 DEF IInv, TypeOK, Run, GoTo, StayIn, Suspended, ui
  <2>2. CASE Acquire
    BY <2>2 DEF IInv, TypeOK, Acquire, GoTo, StayIn, Suspended, ui
  <2>3. CASE WaitWake
    BY <2>3 DEF IInv, TypeOK, WaitWake, GoTo, StayIn, Suspended, ui
  <2>4. CASE ApplyPending
    BY <2>4
       DEF IInv, TypeOK, ApplyPending, GoTo, Leave, StayIn, Suspended, ui,
           ExclusiveClosing
  <2>5. CASE Stop
    BY <2>5 DEF IInv, TypeOK, Stop, GoTo, StayIn, ui
  <2>6. CASE Owner /\ ~Run /\ ~Acquire /\ ~WaitWake /\ ~ApplyPending /\ ~Stop
    <3>1. UNCHANGED <<running, powers>>
      BY <2>6
         DEF Owner, OpenDevice, BuildOutput, ConnectVideo, ConnectAudio, Setup, Stage,
             Run, Acquire, Top, CheckAudio, WaitGraph, WaitWake, WaitFrame,
             WaitPresentation, WaitTimeout, DrainEvent, Drained, ApplyPending,
             CheckFails, CheckEnds, CheckUnpaced, CheckOccluded, CheckPaced, Take,
             Taken, Resize, Refresh, Admit, Upload, Present, Stop, Teardown, ui,
             mailbox, loop, display, graph, powers
    <3>2. /\ SettingUp' \/ pc' \in {"Run", "Acquire"} => SettingUp
          /\ InLoop' => InLoop /\ pc \notin {"Acquire", "Wake"}
      BY <2>6
         DEF Owner, GoTo, Leave, StayIn, Drop, Recover, Resized, NewChain, Fresh,
             NoHandle, Passed, OpenDevice, BuildOutput, ConnectVideo, ConnectAudio,
             Setup, Stage, Run, Acquire, Top, CheckAudio, WaitGraph, WaitWake,
             WaitFrame, WaitPresentation, WaitTimeout, DrainEvent, Drained,
             ApplyPending, CheckFails, CheckEnds, CheckUnpaced, CheckOccluded,
             CheckPaced, Take, Taken, Resize, Refresh, Admit, Upload, Present, Stop,
             Teardown
    <3>3. QED
      BY <3>1, <3>2 DEF IInv, TypeOK, powers, Suspended
  <2>7. QED
    BY <1>2, <2>1, <2>2, <2>3, <2>4, <2>5, <2>6
<1>3. CASE AudioRejects \/ Environment
  BY <1>3
     DEF IInv, TypeOK, AudioRejects, Environment, Suspended, GraphEvent, ChainSignals,
         OutputChanges, NotifyPower, SignalPower, Sleep, Close, ui, mailbox, loop,
         display, graph, powers
<1>4. CASE UNCHANGED vars
  BY <1>4 DEF IInv, vars, powers, ui, Suspended
<1>5. QED
  BY <1>1, <1>2, <1>3, <1>4 DEF Next

\* A new swap chain has granted nothing yet.
LEMMA NewChainNotReady ==
  ASSUME NewChain
  PROVE  chain' = "signaled" /\ ~readiness'.ready
<1>1. NoHandle.ready = FALSE
  BY DEF NoHandle
<1>2. Fresh(mode).ready = FALSE
  BY DEF Fresh, NoHandle
<1>3. QED
  BY <1>1, <1>2 DEF NewChain

LEMMA CreditKept ==
  ASSUME IInv, [Next]_vars
  PROVE  Credit'
<1> USE DEF Credit, Ready, Paced
<1>1. ASSUME NEW s \in Streams, Stream(s)
      PROVE  Credit'
  BY <1>1 DEF IInv, Stream, display
<1>2. CASE Owner
  <2>1. CASE WaitPresentation
    BY <2>1 DEF IInv, TypeOK, WaitPresentation, GoTo, StayIn
  <2>2. CASE Admit
    BY <2>2 DEF IInv, TypeOK, Admit, GoTo, StayIn, Drop
  <2>3. CASE CheckPaced
    <3>1. pc' \notin {"Upload", "Present"}
      BY <2>3 DEF CheckPaced, Recover, GoTo, Leave
    <3>2. CASE NewChain
      BY <3>1, <3>2, NewChainNotReady
    <3>3. CASE ~NewChain
      <4>1. readiness'.ready = readiness.ready /\ chain' = chain
        BY <2>3, <3>3 DEF CheckPaced, Recover, IInv, TypeOK, display
      <4>2. QED
        BY <3>1, <4>1 DEF IInv
    <3>4. QED
      BY <3>2, <3>3
  <2>4. CASE Upload
    <3>1. CASE UNCHANGED display
      BY <2>4, <3>1 DEF IInv, Upload, GoTo, Leave, display
    <3>2. CASE NewChain /\ GoTo("Top")
      BY <3>2, NewChainNotReady DEF GoTo
    <3>3. CASE /\ readiness' \in {[Fresh(mode) EXCEPT !.ready = (mode = "VSync")], NoHandle}
               /\ chain' = (IF readiness'.handle THEN "granted" ELSE "signaled")
      <4>1. CASE readiness' = NoHandle
        <5>1. readiness'.ready = FALSE /\ readiness'.handle = FALSE
          BY <4>1 DEF NoHandle
        <5>2. QED
          BY <5>1
      <4>2. CASE readiness' = [Fresh(mode) EXCEPT !.ready = (mode = "VSync")]
        <5>1. readiness'.handle = (mode = "VSync") /\ readiness'.ready = (mode = "VSync")
          BY <4>2 DEF Fresh, NoHandle
        <5>2. QED
          BY <3>3, <5>1
      <4>3. QED
        BY <3>3, <4>1, <4>2
    <3>4. QED
      BY <2>4, <3>1, <3>2, <3>3 DEF Upload
  <2>5. CASE Present
    <3>1. pc' \notin {"Upload", "Present"}
      BY <2>5 DEF Present, Recover, GoTo, Leave
    <3>2. CASE UNCHANGED <<readiness, chain>>
      BY <3>1, <3>2 DEF IInv
    <3>3. CASE NewChain
      BY <3>1, <3>3, NewChainNotReady
    <3>4. CASE readiness' = [readiness EXCEPT !.ready = FALSE]
      <4>1. readiness'.ready = FALSE
        BY <3>4 DEF IInv, TypeOK
      <4>2. QED
        BY <3>1, <4>1
    <3>5. QED
      BY <2>5, <3>2, <3>3, <3>4 DEF Present, Recover, display
  <2>6. CASE Teardown
    BY <2>6 DEF IInv, TypeOK, Teardown, NoHandle, GoTo
  <2>7. CASE Owner /\ ~WaitPresentation /\ ~Admit /\ ~CheckPaced /\ ~Upload /\ ~Present /\ ~Teardown
    <3>1. UNCHANGED <<readiness, chain>> \/ NewChain
      BY <2>7
         DEF Owner, display, GoTo, Leave, StayIn, Drop, Recover, Resized, Passed,
             OpenDevice, BuildOutput, ConnectVideo, ConnectAudio, Setup, Stage, Run,
             Acquire, Top, CheckAudio, WaitGraph, WaitWake, WaitFrame, WaitPresentation,
             WaitTimeout, DrainEvent, Drained, ApplyPending, CheckFails, CheckEnds,
             CheckUnpaced, CheckOccluded, CheckPaced, Take, Taken, Resize, Refresh,
             Admit, Upload, Present, Stop, Teardown
    <3>2. pc' \notin {"Upload", "Present"}
      BY <2>7
         DEF Owner, GoTo, Leave, StayIn, Drop, Recover, Resized, NewChain, Fresh,
             NoHandle, Passed, OpenDevice, BuildOutput, ConnectVideo, ConnectAudio,
             Setup, Stage, Run, Acquire, Top, CheckAudio, WaitGraph, WaitWake,
             WaitFrame, WaitPresentation, WaitTimeout, DrainEvent, Drained,
             ApplyPending, CheckFails, CheckEnds, CheckUnpaced, CheckOccluded,
             CheckPaced, Take, Taken, Resize, Refresh, Admit, Upload, Present, Stop,
             Teardown
    <3>3. QED
      BY <3>1, <3>2, NewChainNotReady DEF IInv
  <2>8. QED
    BY <1>2, <2>1, <2>2, <2>3, <2>4, <2>5, <2>6, <2>7
<1>3. CASE AudioRejects \/ Environment
  BY <1>3
     DEF IInv, AudioRejects, Environment, GraphEvent, ChainSignals, OutputChanges,
         NotifyPower, SignalPower, Sleep, Close, ui, mailbox, loop, display, graph,
         powers
<1>4. CASE UNCHANGED vars
  BY <1>4 DEF IInv, vars, display
<1>5. QED
  BY <1>1, <1>2, <1>3, <1>4 DEF Next

LEMMA InitIInv == Init => IInv
<1> SUFFICES ASSUME Init PROVE IInv
  OBVIOUS
<1>1. TypeOK
  <2>1. /\ pc \in Pcs /\ outcome \in Outcomes /\ chain \in {"signaled", "granted", "busy", "silent"}
        /\ request \in {"none", "live", "dead", "failed"} /\ mode \in Modes /\ scenario \in Scenarios
        /\ streamPc \in [Streams -> {"idle", "push", "reject", "signal"}]
    BY DEF Init, Pcs, Outcomes
  <2>2. count \in 0 .. Batch /\ power \in 0 .. MaxPower /\ observed \in 0 .. MaxPower
    BY ConstantsAssumption DEF Init
  <2>3. readiness \in Readinesses /\ queue \in Seq(Codes)
    BY DEF Init, Readinesses, NoHandle
  <2>4. /\ running \in BOOLEAN /\ closing \in BOOLEAN /\ latest \in BOOLEAN /\ formatFailure \in BOOLEAN
        /\ frameEvent \in BOOLEAN /\ audioRejected \in BOOLEAN /\ frameReady \in BOOLEAN
        /\ received \in BOOLEAN /\ taken \in BOOLEAN /\ timedOut \in BOOLEAN
        /\ outputChanged \in BOOLEAN /\ occluded \in BOOLEAN /\ failure \in BOOLEAN
        /\ completionPending \in BOOLEAN /\ errorQueued \in BOOLEAN
        /\ powerEvent \in BOOLEAN /\ notifying \in BOOLEAN
    BY Zenon DEF Init
  <2>5. QED
    BY <2>1, <2>2, <2>3, <2>4, Typed
<1>2. NoStaleFrame /\ Known /\ Errors /\ CompletionHidesNoError
  BY DEF Init, NoStaleFrame, Known, Errors, CompletionHidesNoError
<1>3. News /\ PowerFollowsState
  BY DEF Init, News, PowerFollowsState, InLoop, SettingUp
<1>4. Credit
  BY DEF Init, Credit, NoHandle
<1>5. QED
  BY <1>1, <1>2, <1>3, <1>4 DEF IInv

LEMMA NextIInv == IInv /\ [Next]_vars => IInv'
<1> SUFFICES ASSUME IInv, [Next]_vars PROVE IInv'
  OBVIOUS
<1>1. TypeOK'
  BY TypeKept DEF IInv
<1>2. NoStaleFrame' /\ (Alive => Known)'
  BY NoStaleFrameKept, KnownKept
<1>3. (Errors /\ CompletionHidesNoError)' /\ (News /\ PowerFollowsState)' /\ Credit'
  BY ErrorsKept, NewsKept, CreditKept
<1>4. QED
  BY <1>1, <1>2, <1>3 DEF IInv

\* The invariant holds of every behaviour of the capture loop.
THEOREM Invariance == Spec => []IInv
  BY InitIInv, NextIInv, PTL DEF Spec

\* Every variable keeps its type.
THEOREM TypeCorrect == Spec => []TypeOK
<1>1. IInv => TypeOK
  BY DEF IInv
<1>2. QED
  BY <1>1, Invariance, PTL

\* However many driver threads push and reject: after a rejection the mailbox of
\* LatestVideoSample is empty.
THEOREM NoStaleFrameHolds == Spec => []NoStaleFrame
<1>1. IInv => NoStaleFrame
  BY DEF IInv
<1>2. QED
  BY <1>1, Invariance, PTL

\* A sample in the mailbox is announced by the event, by a callback that is about
\* to set it, or by the loop's own frameReady.
THEOREM NoStrandedFrameHolds == Spec => []NoStrandedFrame
<1>1. IInv => NoStrandedFrame
  BY DEF IInv, NoStrandedFrame, InLoop, Known
<1>2. QED
  BY <1>1, Invariance, PTL

\* CaptureGraphEvents never reports a completion over an error that was queued
\* before it was recognised, whatever the batch.
THEOREM CompletionHidesNoErrorHolds == Spec => []CompletionHidesNoError
<1>1. IInv => CompletionHidesNoError
  BY DEF IInv
<1>2. QED
  BY <1>1, Invariance, PTL

\* The power request follows the last broadcast, for any number of revisions.
THEOREM PowerFollowsStateHolds == Spec => []PowerFollowsState
<1>1. IInv => PowerFollowsState
  BY DEF IInv
<1>2. QED
  BY <1>1, Invariance, PTL

\* A paced loop draws only with a picture granted by the chain it draws to.
THEOREM PresentGrantedHolds == Spec => []PresentGranted
<1>1. IInv => PresentGranted
  BY DEF IInv, PresentGranted, Credit, Ready
<1>2. QED
  BY <1>1, Invariance, PTL
=============================================================================
