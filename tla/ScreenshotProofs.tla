-------------------------- MODULE ScreenshotProofs --------------------------
(***************************************************************************)
(* IInv is an inductive invariant of Screenshot, for any number of         *)
(* requests, frames and sessions.                                          *)
(***************************************************************************)
EXTENDS Screenshot, TLAPS

\* A step of the UI thread keeps the invariant.
LEMMA UiKeepsIInv ==
  ASSUME IInv, UiNext
  PROVE  IInv'
<1> USE BoundsAssumption
    DEF IInv, TypeOK, Handover, UiSaw, MembersCurrent, LocalCurrent, AnswerCurrent,
      Pending, Working, IsAnswer, States, Results, NoResult, UiFrame, capture, worker, history
<1>1. CASE Request
  BY <1>1 DEF Request
<1>2. CASE RequestOptions
  BY <1>2 DEF RequestOptions
<1>3. CASE RequestExchange
  <2>1. TypeOK'
    <3>1. cancel' \in BOOLEAN /\ event' \in BOOLEAN /\ clipboard' \in BOOLEAN
      BY <1>3 DEF RequestExchange
    <3>2. result' \in Results /\ local' \in Results
      BY <1>3 DEF RequestExchange
    <3>3. request' \in [clipboard : BOOLEAN, after : 0 .. MaxFrames]
      BY <1>3 DEF RequestExchange
    <3>4. requests' \in 0 .. MaxRequests /\ answers' \in 0 .. 2
      BY <1>3 DEF RequestExchange
    <3> QED
      BY <1>3, <3>1, <3>2, <3>3, <3>4 DEF RequestExchange
  <2>2. Handover' /\ UiSaw'
    BY <1>3 DEF RequestExchange
  <2>3. MembersCurrent'
    BY <1>3 DEF RequestExchange
  <2>4. LocalCurrent'
    BY <1>3 DEF RequestExchange
  <2>5. AnswerCurrent'
    BY <1>3 DEF RequestExchange
  <2> QED
    BY <2>1, <2>2, <2>3, <2>4, <2>5
<1>4. CASE TakeResult
  BY <1>4 DEF TakeResult
<1>5. CASE TakeMove
  BY <1>5 DEF TakeMove
<1>6. CASE TakeExchange
  BY <1>6 DEF TakeExchange
<1>7. CASE ExpireRequest
  BY <1>7 DEF ExpireRequest
<1>8. CASE CancelPending
  BY <1>8 DEF CancelPending
<1> QED
  BY <1>1, <1>2, <1>3, <1>4, <1>5, <1>6, <1>7, <1>8 DEF UiNext

\* A step of the capture thread keeps the invariant.
LEMMA CaptureKeepsIInv ==
  ASSUME IInv, CaptureNext
  PROVE  IInv'
<1> USE BoundsAssumption
    DEF IInv, TypeOK, Handover, UiSaw, MembersCurrent, LocalCurrent, AnswerCurrent,
      Pending, Working, IsAnswer, States, Results, NoResult, CaptureFrame, Go, ui, history
<1>1. CASE Start
  BY <1>1 DEF Start
<1>2. CASE StartFails
  BY <1>2 DEF StartFails
<1>3. CASE Prepare
  <2>1. TypeOK'
    <3>1. cancel' \in BOOLEAN /\ event' \in BOOLEAN /\ clipboard' \in BOOLEAN
      BY <1>3 DEF Prepare
    <3>2. result' \in Results /\ local' \in Results
      BY <1>3 DEF Prepare
    <3> QED
      BY <1>3, <3>1, <3>2 DEF Prepare
  <2>2. Handover' /\ UiSaw'
    BY <1>3 DEF Prepare
  <2>3. MembersCurrent'
    BY <1>3 DEF Prepare
  <2>4. LocalCurrent'
    BY <1>3 DEF Prepare
  <2>5. AnswerCurrent'
    BY <1>3 DEF Prepare
  <2> QED
    BY <2>1, <2>2, <2>3, <2>4, <2>5
<1>4. CASE CreateThrows
  <2>1. TypeOK'
    <3>1. cancel' \in BOOLEAN /\ event' \in BOOLEAN /\ clipboard' \in BOOLEAN
      BY <1>4 DEF CreateThrows
    <3>2. result' \in Results /\ local' \in Results
      BY <1>4 DEF CreateThrows
    <3> QED
      BY <1>4, <3>1, <3>2 DEF CreateThrows
  <2>2. Handover' /\ UiSaw'
    BY <1>4 DEF CreateThrows
  <2>3. MembersCurrent'
    BY <1>4 DEF CreateThrows
  <2>4. LocalCurrent'
    BY <1>4 DEF CreateThrows
  <2>5. AnswerCurrent'
    BY <1>4 DEF CreateThrows
  <2> QED
    BY <2>1, <2>2, <2>3, <2>4, <2>5
<1>5. CASE CreateThread
  BY <1>5 DEF CreateThread
<1>6. CASE Open
  BY <1>6 DEF Open
<1>7. CASE Submit
  BY <1>7 DEF Submit
<1>8. CASE SubmitReject
  BY <1>8 DEF SubmitReject
<1>9. CASE SubmitCopy
  BY <1>9 DEF SubmitCopy
<1>10. CASE SubmitPublish
  BY <1>10 DEF SubmitPublish
<1>11. CASE SubmitSignal
  BY <1>11 DEF SubmitSignal
<1>12. CASE Stop
  BY <1>12 DEF Stop
<1>13. CASE StopCancel
  BY <1>13 DEF StopCancel
<1>14. CASE StopWake
  BY <1>14 DEF StopWake
<1>15. CASE StopJoin
  <2>1. TypeOK'
    <3>1. cancel' \in BOOLEAN /\ event' \in BOOLEAN /\ clipboard' \in BOOLEAN
      BY <1>15 DEF StopJoin
    <3>2. result' \in Results /\ local' \in Results
      BY <1>15 DEF StopJoin
    <3> QED
      BY <1>15, <3>1, <3>2 DEF StopJoin
  <2>2. Handover' /\ UiSaw'
    BY <1>15 DEF StopJoin
  <2>3. MembersCurrent'
    BY <1>15 DEF StopJoin
  <2>4. LocalCurrent'
    BY <1>15 DEF StopJoin
  <2>5. AnswerCurrent'
    BY <1>15 DEF StopJoin
  <2> QED
    BY <2>1, <2>2, <2>3, <2>4, <2>5
<1> QED
  BY <1>1, <1>2, <1>3, <1>4, <1>5, <1>6, <1>7, <1>8, <1>9, <1>10, <1>11,
     <1>12, <1>13, <1>14, <1>15 DEF CaptureNext

\* A step of the worker keeps the invariant.
LEMMA WorkerKeepsIInv ==
  ASSUME IInv, WorkerNext
  PROVE  IInv'
<1> USE BoundsAssumption
    DEF IInv, TypeOK, Handover, UiSaw, MembersCurrent, LocalCurrent, AnswerCurrent,
      Pending, Working, IsAnswer, States, Results, NoResult, WorkerFrame, Step, ui, capture, history
<1>1. CASE Wake
  <2>1. TypeOK'
    <3>1. cancel' \in BOOLEAN /\ event' \in BOOLEAN /\ clipboard' \in BOOLEAN
      BY <1>1 DEF Wake
    <3>2. result' \in Results /\ local' \in Results
      BY <1>1 DEF Wake
    <3> QED
      BY <1>1, <3>1, <3>2 DEF Wake
  <2>2. Handover' /\ UiSaw'
    BY <1>1 DEF Wake
  <2>3. MembersCurrent'
    BY <1>1 DEF Wake
  <2>4. LocalCurrent'
    BY <1>1 DEF Wake
  <2>5. AnswerCurrent'
    BY <1>1 DEF Wake
  <2> QED
    BY <2>1, <2>2, <2>3, <2>4, <2>5
<1>2. CASE Woken
  BY <1>2 DEF Woken
<1>3. CASE Test
  BY <1>3 DEF Test
<1>4. CASE ReadOptions
  <2>1. TypeOK'
    <3>1. cancel' \in BOOLEAN /\ event' \in BOOLEAN /\ clipboard' \in BOOLEAN
      BY <1>4 DEF ReadOptions
    <3>2. local' = [clipboard |-> clipboard, copied |-> FALSE, frame |-> 0, file |-> "pending"]
      BY <1>4 DEF ReadOptions
    <3>3. local' \in Results
      BY <3>2, 0 \in 0 .. MaxFrames, clipboard \in BOOLEAN DEF Results
    <3> QED
      BY <1>4, <3>1, <3>2, <3>3 DEF ReadOptions
  <2>2. Handover' /\ UiSaw'
    BY <1>4 DEF ReadOptions
  <2>3. MembersCurrent'
    BY <1>4 DEF ReadOptions
  <2>4. LocalCurrent'
    BY <1>4 DEF ReadOptions
  <2>5. AnswerCurrent'
    BY <1>4 DEF ReadOptions
  <2> QED
    BY <2>1, <2>2, <2>3, <2>4, <2>5
<1>5. CASE ConvertFails
  <2>1. TypeOK'
    <3>1. cancel' \in BOOLEAN /\ event' \in BOOLEAN /\ clipboard' \in BOOLEAN
      BY <1>5 DEF ConvertFails
    <3>2. result' \in Results /\ local' \in Results
      BY <1>5 DEF ConvertFails
    <3> QED
      BY <1>5, <3>1, <3>2 DEF ConvertFails
  <2>2. Handover' /\ UiSaw'
    BY <1>5 DEF ConvertFails
  <2>3. MembersCurrent'
    BY <1>5 DEF ConvertFails
  <2>4. LocalCurrent'
    BY <1>5 DEF ConvertFails
  <2>5. AnswerCurrent'
    BY <1>5 DEF ConvertFails
  <2> QED
    BY <2>1, <2>2, <2>3, <2>4, <2>5
<1>6. CASE ConvertRows
  <2>1. TypeOK'
    <3>1. cancel' \in BOOLEAN /\ event' \in BOOLEAN /\ clipboard' \in BOOLEAN
      BY <1>6 DEF ConvertRows
    <3>2. result' \in Results /\ local' \in Results
      BY <1>6 DEF ConvertRows
    <3> QED
      BY <1>6, <3>1, <3>2 DEF ConvertRows
  <2>2. Handover' /\ UiSaw'
    BY <1>6 DEF ConvertRows
  <2>3. MembersCurrent'
    BY <1>6 DEF ConvertRows
  <2>4. LocalCurrent'
    BY <1>6 DEF ConvertRows
  <2>5. AnswerCurrent'
    BY <1>6 DEF ConvertRows
  <2> QED
    BY <2>1, <2>2, <2>3, <2>4, <2>5
<1>7. CASE PublishClipboard
  <2>1. TypeOK'
    <3>1. cancel' \in BOOLEAN /\ event' \in BOOLEAN /\ clipboard' \in BOOLEAN
      BY <1>7 DEF PublishClipboard
    <3>2. result' \in Results /\ local' \in Results
      <4>1. PICK copied \in BOOLEAN : local' = [local EXCEPT !.copied = copied]
        BY <1>7, Zenon DEF PublishClipboard
      <4>2. result' = result /\ result \in Results /\ local \in Results
        BY <1>7 DEF PublishClipboard
      <4>3. QED
        BY <4>1, <4>2 DEF Results
    <3> QED
      BY <1>7, <3>1, <3>2 DEF PublishClipboard
  <2>2. Handover' /\ UiSaw'
    BY <1>7 DEF PublishClipboard
  <2>3. MembersCurrent'
    BY <1>7 DEF PublishClipboard
  <2>4. LocalCurrent'
    BY <1>7 DEF PublishClipboard
  <2>5. AnswerCurrent'
    BY <1>7 DEF PublishClipboard
  <2> QED
    BY <2>1, <2>2, <2>3, <2>4, <2>5
<1>8. CASE WritePng
  BY <1>8 DEF WritePng
<1>9. CASE Done
  BY <1>9 DEF Done
<1>10. CASE StoreResult
  BY <1>10 DEF StoreResult
<1>11. CASE Complete
  BY <1>11 DEF Complete
<1> QED
  BY <1>1, <1>2, <1>3, <1>4, <1>5, <1>6, <1>7, <1>8, <1>9, <1>10, <1>11 DEF
     WorkerNext

\* The invariant holds before the first Start, and when nothing happens.
LEMMA InitIInv == Init => IInv
<1> SUFFICES ASSUME Init PROVE IInv
  OBVIOUS
<1> USE BoundsAssumption DEF Init
<1>1. TypeOK
  <2>1. NoResult \in Results
    BY DEF NoResult, Results
  <2>2. request \in [clipboard : BOOLEAN, after : 0 .. MaxFrames]
    OBVIOUS
  <2>3. /\ state \in States /\ raw \in 0 .. MaxFrames
        /\ frames \in 0 .. MaxFrames /\ sessions \in 0 .. MaxSessions
    BY DEF States
  <2>4. requests \in 0 .. MaxRequests /\ answers \in 0 .. 2
    OBVIOUS
  <2> QED
    BY <2>1, <2>2, <2>3, <2>4 DEF TypeOK
<1>2. Handover /\ UiSaw
  BY DEF Handover, UiSaw, Working
<1>3. MembersCurrent /\ LocalCurrent /\ AnswerCurrent
  BY DEF MembersCurrent, LocalCurrent, AnswerCurrent, Pending, Working
<1> QED
  BY <1>1, <1>2, <1>3 DEF IInv

LEMMA StutterIInv == IInv /\ UNCHANGED vars => IInv'
  BY DEF IInv, TypeOK, Handover, UiSaw, MembersCurrent, LocalCurrent, AnswerCurrent,
       Pending, Working, IsAnswer, vars, shared, ui, capture, worker, history

\* Every step of every thread keeps the invariant.
THEOREM Invariance == Spec => []IInv
<1>1. IInv /\ [Next]_vars => IInv'
  BY UiKeepsIInv, CaptureKeepsIInv, WorkerKeepsIInv, StutterIInv DEF Next
<1> QED
  BY <1>1, InitIInv, PTL DEF Spec

\* Every variable of the service keeps its type.
THEOREM TypeCorrect == Spec => []TypeOK
<1>1. IInv => TypeOK
  BY DEF IInv
<1> QED
  BY <1>1, Invariance, PTL

\* The state alone keeps every two threads from the plain members: the UI never
\* writes clipboard_, nor the capture thread raw_ and desc_, while the worker
\* may read them.
THEOREM NoDataRace == Spec => []MembersExclusive
<1>1. IInv => MembersExclusive
  BY DEF IInv, Handover, UiSaw, Working, MembersExclusive
<1> QED
  BY <1>1, Invariance, PTL

\* Whatever the UI takes is the answer to its latest request, and the only one.
THEOREM AnswerCorrect == Spec => []ResultAnswersRequest
<1>1. IInv => ResultAnswersRequest
  BY DEF IInv, AnswerCurrent, ResultAnswersRequest
<1> QED
  BY <1>1, Invariance, PTL

=============================================================================
