# TLA+ models of LowLatencyCaptureViewer

LowLatencyCaptureViewer (LLCV) shows the picture and plays the sound of a
capture device with as little delay as Windows allows, and can record both and
take screenshots. Its own logic is concurrent: driver callbacks, a capture
thread, audio render threads, an encoder worker, a storage thread and the UI
share objects through atomics, events and a few mutexes. This directory holds
TLA+ models of that logic, TLC configurations that check them on small
instances, and TLAPS proofs of the results that matter most.

`tlc -config RecordingSessions.cfg MCRecordingSession` checks a run;
`tlapm RecordingSessionProofs.tla` checks a module's proofs.

## 1. Inventory of the system

| Component (under `src/src`) | State | Operations | Hard part | Correct when |
|---|---|---|---|---|
| Recorder (`recording/Recorder.cpp`, `RecordingAdmission.h`, `RecordingSafetyPolicy.h`) | phase, stop, busy, session, result, failure, producer count, two packet rings, event | `Start`, `Stop`, `Configure`, `Shutdown`, `Push` (two pins), `Run` | five threads, mostly lock-free; stop at any step; restart while callbacks run | storage never recycled under a callback; nothing published is lost; the outcome is truthful and stable; every stop ends |
| Pause timeline (`RecordingPauseTimeline.h`, `Recorder.cpp`) | pause generation, offset, cut, ends of streams | `SetPaused`, tag on `Push`, merge, `Map` | packets published pauses after they were tagged; integer rounding | epochs do not overlap, sound and picture keep step, a pause never fails a recording |
| Storage queue (`RecordingStorage.cpp`) | bounded job queue, byte and operation counts, first error, coalescing bits, per-file position and length | `Write`, `Read`, `Seek`, `SetLength`, `Flush`, `Close`, requests, split | write-behind, failures at any job, two callers | order kept, success means durable, every file closed once, limits kept |
| Screenshot service (`screenshot/ScreenshotService.cpp`) | one atomic state over plain members, worker, event | `Request`, `Submit`, `TakeResult`, `ExpireRequest`, `Start`, `Stop`, `CancelPending` | three threads, no lock, restart between any two steps | no data race, right answer, once; never stuck |
| Latest frame mailbox (`capture/LatestVideoSample.cpp`) | one sample, sticky format failure | `Push`, `RejectFormat`, `TakeLatest`, refresh after an output reset | late rejection against a frame in flight | newest frame only, none after a rejection, owner woken |
| Buffer pools (`recording/RecordingBufferPool.h`, `video/MediaBufferPool.h`) | reference counts | `Acquire`, release on any thread | leases that outlive their use | no buffer leased twice |
| PCM pipeline (`audio/PcmPipeline.cpp`, `QueueDriftController.h`) | ring indices, drift estimate | push, convert, pop, clear, resample | overflow and wrap | oldest dropped, order kept |
| Outputs (`audio/WasapiOutput.cpp`, `AsioOutput.cpp`, `ExclusiveEventStream.h`) | device streams | open, render, reset | driver callbacks against reset | no callback after stop |
| Log queue (`audio/RealtimeLogQueue.h`) | two indices, dropped count | push, pop | lock-free | no message overwritten |
| Audio mixing, formats, capabilities (`audio/AudioMix.cpp`, ...) | none | conversions | numeric | unit-tested |
| Graph events and recovery (`capture/CaptureGraphEvents.h`, `AudioInputRecovery.h`, `audio/RecoveryPolicy.h`) | completion flags, attempts | wait, retry | order of completion and error | errors win, retries bounded |
| Initialization lease (`ui/InitializationLease.h`) | timed mutex | acquire, release | cancel against acquire | no driver after a cancelled or timed-out wait |
| DirectShow devices and graph, device control | COM objects | enumerate, connect | driver behaviour | outside the program |
| MP4 sink, container, splitting (`recording/FragmentedMp4Sink.cpp`, `RecordingTimeline.h`) | packet queues, current part | process, roll, finalize | partial failure of a roll | each packet in one file |
| Encoder set-up and probe (`recording/EncoderProbeProcess.h`, ...) | helper process | probe, choose | hang of a vendor encoder | bounded time |
| Recording UI and close protocol (`main.cpp`, `RecordingControls.cpp`) | pending close, prompts | begin, poll, drain | nested message loops | closes once the recording is saved |
| Presentation state machines (`video/OutputTransitionState.h`, ...) | flags | transitions | order of window events | unit-tested |
| Rendering, colour, upscaling, MJPEG | GPU objects | render | numeric | outside TLC's reach |
| Update check (`update/UpdateCheckTask.h`) | worker, result, stop | start, take, cancel | cancel against delay and notify | join returns, one result |
| Power requests (`power/PlaybackPowerEvents.h`) | revision and bit | notify, apply | coalesced suspend and resume | request renewed after sleep |
| Settings, diagnostics, windows, shortcuts | UI thread only | - | none concurrent | unit-tested |

How they interact: a driver callback first offers a frame to the mailbox, which
wakes the capture thread, then to `Recorder::Push`. The capture thread uploads a
frame to the renderer and passes it to `Service::Submit`. It configures the
recorder before the graph runs and calls `Shutdown` when it ends. The UI thread
starts, pauses and stops recordings, requests screenshots and polls their
results on a timer. The recorder's worker drives the encoder; the muxer writes
through the storage queue, whose own thread alone touches the files. Threads
share atomics, auto-reset events and the mutexes named above; nothing else.

`PROJECT.json` lists every component with its status, and every hazard of this
code with the properties that would catch it, or why none does.

## 2. What is modelled

A thread's program counter names its next access to shared state, and an action
is that one access (one atomic load, store or exchange, or one critical section
under a mutex) with everything local that follows from it. A plain access of a
member several threads use is a control point of its own, so that an overlap of
two such points is visible to an invariant.

Atomics are sequentially consistent in the models. The code's orders are
acquire/release or stronger where one thread relies on another's writes, and
the shipped build is x86-64, where the read-modify-writes of the gates and
counters are full barriers; the one store followed by a load of another
variable that matters (stop, then the producer count) is separated by one.

### RecordingSession - the recorder's life

One `Recorder` and five threads: two pins (`Push`), the worker (`Run`), the UI
(`Start`, `Stop`) and the capture thread as owner (`Configure`, `Shutdown`).

| Model | Code |
|---|---|
| `phase`, `stop`, `busy`, `session`, `result`, `failure`, `producers`, `wake` | the atomics and the event of `Recorder.h:45-80` |
| `wr`, `rd`, `alloc` | indices and existence of the rings and pools |
| `PushEnter` ... `PushLastEvent` | `Push`, one gate or index per action, with its `Guard` |
| `CallFail`, `FailResult` ... `StopEvent` | `Fail` and `Stop`, on any thread |
| worker actions | `Run`, from `PrepareQueues` to the outcome |
| `lifecycle` | the mutex of `Start`, `Configure`, `Shutdown` |

Packets are counted; an error code is the failure class it is reported as. The
outcome of every encoder, file and pool call is a nondeterministic choice of
success and failure.

`RecordingContract` is what the recorder promises the viewer and the graph, without
threads: recordings are called for, begin, run, are sealed, told and over, one at a
time and numbered; a packet is put in only while a recording runs, and only by a
delivery that arrived in that same recording; without an error a recording is sealed
with nothing left in it and told as saved, with a file that was validated.
`RecordingSession` implements it: `Stage` is where Run and Start are, `Held` the packets
between the indices of each ring at any time, whether or not anything is being recorded,
the number is the session counter and what was offered is the session a callback saw as
it came in. A store of a write index outside a running recording, or by a callback
of an earlier one, is therefore no step of the contract. What an error left in the rings
is discarded where the next recording makes its own.

### RecordingPause - what a paused recording contains

The two pins tag a packet with `pauseGeneration_` and publish it in two steps;
the worker looks at the rings (`Look`), may hold PCM (`Hold`) and takes, maps and
writes a packet (`Take`). `Map` of `RecordingPauseTimeline.h` is translated with
its integer divisions. `out` records what was written.

### RecordingStorage - the write-behind queue

The muxer, the worker's requests and final `Flush` and `Close`, and the storage
thread. A file's content is the sequence of the numbers of the writes that put
each byte there, so that lost, repeated, misplaced or reordered bytes are all
visible. Any physical operation may fail, and a failing write may have written
any shorter prefix. A split seals a part and goes on with its sibling on the same
queue.

### Screenshot - the screenshot service

The UI, the capture thread and the worker around the atomic `state_`. A frame in
`raw_` is its number; a result is the option it was made with, whether the
clipboard was set, the frame and the file's fate. `request`, `answers` and
`taken` are observations. The three-second timer is a free choice of its moment.

### CaptureLoop - the capture thread and what it waits for

`UnifiedCaptureRenderLoop`, and `AudioOnlyCaptureLoop` as one of four modes: its
setup in stages, the loop, and its teardown. Around it are the driver's streaming
threads and the mailbox `LatestVideoSample`, DirectShow's event queue as
`CaptureGraphEvents` drains it, the swap chain's waitable object with the one
credit of `presentation::Readiness`, and the power broadcasts of the UI. A sample
is present or absent. A wait is one action per object that can end it, so that the
order in which the loop sees two ready objects is open, and time-outs are free
choices where the code has one.

### FrameQueue, PcmRing - the sound between capture and output

`PcmRing` has `PrepareWrite`, the two-span copies, `Pop` and `Clear` with their
indices; every operation holds the mutex and is one step. `FrameQueue` is what it
promises, a queue that keeps the newest frames, and `Held` is the refinement
mapping (`ImplementsQueue`).

### MessageQueue, AudioOutput - the audio output thread

`AudioRenderThread` from the lease of the drivers to its end: the ASIO output with
its callback, its reset requests and recovery, the fall back to WASAPI, the
sessions of `wasapi::Run`, the default endpoint and its notifications, and
`RecoveryPolicy`. The lease is `InitializationLease`'s constructor, test by test, against
the settings dialog's scan of exclusive endpoints and the shutdown; the output then asks
whether it owns the lock, and the lock's destructor gives it back. `cancelled` is a history variable: the
shutdown came while the output still waited. The owner and the ASIO callback both write the lock-free
`RealtimeLogQueue`, one atomic access per step, while the UI reads it;
`MessageQueue` is what the queue promises (`ImplementsMessageQueue`): messages come out
once, in order and undamaged, and one is refused only when the queue is full. That a
refused message is then counted is one assignment of `Push`, which the refinement takes
over and does not test. A failure of a session is "invalidated", "other" or, where Run
ends without a failed HRESULT (no COM, an inexact exclusive format), "refused", which is
never retried. External: a driver's `stop` returns only after the callback it is in, as
ASIO says; the default endpoint changes only while WASAPI runs, and a scan begins only
while there is an output. The count of lost messages is reduced to whether any were lost.

### MuxSplit - the archive sink

`State` of `FragmentedMp4Sink.cpp`: `Process`, the packets held until their order
is known, `DrainSegments`, `RollSegment`, `Finalize`, `Shutdown`. All of it is under
one mutex, but each call into libavformat or of a part's creation may fail, so
the loops are taken one write at a time. `parts` is what the files contain. The
encoders are external: decode times do not decrease and do not exceed
presentation times, and both streams start at 0 (`RecordingTimeline`) with a key
picture that is shown first. When a limit in bytes is due is a free choice.

### ViewerClose - how the viewer ends

The UI thread is a stack of frames, for the message loop, `PollRecordingClose`, a
message box and the drain each pump messages and may run other handlers on top.
Around it are the recorder (busy or not), the capture thread from the end of its
loop, and `UpdateCheckTask` with its mutex and condition variable. Two code facts
came up that no property states:

- "No" to the close prompt clears `g_restartToSettings` (main.cpp:9708) even when
  the capture has ended meanwhile and the viewer closes anyway;
- a recording whose saving fails while the "taking longer" box is open is
  closed without the failure report, because the second read of `Busy` in
  `PollRecordingClose` goes straight to its return (`Recheck`).

### Not modelled

- `WAIT_FAILED` of an event wait: the handle is valid for the object's life.
- `Recorder::Stop` inside `Start`: both are called on the UI thread only.
- The leases of the buffer pools: `PushRefused` stands for an exhausted pool. A
  slot is taken by one compare-exchange; how long an encoder holds it is Media
  Foundation's matter, and a model of that would only check itself.
- The asynchronous Begin/End calls of the byte stream: they run the synchronous
  operation; and `bad_alloc` in the queue, which leaves everything as it was.
- A coalesced flush that is already executing does not cover writes after it;
  the next one, a second later, does. Only the final flush promises more.
- PNG encoding row by row: a cancellation is seen once in `WritePng`, and
  whatever its row the partial file is deleted and the destination untouched.
- Media types, codec headers and libavformat's buffering in the sink; H.264
  through Windows' own sink; `ValidateCompletedRecording`.
- `SincDriftResampler`, `QueueDriftController`, mixing, colour, upscaling and
  decoding: floating-point and GPU code without a protocol.
- The audio input watchdog, which is compiled only for diagnosis.
- DirectShow enumeration and formats, device control, encoder probing: what they
  do is in drivers; the models leave their outcomes open.
- Settings, dialogs, overlays, shortcuts, diagnostics: one thread, no protocol.
  They are two thirds of the source, and why the models name a small share of
  its lines.

## 3. The runs

| Run | Bounds | Shows |
|---|---|---|
| `RecordingSessions.cfg` | 2 recordings, 1 owner call, rings of 1, 2 audio packets and 1 picture, then 1 of each | `NoUseAfterRecycle`, `OutcomeReported`, `NoMissedWakeup`, `SlotsExclusive`, `NothingLost`, `ImplementsContract` |
| `RecordingShutdown.cfg` | 1 recording, 2 owner calls | `ConfigurationStable`, `OutcomeStable` |
| `RecordingStops.cfg` | 1 recording, fairness | `StopCompletes` |
| `RecordingPause.cfg` | 1 pause and resume, 2 packets per pin, frames of 2.5 ticks | `EpochsDoNotOverlap`, `EpochsInStep`, `AudioDisjoint`, `StopEmptiesRings` |
| `RecordingStorage.cfg` | 2 parts, 2 operations, 2 bytes, 4 jobs, 2 requests | order, durability, closing, limits, coalescing, `StorageEnds` |
| `Screenshot.cfg` | 3 requests, 4 frames, 2 sessions | `MembersExclusive`, `ResultAnswersRequest`, `ServiceReopens`, `StopReturns` |
| `CaptureLoop.cfg` | 4 modes, 2 streams, 4 scenarios, batches of 1 event, 3 power revisions | `NoStaleFrame`, `NoStrandedFrame`, `CompletionHidesNoError`, `PowerFollowsState`, `PresentGranted`, `LoopEnds` |
| `PcmRing.cfg` | a ring of 3, packets of 1 to 5 frames, 10 frames | `ImplementsQueue` |
| `AudioOutput.cfg` | 3 modes, 2 attempts, a log of 1 message, 1 endpoint change, 1 healthy session | `DriversLeased`, `ImplementsMessageQueue`, `RetriesEnd`, `FollowsDefault` |
| `MuxSplit.cfg` | 5 pictures, 3 audio packets, reorder of 0 or 2, parts of 2 ticks, queues of 3 packets | `SavedInOrder`, `PartsPlayable`, `EndsComplete` |
| `MuxHeader.cfg` | the same, split by time | a violation of `HeaderComesFirst`: see below |
| `ViewerClose.cfg` | 2 closes, 1 recording, 1 session end, exclusive or shared output | `SavedBeforeClose`, `CancelWakes`, `ViewerEnds` |

`HeaderComesFirst` states the comment of FragmentedMp4Sink.cpp:531, "A failed header
may leave muxer-private initialization partially done. Never retry that
transaction." The run finds a `Finalize` whose last packets start a new part: the
part cannot be initialized or its header fails, and `Finalize`, which looked at
`header` only at its beginning, still drains into that muxer and writes its
trailer. The other two properties of the sink hold all the same where they
promise anything.

Why these bounds are enough to be interesting. The race the session counter is
for needs a callback of one recording to meet the next: two recordings and one
packet. A ring of one slot wraps at every packet; batches of several packets and
larger rings are left to the proof of `SlotsExclusive`. A packet can be
published one pause late with one pause and one resume; a frame of 2.5 ticks
makes every second PCM boundary fall between ticks, as 48 kHz in 100 ns ticks
does. Two operations and two bytes fill the queue with either limit first, and two
parts are enough for a split to fail after its roll returned. Three requests let
one expire, one be answered and one be dropped by a restart, and four frames
let one be refused. A graph batch of one event puts an error behind the batch
that holds the completion, as the 64th event does in the code; each scenario of the
capture loop gives its threads the events that meet at one of its waits. A ring of
three frames meets packets shorter, as long and longer than itself at every index.
A log of one message is full, empty and wrapped at each step. Five pictures with
reordering make two clean boundaries with held pictures of either side of them.
A queue of three packets fills: with `kMaxPendingPackets` sounds waiting for one
picture the sink stops with an error, and its last part may then be sealed
without a picture, which `PartsPlayable` excepts. It also excepts sound with a gap
longer than a whole part: a part cut by time inside such a gap has no sound of its own.
Two closes let a second one arrive in each box of the first.

Each property has a mutant in `PROJECT.json`: a plausible bug ("Wrong variant" in
the modules, used by nothing else) under which TLC finds the property violated.

Deadlock checking is off where the bounds let every thread come to rest (the
pause, storage and screenshot runs), and where the modelled thread ends (the
capture loop, the audio output, the sink after `Finalize`, the viewer). The type
invariants of the modules with proofs are proved instead of run.

### Fairness

- `StopCompletes`: weak fairness of each started thread's own step. The operating
  system schedules the threads; encoder and file calls return. Nothing is
  assumed of the user, the capture device or the owner.
- `StopEmptiesRings`: a callback that tagged a packet publishes it, and the
  worker keeps running.
- `StorageEnds`: weak fairness of the three threads, and strong fairness of
  the step that begins the final flush, because the muxer's calls before
  `Finalize` returns are finite.
- `ServiceReopens`, `StopReturns`: each thread goes on inside a call; the UI's
  timer ticks while the viewer is open; the capture thread stops the service
  once the viewer closes. A frame that is refused again and again hides a request
  from the timer only while it is being looked at; the model's bound on frames
  stands for that.

- `LoopEnds`: the capture thread runs, and a callback that was entered returns.
  Nothing is assumed of the driver, of DXGI or of the UI.
- `RetriesEnd`, `FollowsDefault`: the output's thread, its driver's callback, a
  notification under way and a write to the log under way go on.
- `ViewerEnds`: every thread goes on; capture ends once `g_running` is cleared; the
  recorder ends once it is stopped (`StopCompletes`); the user answers a box and
  `PeekMessage` runs out of messages at last, both strong, because timers come in
  between again and again.

## 4. What is proved

Every theorem holds for every value of the constants under its module's
assumptions, which only say that the bounds are natural numbers (rings and
batches not empty) and that the names of error classes differ from "OK" and
"None". Each bound may be arbitrarily large. TLC checked every invariant below
on the instances above before it was proved.

| Module | Theorems of properties that runs check | Others |
|---|---|---|
| `RecordingSessionProofs` | `RecycleSafe`, `ConfigurationStableHolds`, `SlotsExclusiveHolds`, `NoMissedWakeupHolds`, `NothingLostHolds`, `OutcomeReportedHolds`, `OutcomeStableHolds`, `ImplementsContractHolds` | `Invariance`, `TypeCorrect`, `AllInvariant` |
| `ScreenshotProofs` | `NoDataRace`, `AnswerCorrect` | `Invariance`, `TypeCorrect` |
| `PlaybackProofs` (ring and output) | `RingRefinement`, `Refinement`, `DriversLeasedHolds` | `RingTypeCorrect`, `EveryFrameAccounted`, `Invariance` |
| `ViewerCloseProofs` | `SavedBeforeCloseHolds`, `CancelWakesHolds` | `Inductive` |
| `CaptureLoopProofs` | `NoStaleFrameHolds`, `NoStrandedFrameHolds`, `CompletionHidesNoErrorHolds`, `PowerFollowsStateHolds`, `PresentGrantedHolds` | `Invariance`, `TypeCorrect` |
| `RecordingPauseProofs` | `EpochsDoNotOverlapHolds`, `EpochsInStepHolds`, `AudioDisjointHolds` | `PauseInvariance`, `PauseNeverFails` |
| `RecordingStorageProofs` | `BytesInOrderHolds`, `SuccessIsDurableHolds`, `ClosedOnceAndLastHolds`, `WithinLimitsHolds`, `RequestsServedHolds` | `StorageInvariance` |
| `MuxSplitProofs` | `SavedInOrderHolds`, `EndsCompleteHolds`, `PartsPlayableHolds` | `MuxInvariance` |

**RecycleSafe.** `NoUseAfterRecycle` speaks of callbacks only and is not
inductive: one must know why the worker cannot get past its drain. `IInv` adds
`Locations` (each thread is at its own labels and returns to its own labels),
`ProducersCounted` (`producers_` is the number of callbacks inside),
`AdmissionServed` (admission is open only while the worker still has its drain
before it), `CommittedServed` (a callback that saw admission open, or owns
storage, has the worker still serving: it cannot have read `producers_ = 0` after
that callback was counted), `WorkerBusy` (a second `Start` waits for the worker)
and `OwnsCurrent` (the session seen is the current one). The proof has one case
per action, one lemma per thread.

**The recorder's other safety properties** each rest on `IInv` and an invariant
of their own, and together on `AllInv`:

- `MutexHeld` (who holds the lifecycle mutex, and that no worker exists where
  members are replaced) gives `ConfigurationStable`;
- `RingsBounded` (a reserved batch still fits when it is published, because only
  the worker moves the read index) gives `SlotsExclusive`, with `Apart`: indices
  less than a ring apart have different remainders;
- `Wakeful` says what the worker already knows at each test of
  `ReadyToFinalizeRecording`: a ring it has read empty and that has filled since
  comes with an event set or about to be. With it `NoMissedWakeup` is inductive;
- `Settled` says what the same tests leave behind when the loop ends without an
  error (stopped, admission closed, nobody committed to publish, rings empty):
  it implies `NothingLost`;
- `ErrorClassed`, `Validated` and `PhaseTold` relate the first error, its class, the
  written streams and the phase. Together they give `OutcomeReported`, and with
  `NobodyFails` (between recordings no thread is inside `Fail`) `OutcomeStable`;
- `Fresh` (a recording starts without rings, error or validated file) and `Prepared`
  (its queues are there before anything can fail and until they are freed, and a
  callback outside Push belongs to no recording) are what the refinement needs besides.

**ImplementsContract** (`RecordingSession` implements `RecordingContract`). Each
thread's steps map to a few of the contract's: a callback's to `Offer` where it reads the
session, `Put`, which is that one store of the write index, and `Withdraw`; `Fail` on any thread to the contract's, because
`FailsUnderway` says that nobody is inside it between recordings; the worker's to `Run`, `Take`,
`Seal`, `Validate`, `Tell` and `Rest`; `Start`'s to `Call`, `Begin` and `Refuse`; the
owner's to none. `Seal` is where `Settled` is needed, `Tell` where `Validated` is.
`Fail` and `Stop` leave the worker at the statement they return to (`RunAtKept`).
`Put` needs three things of a store that a callback makes long after its gates: the
recording still runs (`CommittedServed`), it is the one the callback arrived in
(`OwnsCurrent`), and the batch still fits (`RingsBounded`). What an
earlier recording's error left in the rings is gone where `PrepareQueues` makes new ones,
the contract's `Run`, with `Prepared`. TLC checks the refinement over two recordings.

**NoDataRace, AnswerCorrect.** `IInv` of `Screenshot` says what `state_` implies
of the other threads: `Handover` (Copying means the capture thread copies; a
working worker means Processing, or a capture thread inside `Stop`), `UiSaw` (a UI
that saw Idle or Complete may since find the service stopped or restarted, but
the worker is not working), and, for the answer, what each member holds at each
step (`MembersCurrent`, `LocalCurrent`, `AnswerCurrent`).

**RingRefinement** (`PcmRing` implements `FrameQueue`). Under the mapping `Held`, the
frames from the read index on, `Push` of any length is the queue's append that
forgets the oldest, `Pop` its removal, and `Clear` its reset. The work is in the
wrapped indices: a slot written by one of the two spans is the slot the sequence
expects at that place.

**SavedBeforeClose, CancelWakes** (`ViewerClose`). `Shape` says which stacks of
handlers occur: every frame but the top one pumps messages, and the message loop
or the drain stands at the bottom, however deep boxes nest. `Tickets` types the
message queue. `Saved` extends the property to the drain's report and to every
step after the drain; `Awakened` says that the worker is never between its test
of `stop_` and its wait once `stop_` is set, because both hold the mutex.

**The capture loop's safety properties** (`CaptureLoop`). One invariant carries all
five: `Known` (a frame in the mailbox has somebody who tells the loop), `Errors`
(an error once queued is seen or still in the queue while the loop has no
outcome), `News` (a power revision not yet observed has its event set, or about
to be) and `Credit` (the readiness kept across iterations stands for a grant of
the present chain). `Known` and `Errors` are what the loop may rely on when it
tests without waiting: it reads an event it has just reset, or a queue of which
it has only drained one batch.

**Refinement** (`AudioOutput` implements `MessageQueue`), **DriversLeased**. The ring
has one writer by design, and the program has two: the output's own thread and
the ASIO driver's callback. `OneWriter` shows that they never meet, because the
driver only calls back between its start and `Join`, where the owner logs
nothing. Then the slot reserved in `Push` is still the free one when it is
published (`Writing`), and under the mapping `Pending`, the messages from the read
index on, publishing is the queue's put, a full ring is its loss, and popping,
in two steps, is its copy and its take. `Leasing` follows the gate from the
constructor's tests to the return: a wait that was cancelled or timed out ends without
the gate, also where the lock came after the shutdown, and an output without the
gate enters no driver.

**The pause timeline** (`RecordingPause`). What `Map` must get right depends on what
the timeline keeps of packets long written, so `IInv` relates the two. `Arrivals`:
the packets of a pin, in its ring or tagged and not yet published, come in the
order of their times. `PicturesAhead`: the next picture, moved by the present
offset, begins where the last one ended or later. `Anchored`: whatever was
written lies behind the ends the timeline keeps, what is of the present epoch was
moved by the present offset, and what is of an earlier one ends before `Base`, the
point of the output where the present epoch's first picture stands. Integer
rounding enters through two lemmas: `Ticks` is monotonic, and cutting an
integral number of frames off a packet leaves no less than was asked for.
`PauseNeverFails` is the safety half of `StopEmptiesRings`: no interleaving of
pause, resume and deliveries makes `Map` return one of its errors.

**The storage queue** (`RecordingStorage`). `Ahead` is the sequence of jobs whose
effect is still to come, and `Executed` the number of the last one behind. `Image`
says what a sequence of jobs makes of a file; the two lemmas that matter are that
a job put last acts last (`ImageOfAppend`: writing through the stream keeps
`BytesInOrder`) and that a job taken from the front acts first (`ImageOfTail`:
carrying one out keeps it). `Image` is a recursive function, so both rest on the
existence and uniqueness of its `Chain` of intermediate contents, by induction on
the length. The rest of `IInv` says in which order things stand in the queue:
`Seals` (parts are sealed one after the other, so the numbers of their Close jobs
increase), `Closing` (before its Close nothing was closed, after it nothing of
the part is left but free-space queries), `Flushing` (once the final Flush is put
nothing that changes the current part follows it, so that a Flush carried out
without an error finds the file equal to what was written). `Requests`
strengthens `RequestsServed`: the coalescing bit is cleared before the job is
reported done, and the job is then still in hand. A failure only ever weakens
what is promised (`QuietStorage`), since the first error stays. `Carries` is the
contract of one physical call that the cases of `Execute` are reduced to.

**The archive sink** (`MuxSplit`). A packet that `Process` took is in the files,
refused by libavformat, kept, or lost. Kept packets are queued, held for their
duration, handed on, or waiting for the header. `Base` says which of the queues may
hold anything at each place of the call, and that each holds packets of its
stream in order. `Line` is about the sets: within a stream the files come before
what is queued, that before the picture held, that before the rest of the call.
A packet that is lost comes after everything in the files; and after everything
kept as well, unless nothing will be written any more (`Dead`: the storage
failed, the file has its trailer, the sink is shut down); and something is only
lost once nothing more will be taken (`Closed`). That is what makes the property
inductive: a gap in the files would be a packet written after one that was lost.
Each step moves one packet from one set to the next (`MoveWrite`, `MoveHold`, ...) or
loses the last of those kept (`MoveLose`).

`EndsComplete` needs, beyond that order, what each error may cost (`Ending`). The
steps of a drain, a roll or a write are first sorted by what they do to the control of the
call (`Underway`: return, go on, or hold a picture) and to the files (`StepFiles`:
a packet, a trailer, a new file, or nothing). `Causes` then says what an error
tells of the sink, for instance that a part that could not be made leaves the current one
open, so that `Finalize` can still end it; `Emptied` that nothing is queued
when `Finalize` comes to the last trailer without an error. `Trailing` and
`Completed` are about the trailers: each ends its file, and a file is only replaced
with its trailer complete. `NoneLost` is the heart: a step loses nothing, or leaves an
error that spoils the recording, or nothing goes on after it; and "create" alone
may lose the newest picture. For that, `Brief` says that while `Process` makes a
part nothing waits but the picture it was called with. This is so although the
call that completes the header hands on several samples: before it one
stream was missing, sound that met no picture decides nothing, and a part is not split
before its sound is there. `Whole` puts these together at the last trailer.

`PartsPlayable` speaks of times, of which the order of the packets says nothing: a
picture may be shown after one that is decoded later. Its invariant is `Playing`.
`Timeline` is what the encoders promise: a key picture is shown after all that were decoded
before it, sound is shown as it is decoded, both start at 0. `Division` says that
earlier parts end before the current one begins, and that what is kept belongs to
it or to a later one. `Cut` is about the steps between the decision to split and the new
part: nothing kept is shown before the key picture of the cut, and sound after it is already
queued. `SoundBound` gives the order between the streams that makes this so: the sound in
the current part is shown before a picture that no picture kept is decoded before.
`Begins` and `Furnished` then say what a part holds: first the picture it was cut at;
and sound and picture, or else they are still kept. The last needs that no gap in the
sound is longer than a part: a cut by time comes at least `SplitAfter` after the last one, so
the sound that follows the last cut comes before the next. `Working` says which
failures leave the call going. As before, the steps are sorted by what
they do (a delivery, a part opened, packets moved within the current part), and
each part of the invariant is proved for each sort.

Induction. The library's induction theorems take an operator as parameter, which
the provers cannot instantiate. `RecordingStorageProofs` gets induction over the
naturals from a theorem without one: the finite sets of naturals are well founded
under strict inclusion (`FS_StrictSubsetOrderingWellFounded`), so a set of
naturals that is not empty has a least member (`LeastNat`), and a set that holds 0
and the successors of its members is all of them (`Induct`).

## 5. What is only model-checked

- Liveness: fairness and ENABLED are beyond the provers.

Every safety invariant and every action property that a passing run checks is proved.

## 6. What is left

Every module of the first plan exists, and the recorder implements its contract. Worth
doing next: `ViewerClose` built on `RecordingContract`, with the stop as a part of it, in
place of its recorder that is only busy or not; and the sink composed
with the storage queue it writes through, which needs a
coarser model of both.
