--------------------------- MODULE RecordingStorage ---------------------------
(***************************************************************************)
(* The write-behind storage queue of a recording (RecordingStorage.cpp).   *)
(*                                                                         *)
(*   muxer    the sink writer's thread: positioned writes, reads, resizes  *)
(*            and the roll from one split file to the next;                *)
(*   worker   the recorder's worker: result, coalesced flush and free      *)
(*            space while recording, then the final Flush and Close        *)
(*            (Recorder.cpp Run);                                          *)
(*   storage  Queue::Run, the only thread that touches the files.          *)
(*                                                                         *)
(* A Stream is wrapped around each file; the streams of one recording are  *)
(* siblings and share the queue.  A file's contents are a sequence of the  *)
(* numbers of the writes that put the bytes there (0 where nothing did).   *)
(***************************************************************************)
EXTENDS Integers, Sequences, FiniteSets

CONSTANTS
  Files,          \* number of split parts
  Errors,         \* physical failures
  Sizes,          \* bytes one Write may carry
  OperationLimit, \* StorageLimits
  ByteLimit,
  MaxPosition,    \* bound: a file's length
  MaxJobs,        \* bound: jobs of the muxer and the worker's loop
  MaxRequests     \* bound: flush and space requests of the worker's loop

Parts == 1 .. Files

ASSUME LimitsAssumption == OperationLimit \in Nat \ {0} /\ ByteLimit \in Nat \ {0}
ASSUME FilesAssumption  == Files \in Nat \ {0} /\ Sizes \subseteq Nat \ {0}
ASSUME ErrorsAssumption == Errors # {} /\ {"ok", "memory", "shutdown"} \cap Errors = {}

VARIABLES
  \* Queue
  jobs, bytes, operations, issued, done, spacePending, error, stopping,
  job,         \* <<j>>: the job the storage thread has popped
  storagePc,
  \* Stream, one per part
  position, length, closed, sealed, flushPending,
  \* the callers
  current,     \* the part State::bytes (or Run's bytes) refers to
  muxerPc, muxerJob,
  workerPc, workerJob, flushed, finished, requests,
  \* the files themselves, and observations of them
  disk,        \* contents
  durable,     \* contents at the last successful physical flush
  closes,      \* physical closes
  logical      \* contents the accepted writes and resizes describe

queue   == <<jobs, bytes, operations, issued, done>>
storage == <<error, stopping, job, storagePc>>
streams == <<position, length, closed, sealed, flushPending>>
muxer   == <<current, muxerPc, muxerJob>>
worker  == <<workerPc, workerJob, flushed, finished, requests>>
files   == <<disk, durable, closes>>
vars    == <<queue, spacePending, storage, streams, muxer, worker, files, logical>>

Init ==
  /\ jobs = <<>> /\ bytes = 0 /\ operations = 0 /\ issued = 0 /\ done = 0
  /\ spacePending = FALSE /\ stopping = FALSE
  /\ job = <<>> /\ storagePc = "start" /\ error = "ok"
  /\ position = [f \in Parts |-> 0] /\ length = [f \in Parts |-> 0]
  /\ closed = [f \in Parts |-> FALSE] /\ sealed = [f \in Parts |-> 0]
  /\ flushPending = [f \in Parts |-> FALSE]
  /\ current = 1 /\ muxerPc = "idle" /\ muxerJob = 0
  /\ workerPc = "loop" /\ workerJob = 0 /\ requests = 0
  /\ flushed = "none" /\ finished = "none"
  /\ disk = [f \in Parts |-> <<>>] /\ durable = [f \in Parts |-> <<>>]
  /\ logical = [f \in Parts |-> <<>>] /\ closes = [f \in Parts |-> 0]

\* c truncated or extended with zeros to n bytes.
Resized(c, n) == [i \in 1 .. n |-> IF i <= Len(c) THEN c[i] ELSE 0]

\* c after n bytes of write w at offset p.
Patched(c, p, n, w) ==
  [i \in 1 .. (IF p + n > Len(c) THEN p + n ELSE Len(c)) |->
     IF i > p /\ i <= p + n THEN w ELSE IF i <= Len(c) THEN c[i] ELSE 0]

Effect(c, j) ==
  CASE j.kind = "Write"  -> Patched(c, j.position, j.size, j.sequence)
    [] j.kind = "Resize" -> Resized(c, j.position)
    [] OTHER -> c

-----------------------------------------------------------------------------
(* Queue, called under its mutex                                           *)

Full(n) == operations >= OperationLimit \/ n > ByteLimit - bytes

\* PutLocked admits anything but Read, Flush and Close only while no error is
\* known and both limits leave room.
Admits(n) == error = "ok" /\ ~Full(n)

NewJob(kind, f, p, n) ==
  [kind |-> kind, file |-> f, position |-> p, size |-> n,
   sequence |-> issued + 1, coalesced |-> FALSE]

Put(j) ==
  /\ jobs' = Append(jobs, j) /\ issued' = issued + 1
  /\ operations' = operations + 1 /\ bytes' = bytes + j.size
  /\ UNCHANGED done

-----------------------------------------------------------------------------
(* The storage thread                                                      *)

StorageFrame == UNCHANGED <<streams, muxer, worker, logical>>

\* error_.compare_exchange_strong(ok,hr): the first failure is kept.
Fail(hr) == error' = IF error = "ok" THEN hr ELSE error

\* CoInitializeEx may fail: the thread then serves its queue with that error.
StorageStart ==
  /\ storagePc = "start" /\ storagePc' = "wait"
  /\ \E hr \in {"ok"} \cup Errors : Fail(hr)
  /\ UNCHANGED <<queue, spacePending, stopping, job, disk, durable, closes>> /\ StorageFrame

Pop ==
  /\ storagePc = "wait" /\ jobs # <<>>
  /\ job' = <<Head(jobs)>> /\ jobs' = Tail(jobs) /\ storagePc' = "execute"
  /\ UNCHANGED <<bytes, operations, issued, done, spacePending, error, stopping, files>>
  /\ StorageFrame

\* Wrong variant: the file is not positioned before the write.
ExecuteAppend(j, hr) ==
  /\ \E n \in IF hr = "ok" THEN {j.size} ELSE 0 .. j.size - 1 :
       disk' = IF n = 0 THEN disk
               ELSE [disk EXCEPT ![j.file] = Patched(@, Len(@), n, j.sequence)]
  /\ UNCHANGED <<durable, closes>>

\* A write that fails may have written any shorter prefix.
ExecuteWrite(j, hr) ==
  /\ \E n \in IF hr = "ok" THEN {j.size} ELSE 0 .. j.size - 1 :
       disk' = IF n = 0 THEN disk
               ELSE [disk EXCEPT ![j.file] = Patched(@, j.position, n, j.sequence)]
  /\ UNCHANGED <<durable, closes>>

ExecuteResize(j, hr) ==
  /\ disk' = IF hr = "ok" THEN [disk EXCEPT ![j.file] = Resized(@, j.position)] ELSE disk
  /\ UNCHANGED <<durable, closes>>

ExecuteFlush(j, hr) ==
  /\ durable' = IF hr = "ok" THEN [durable EXCEPT ![j.file] = disk[j.file]] ELSE durable
  /\ UNCHANGED <<disk, closes>>

\* Wrong variant: nothing more is done to a file once there was an error.
RunsUntilError(j) == error = "ok" \/ j.kind = "Space"

\* Flush and Close run even after an error, and a query of the free space never
\* fails; Write, Resize and Read are skipped after an error.
Runs(j) == error = "ok" \/ j.kind \in {"Flush", "Close", "Space"}

\* Close flushes, and closes whatever the flush returned.
ExecuteClose(j, flush) ==
  /\ durable' = IF flush = "ok" THEN [durable EXCEPT ![j.file] = disk[j.file]] ELSE durable
  /\ closes' = [closes EXCEPT ![j.file] = @ + 1]
  /\ UNCHANGED disk

\* Wrong variant: the result of Close replaces that of the flush before it.
CloseOnlyResult(flush, close) == close

CloseResult(flush, close) == IF flush = "ok" THEN close ELSE flush

Execute ==
  /\ storagePc = "execute" /\ storagePc' = "executed"
  /\ LET j == job[1] IN
     IF ~Runs(j) THEN UNCHANGED <<error, files>>
     ELSE \E hr, close \in {"ok"} \cup Errors :
            CASE j.kind = "Write"  -> Fail(hr) /\ ExecuteWrite(j, hr)
              [] j.kind = "Resize" -> Fail(hr) /\ ExecuteResize(j, hr)
              [] j.kind = "Flush"  -> Fail(hr) /\ ExecuteFlush(j, hr)
              [] j.kind = "Close"  -> Fail(CloseResult(hr, close)) /\ ExecuteClose(j, hr)
              [] j.kind = "Read"   -> Fail(hr) /\ UNCHANGED files
              [] j.kind = "Space"  -> UNCHANGED <<error, files>>
  /\ UNCHANGED <<queue, spacePending, stopping, job>> /\ StorageFrame

\* The coalescing bit is cleared before the job is reported done.
Settle ==
  /\ storagePc = "executed" /\ storagePc' = "settled"
  /\ flushPending' = IF job[1].coalesced
                     THEN [flushPending EXCEPT ![job[1].file] = FALSE] ELSE flushPending
  /\ UNCHANGED <<position, length, closed, sealed, muxer, worker, logical,
                 queue, spacePending, error, stopping, job, files>>

\* Wrong variant: only a job that succeeded is reported done.
DoneIfOk(j) == IF error = "ok" THEN j.sequence ELSE done

Done(j) == j.sequence

Complete ==
  /\ storagePc = "settled" /\ storagePc' = "wait"
  /\ bytes' = bytes - job[1].size /\ operations' = operations - 1
  /\ done' = Done(job[1]) /\ job' = <<>>
  /\ spacePending' = (spacePending /\ job[1].kind # "Space")
  /\ UNCHANGED <<jobs, issued, error, stopping, files>> /\ StorageFrame

\* ~Queue: the thread leaves when it is told to and nothing is queued.
StorageExit ==
  /\ storagePc = "wait" /\ jobs = <<>> /\ stopping
  /\ storagePc' = "joined"
  /\ UNCHANGED <<queue, spacePending, error, stopping, job, files>> /\ StorageFrame

StorageStep == StorageStart \/ Pop \/ Execute \/ Settle \/ Complete \/ StorageExit

-----------------------------------------------------------------------------
(* The muxer: a stream operation holds the stream's mutex throughout.      *)

MuxerFrame == UNCHANGED <<spacePending, storage, files, worker>>

Muxing == muxerPc = "idle" /\ workerPc \in {"loop", "finalizing"} /\ issued < MaxJobs
Open(f) == ~closed[f]

\* Write asks CanAccept first, then copies the data and puts the job, which
\* checks again: between the two the worker may have queued a space query.
CanAccept ==
  /\ Muxing /\ Open(current)
  /\ \E n \in Sizes :
       /\ position[current] + n <= MaxPosition /\ Admits(n)
       /\ muxerPc' = "write" /\ muxerJob' = n
  /\ UNCHANGED <<current, queue, streams, logical>> /\ MuxerFrame

\* Wrong variant: CanAccept's answer is relied on.
WriteUnchecked ==
  /\ muxerPc = "write" /\ muxerPc' = "idle" /\ muxerJob' = 0
  /\ LET n == muxerJob
         p == position[current]
         j == NewJob("Write", current, p, n)
     IN /\ Put(j)
        /\ position' = [position EXCEPT ![current] = p + n]
        /\ length' = [length EXCEPT ![current] = IF @ > p + n THEN @ ELSE p + n]
        /\ logical' = [logical EXCEPT ![current] = Effect(@, j)]
  /\ UNCHANGED <<current, closed, sealed, flushPending>> /\ MuxerFrame

Write ==
  /\ muxerPc = "write" /\ muxerPc' = "idle" /\ muxerJob' = 0
  /\ LET n == muxerJob
         p == position[current]
         j == NewJob("Write", current, p, n)
     IN IF ~Admits(n) THEN UNCHANGED <<queue, position, length, logical>>
        ELSE /\ Put(j)
             /\ position' = [position EXCEPT ![current] = p + n]
             /\ length' = [length EXCEPT ![current] = IF @ > p + n THEN @ ELSE p + n]
             /\ logical' = [logical EXCEPT ![current] = Effect(@, j)]
  /\ UNCHANGED <<current, closed, sealed, flushPending>> /\ MuxerFrame

Seek ==
  /\ Muxing /\ Open(current) /\ error = "ok"
  /\ \E p \in 0 .. length[current] \ {position[current]} :
       position' = [position EXCEPT ![current] = p]
  /\ UNCHANGED <<muxer, queue, length, closed, sealed, flushPending, logical>>
  /\ MuxerFrame

SetLength ==
  /\ Muxing /\ Open(current) /\ Admits(0)
  /\ \E n \in 0 .. MaxPosition :
       LET j == NewJob("Resize", current, n, 0) IN
       /\ n # length[current] /\ Put(j)
       /\ length' = [length EXCEPT ![current] = n]
       /\ logical' = [logical EXCEPT ![current] = Effect(@, j)]
  /\ UNCHANGED <<muxer, position, closed, sealed, flushPending>> /\ MuxerFrame

\* Read puts its job past the limits and waits for it.
Read ==
  /\ Muxing /\ Open(current)
  /\ Put(NewJob("Read", current, position[current], 0))
  /\ muxerPc' = "read" /\ muxerJob' = issued + 1
  /\ UNCHANGED <<current, streams, logical>> /\ MuxerFrame

\* Seal, once per stream: the Close job goes past the limits.
Seal(f) ==
  /\ closed' = [closed EXCEPT ![f] = TRUE]
  /\ sealed' = [sealed EXCEPT ![f] = issued + 1]
  /\ Put(NewJob("Close", f, 0, 0))

EndRead ==
  /\ muxerPc = "read" /\ done >= muxerJob
  /\ muxerPc' = "idle" /\ muxerJob' = 0
  /\ \E n \in 0 .. 1 :
       /\ n = 0 \/ (error = "ok" /\ position[current] + n <= Len(disk[current]))
       /\ position' = [position EXCEPT ![current] = @ + n]
  /\ UNCHANGED <<current, queue, length, closed, sealed, flushPending, logical>>
  /\ MuxerFrame

\* RollSegment: the file is retired without waiting; the next one takes over
\* unless the queue has an error by then (the trailer is written, so nothing
\* more is muxed into the closed file).
Roll ==
  /\ Muxing /\ Open(current) /\ current < Files
  /\ Seal(current)
  /\ current' = IF error = "ok" THEN current + 1 ELSE current
  /\ UNCHANGED <<muxerPc, muxerJob, position, length, flushPending, logical>>
  /\ MuxerFrame

MuxerStep == Write \/ EndRead

-----------------------------------------------------------------------------
(* The recorder's worker                                                   *)

WorkerFrame == UNCHANGED <<storage, files, muxer, position, length, logical>>

\* The stream's mutex is free: a muxer call in progress holds it.
Unheld == muxerPc = "idle"

Requesting == workerPc = "loop" /\ requests < MaxRequests /\ requests' = requests + 1

\* Wrong variant: a refused request leaves the coalescing bit set.
RequestFlushStuck ==
  /\ Requesting /\ Unheld /\ Open(current)
  /\ flushPending' = [flushPending EXCEPT ![current] = TRUE]
  /\ IF ~flushPending[current] /\ Admits(0)
     THEN /\ Put([NewJob("Flush", current, 0, 0) EXCEPT !.coalesced = TRUE])
          /\ UNCHANGED workerPc
     ELSE /\ workerPc' = IF flushPending[current] /\ error = "ok" THEN "loop" ELSE "finalizing"
          /\ UNCHANGED queue
  /\ UNCHANGED <<spacePending, closed, sealed, workerJob, flushed, finished>>
  /\ WorkerFrame

\* The periodic flush is queued once per file at a time; a request refused by the
\* queue ends the recording (Check throws).
RequestFlush ==
  /\ Requesting /\ Unheld
  /\ \/ /\ Open(current) /\ ~flushPending[current] /\ Admits(0)
        /\ flushPending' = [flushPending EXCEPT ![current] = TRUE]
        /\ Put([NewJob("Flush", current, 0, 0) EXCEPT !.coalesced = TRUE])
        /\ UNCHANGED workerPc
     \/ /\ Open(current) /\ flushPending[current] /\ error = "ok"
        /\ UNCHANGED <<queue, flushPending, workerPc>>
     \/ /\ ~Open(current) \/ error # "ok" \/ (~flushPending[current] /\ Full(0))
        /\ workerPc' = "finalizing" /\ UNCHANGED <<queue, flushPending>>
  /\ UNCHANGED <<spacePending, closed, sealed, workerJob, flushed, finished>>
  /\ WorkerFrame

RequestSpace ==
  /\ Requesting
  /\ \/ /\ ~spacePending /\ Admits(0)
        /\ spacePending' = TRUE /\ Put(NewJob("Space", current, 0, 0))
        /\ UNCHANGED workerPc
     \/ /\ spacePending /\ error = "ok"
        /\ UNCHANGED <<queue, spacePending, workerPc>>
     \/ /\ error # "ok" \/ (~spacePending /\ Full(0))
        /\ workerPc' = "finalizing" /\ UNCHANGED <<queue, spacePending>>
  /\ UNCHANGED <<flushPending, closed, sealed, workerJob, flushed, finished>>
  /\ WorkerFrame

\* A stop, or RecordingStorageResult found an error.
LeaveLoop ==
  /\ workerPc = "loop" /\ workerPc' = "finalizing"
  /\ UNCHANGED <<queue, spacePending, flushPending, closed, sealed, workerJob,
                 flushed, finished, requests>>
  /\ WorkerFrame

\* writer->Finalize() has returned: the muxer is through.
FinalFlush ==
  /\ workerPc = "finalizing" /\ Unheld
  /\ IF Open(current)
     THEN /\ Put(NewJob("Flush", current, 0, 0))
          /\ workerJob' = issued + 1 /\ workerPc' = "flush" /\ UNCHANGED flushed
     ELSE /\ flushed' = "shutdown" /\ workerPc' = "close"
          /\ UNCHANGED <<queue, workerJob>>
  /\ UNCHANGED <<spacePending, flushPending, closed, sealed, finished, requests>>
  /\ WorkerFrame

\* Wrong variant: Wait returns when the job before is done.
PassedEarly(sequence) == done + 1 >= sequence

Passed(sequence) == done >= sequence

FlushReturns ==
  /\ workerPc = "flush" /\ Passed(workerJob)
  /\ flushed' = error /\ workerPc' = "close"
  /\ UNCHANGED <<queue, spacePending, flushPending, closed, sealed, workerJob,
                 finished, requests>>
  /\ WorkerFrame

\* Close of a stream that was sealed before waits for that job.
FinalClose ==
  /\ workerPc = "close" /\ workerPc' = "closing"
  /\ IF Open(current) THEN Seal(current) /\ workerJob' = issued + 1
     ELSE workerJob' = sealed[current] /\ UNCHANGED <<queue, closed, sealed>>
  /\ UNCHANGED <<spacePending, flushPending, flushed, finished, requests>>
  /\ WorkerFrame

CloseReturns ==
  /\ workerPc = "closing" /\ Passed(workerJob)
  /\ finished' = error /\ workerPc' = "release"
  /\ UNCHANGED <<queue, spacePending, flushPending, closed, sealed, workerJob,
                 flushed, requests>>
  /\ WorkerFrame

\* The last reference to the queue goes: its destructor stops and joins.
Release ==
  /\ workerPc = "release" /\ workerPc' = "join" /\ stopping' = TRUE
  /\ UNCHANGED <<queue, spacePending, error, job, storagePc, streams, muxer,
                 workerJob, flushed, finished, requests, files, logical>>

Join ==
  /\ workerPc = "join" /\ storagePc = "joined" /\ workerPc' = "ended"
  /\ UNCHANGED <<queue, spacePending, streams, workerJob, flushed, finished, requests>>
  /\ WorkerFrame

WorkerWaits == FlushReturns \/ FinalClose \/ CloseReturns \/ Release \/ Join

Next ==
  \/ StorageStep
  \/ CanAccept \/ Seek \/ SetLength \/ Read \/ Roll \/ MuxerStep
  \/ RequestFlush \/ RequestSpace \/ LeaveLoop \/ FinalFlush \/ WorkerWaits

Spec == Init /\ [][Next]_vars

\* The threads run; the muxer's calls, finitely many before Finalize returns,
\* leave the final flush its turn.
FairSpec ==
  /\ Spec /\ WF_vars(StorageStep) /\ WF_vars(MuxerStep) /\ WF_vars(WorkerWaits)
  /\ SF_vars(FinalFlush)
-----------------------------------------------------------------------------
(* Properties.                                                             *)

\* The jobs queued or in the storage thread's hands, oldest first.
Pending == job \o jobs

\* The jobs whose effect on the files is still to come.
Ahead == IF storagePc = "execute" THEN Pending ELSE jobs

\* What job j makes of the contents c of file f, and what the jobs of s do.
After(c, j, f) == IF j.file = f THEN Effect(c, j) ELSE c

Image(c, s, f) ==
  LET image[i \in 0 .. Len(s)] == IF i = 0 THEN c ELSE After(image[i - 1], s[i], f)
  IN image[Len(s)]

\* Writes, patches and resizes reach each file in the order and at the positions
\* the muxer asked for: while nothing failed, what is on disk plus what is queued
\* is what was written, and GetLength already answers for it.
BytesInOrder ==
  /\ \A f \in Parts : length[f] = Len(logical[f])
  /\ error = "ok" => \A f \in Parts : Image(disk[f], Ahead, f) = logical[f]

\* "A successful Flush means they reached the underlying file"
\* (RecordingStorage.h): Flush and Close return S_OK only if every byte of every
\* part, those retired without waiting included, is in its file and flushed.
SuccessIsDurable ==
  /\ flushed = "ok" => durable[current] = logical[current]
  /\ finished = "ok" => \A f \in 1 .. current : durable[f] = logical[f]

\* "Even after a write failure, flush/close every owned file": every part that
\* was muxed is closed exactly once, and nothing is done to it afterwards.
ClosedOnceAndLast ==
  /\ \A i \in DOMAIN Ahead : Ahead[i].kind # "Space" => closes[Ahead[i].file] = 0
  /\ workerPc = "ended" => \A f \in 1 .. current : closes[f] = 1

FinalControls == {"Read", "Flush", "Close"}
Final(j) == j.kind \in FinalControls /\ ~j.coalesced

\* The queue holds what its counters say and never more than its limits, the
\* calls its callers wait for excepted; limits_.bytes-bytes_ never wraps.
WithinLimits ==
  /\ operations = Len(Pending) /\ bytes <= ByteLimit
  /\ Cardinality({i \in DOMAIN Pending : ~Final(Pending[i])}) <= OperationLimit

\* A set coalescing bit always stands for a request in the queue or in execution:
\* neither a refused request nor a failed flush or query turns the periodic
\* flushes and space checks off.
RequestsServed ==
  /\ \A f \in Parts : flushPending[f] =>
       \E i \in DOMAIN Pending : Pending[i].coalesced /\ Pending[i].file = f
  /\ spacePending => \E i \in DOMAIN Pending : Pending[i].kind = "Space"

\* Whatever failed, the final Flush, Close and join return.
StorageEnds == workerPc = "finalizing" ~> workerPc = "ended"
-----------------------------------------------------------------------------
(* The inductive invariant behind the five of them.                        *)

Kinds    == {"Write", "Resize", "Read", "Flush", "Close", "Space"}
Jobs     == [kind : Kinds, file : Parts, position : Nat, size : Nat,
             sequence : Nat, coalesced : BOOLEAN]
Contents == Seq(Nat)
Changing == {"Write", "Resize"}

TypeOK ==
  /\ jobs \in Seq(Jobs) /\ job \in Seq(Jobs) /\ bytes \in Int /\ operations \in Int
  /\ issued \in Nat /\ done \in Nat /\ error \in {"ok"} \cup Errors
  /\ spacePending \in BOOLEAN /\ flushPending \in [Parts -> BOOLEAN]
  /\ position \in [Parts -> Nat] /\ length \in [Parts -> Nat]
  /\ closed \in [Parts -> BOOLEAN] /\ sealed \in [Parts -> Nat]
  /\ current \in Parts /\ muxerJob \in Nat /\ workerJob \in Nat
  /\ disk \in [Parts -> Contents] /\ durable \in [Parts -> Contents]
  /\ logical \in [Parts -> Contents] /\ closes \in [Parts -> Nat]

\* The storage thread holds one job from Pop to Complete; jobs are numbered as
\* they are put; and a Write carries bytes.
Numbered ==
  /\ IF storagePc \in {"execute", "executed", "settled"} THEN Len(job) = 1 ELSE job = <<>>
  /\ issued = done + Len(Pending)
  /\ \A i \in DOMAIN Pending : Pending[i].sequence = done + i
  /\ \A i \in DOMAIN Pending : Pending[i].kind = "Write" => Pending[i].size > 0
  /\ muxerPc = "write" => muxerJob > 0

\* The number of the last job whose effect is on the files.
Executed == issued - Len(Ahead)

\* A coalescing bit outlives the execution of its request only until it settles.
Requests ==
  /\ \A f \in Parts : flushPending[f] =>
       \/ \E i \in DOMAIN jobs : jobs[i].coalesced /\ jobs[i].file = f
       \/ storagePc \in {"execute", "executed"} /\ job[1].coalesced /\ job[1].file = f
  /\ spacePending => \E i \in DOMAIN Pending : Pending[i].kind = "Space"

\* The parts are sealed one after the other, the current one last; a muxer call
\* or a final Flush in progress keeps it open.
Seals ==
  /\ \A f \in Parts : (f < current => closed[f]) /\ (f > current => ~closed[f])
  /\ \A f \in Parts : closed[f] => sealed[f] > 0 /\ sealed[f] <= issued
  /\ \A f, g \in Parts : f < g /\ closed[g] => sealed[f] < sealed[g]
  /\ muxerPc # "idle" => ~closed[current] /\ workerPc \in {"loop", "finalizing"}
  /\ workerPc = "flush" => ~closed[current]
  /\ workerPc = "closing" => closed[current] /\ workerJob = sealed[current]
  /\ workerPc \in {"release", "join", "ended"} => closed[current] /\ sealed[current] <= done

\* The Close of a sealed part is the last thing done to it, and is done once.
Closing ==
  \A f \in Parts :
    IF closed[f] /\ sealed[f] <= Executed
    THEN closes[f] = 1 /\ \A i \in DOMAIN Ahead : Ahead[i].file = f => Ahead[i].kind = "Space"
    ELSE /\ closes[f] = 0
         /\ \A i \in DOMAIN Ahead : Ahead[i].file = f /\ Ahead[i].kind # "Space" =>
              IF closed[f]
              THEN /\ Ahead[i].sequence <= sealed[f]
                   /\ Ahead[i].kind = "Close" => Ahead[i].sequence = sealed[f]
              ELSE Ahead[i].kind # "Close"
         /\ closed[f] => \A i \in DOMAIN Ahead : Ahead[i].sequence = sealed[f] =>
              Ahead[i].file = f /\ Ahead[i].kind = "Close"

\* What a Flush or Close that was carried out has made durable, and that nothing
\* changes the current part once its final Flush is put.
Flushing ==
  /\ error = "ok" => \A f \in Parts :
       closed[f] /\ sealed[f] <= Executed => durable[f] = logical[f]
  /\ finished # "none" => workerPc \in {"release", "join", "ended"}
  /\ flushed # "none" => workerPc \in {"close", "closing", "release", "join", "ended"}
  /\ workerPc = "flush" =>
       /\ workerJob <= issued
       /\ \A i \in DOMAIN Ahead :
            /\ Ahead[i].sequence = workerJob => Ahead[i].kind = "Flush" /\ Ahead[i].file = current
            /\ Ahead[i].sequence > workerJob /\ Ahead[i].file = current => Ahead[i].kind \notin Changing
       /\ error = "ok" /\ workerJob <= Executed => durable[current] = logical[current]
  /\ flushed = "ok" =>
       /\ disk[current] = logical[current]
       /\ \A i \in DOMAIN Ahead : Ahead[i].file = current => Ahead[i].kind \notin Changing

IInv ==
  /\ TypeOK /\ Numbered /\ WithinLimits /\ Requests /\ Seals /\ Closing /\ Flushing
  /\ BytesInOrder /\ SuccessIsDurable
=============================================================================
