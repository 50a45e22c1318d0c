---------------------------- MODULE RunLifecycle ----------------------------
(***************************************************************************)
(* The life of ONE run row, from its creation to a terminal status, as it  *)
(* is driven by the API (upload, live open, stream, close), the on-prem    *)
(* runner (close, abort, abandoned close), the BullMQ `ingest` queue, the  *)
(* worker's pipeline, the live fold owner and the sweeper.                 *)
(*                                                                         *)
(* Every operation of the code touches one run, by id, so one run with     *)
(* all its actors shows every interleaving.  An action is what happens     *)
(* between two awaits: one SQL statement, one object-store call, one queue *)
(* call.  An uploaded bundle and the log of a live run are the object at   *)
(* the run's `bundle_key`; its contents are told apart only as far as the  *)
(* checksum does: "raw" (the bundle as uploaded, the log as assembled) or  *)
(* "cut" (the log truncated to whole records).  Which of the accepted      *)
(* bytes an assembled log holds is the question of module LiveStream.      *)
(***************************************************************************)
EXTENDS Integers

CONSTANTS
    Workers,        \* pipeline slots of the worker processes
    Closers,        \* close requests (API) and close calls (runner)
    Sweepers,       \* one per worker process
    IngestAttempts, \* INGEST_JOB_OPTIONS.attempts
    MaxOffset,      \* bound on the stream cursor
    FaultKinds,     \* the failures that may happen
    MaxFaults,      \* bound on their number
    NoOne           \* nobody: no owner of the job, nobody holds the lock

FaultSet == {"crash", "stall", "blob", "redis", "db", "parse", "session"}

ASSUME LifecycleAssumption ==
    /\ IngestAttempts \in Nat \ {0}
    /\ MaxOffset \in Nat \ {0}
    /\ MaxFaults \in Nat
    /\ FaultKinds \subseteq FaultSet
    /\ NoOne \notin Workers
    /\ "fold" \notin Workers
    /\ NoOne # "fold"
    /\ Closers \cap Sweepers = {}

VARIABLES
    \* columns of the run row
    status, live, streamOffset, bundleSha, abandoned,
    \* history: the answer of the statement that stored the checksum was lost
    unsure,
    \* the WHERE clause of the sweeper's SELECT holds: the clock that applies
    \* to this status is past its threshold
    stale,
    stats,          \* the run's rows in run_stat and its kin
    object,         \* the object at bundle_key
    job,            \* the BullMQ job with id = run id
    lock,           \* the run's advisory lock
    fold,           \* the live fold owner's claim
    accept,         \* IngestService.accept
    wpc, willRetry, wsha, wout,     \* the pipeline, per worker
    cpc, cmode, csha,               \* close, per closer
    spc,                            \* the sweeper's pass, per sweeper
    faults

sealV  == <<bundleSha, unsure>>
row    == <<status, live, streamOffset, sealV, abandoned, stale, stats>>
workV  == <<wpc, willRetry, wsha, wout>>
closeV == <<cpc, cmode, csha>>
vars   == <<row, object, job, lock, fold, accept, workV, closeV, spc, faults>>

Terminal  == {"complete", "failed", "incomplete"}
Statuses  == Terminal \cup {"absent", "pending", "running", "parsing"}
Contents  == {"none", "raw", "cut"}       \* "none": no object, or checksum ''
JobStates == {"none", "waiting", "active", "delayed", "completed", "failed"}
Modes     == {"close", "abort", "abandon"}

\* From a worker's successful pg_try_advisory_lock to its unlock.
Critical  == {"read", "mark", "ingest", "commit", "fail", "publish", "unlock"}
WorkerPCs == Critical \cup {"idle", "lock", "lost", "ack"}

\* A closer or a sweeper that has claimed the run and not yet stored the log's
\* checksum, and one that has and is about to enqueue.
Uncommitted == {"offset", "incomplete", "finalize", "read", "record", "release"}
CloserPCs   == Uncommitted \cup {"idle", "enqueue", "done"}
Assembling  == {"finalize", "cut", "record", "incomplete"}
SweeperPCs  == Assembling \cup {"idle", "reenqueue", "requeue"}

NoJob == [state |-> "none", attemptsMade |-> 0, attempts |-> 1, owner |-> NoOne]

Init ==
    /\ status = "absent" /\ live = FALSE /\ streamOffset = 0
    /\ bundleSha = "none" /\ unsure = FALSE
    /\ abandoned = FALSE /\ stale = FALSE /\ stats = FALSE
    /\ object = "none" /\ job = NoJob /\ lock = NoOne
    /\ fold = "idle" /\ accept = "idle"
    /\ wpc = [w \in Workers |-> "idle"]
    /\ willRetry = [w \in Workers |-> FALSE]
    /\ wsha = [w \in Workers |-> "none"]
    /\ wout = [w \in Workers |-> "ok"]
    /\ cpc = [c \in Closers |-> "idle"]
    /\ cmode = [c \in Closers |-> "close"]
    /\ csha = [c \in Closers |-> "none"]
    /\ spc = [s \in Sweepers |-> "idle"]
    /\ faults = 0

Fault(kind) ==
    /\ kind \in FaultKinds
    /\ faults < MaxFaults
    /\ faults' = faults + 1

NoFault == UNCHANGED faults

\* The sweeper's SELECT ... FOR UPDATE holds the row until its COMMIT, and the
\* re-enqueue happens before that COMMIT: no other statement writes the row.
RowFree == \A s \in Sweepers : spc[s] # "reenqueue"

-----------------------------------------------------------------------------
(* RunRepository: the guarded writes of the row. *)

\* Mutated ClaimForClose: no compare-and-set, a claimed row can be claimed again.
ClaimWithoutCas(isAbandoned) ==
    /\ status \in {"running", "parsing"}
    /\ status' = "parsing"
    /\ stale' = FALSE
    /\ abandoned' = (abandoned \/ isAbandoned)

\* claimForClose: running -> parsing, with the abandoned stamp or without it.
ClaimForClose(isAbandoned) ==
    /\ status = "running"
    /\ status' = "parsing"
    /\ stale' = FALSE
    /\ abandoned' = (abandoned \/ isAbandoned)

\* Mutated MarkIncomplete: no guard, a decided run is overwritten.
MarkIncompleteAnyway == status' = "incomplete" /\ stale' = FALSE

\* markIncomplete, and the sweeper's two statements of the same text.
MarkIncomplete ==
    IF status \in Terminal
    THEN UNCHANGED <<status, stale>>
    ELSE status' = "incomplete" /\ stale' = FALSE

\* The checksum is written; `lost` says that its writer does not learn of it.
StoreSha(sha, lost) == bundleSha' = sha /\ unsure' = lost

\* finalizeLive: the checksum, on a row at parsing only.
FinalizeLive(sha, lost) ==
    IF status = "parsing" THEN StoreSha(sha, lost) ELSE UNCHANGED sealV

\* releaseClose: parsing -> running.  The clock that applies is the stream's
\* again, which may already be past its threshold.
ReleaseClose ==
    IF status = "parsing"
    THEN status' = "running" /\ stale' \in BOOLEAN
    ELSE UNCHANGED <<status, stale>>

\* fail: guarded on complete and failed only.
FailRun ==
    IF status \in {"complete", "failed"}
    THEN UNCHANGED <<status, stale>>
    ELSE status' = "failed" /\ stale' = FALSE

-----------------------------------------------------------------------------
(* The ingest queue (BullMQ), as the code uses it. *)

\* Queue.add with jobId = runId: a no-op while a job with that id exists.
QueueAdd(attempts) ==
    job' = IF job.state = "none"
           THEN [NoJob EXCEPT !.state = "waiting", !.attempts = attempts]
           ELSE job

\* Mutated Reenqueue: relies on add alone, so a finished job is never run again.
ReenqueueByAdd == QueueAdd(1)

\* Sweeper.#reenqueue.  The sweeper's Queue has no default job options, so a
\* job it adds gets one attempt; a finished job is retried from attempt 0.
Reenqueue ==
    IF job.state = "none"
    THEN QueueAdd(1)
    ELSE job' = IF job.state \in {"failed", "completed"}
                THEN [job EXCEPT !.state = "waiting", !.attemptsMade = 0]
                ELSE job

\* The delay of the exponential backoff is over.
JobDue ==
    /\ job.state = "delayed"
    /\ job' = [job EXCEPT !.state = "waiting"]
    /\ UNCHANGED <<row, object, lock, fold, accept, workV, closeV, spc, faults>>

\* The stalled-job check takes the job from an owner that no longer renews its
\* lock: a dead one, or one whose event loop is blocked while it goes on
\* working.  The first time the job waits again; after that it has failed.
JobStalled ==
    /\ job.state = "active"
    /\ \/ wpc[job.owner] = "idle" /\ NoFault
       \/ wpc[job.owner] # "idle" /\ Fault("stall")
    /\ \E state \in {"waiting", "failed"} :
           job' = [job EXCEPT !.state = state, !.owner = NoOne]
    /\ UNCHANGED <<row, object, lock, fold, accept, workV, closeV, spc>>

\* removeOnComplete / removeOnFail of a job the API or the runner added.
JobRemoved ==
    /\ job.state \in {"completed", "failed"}
    /\ job.attempts = IngestAttempts
    /\ job' = NoJob
    /\ UNCHANGED <<row, object, lock, fold, accept, workV, closeV, spc, faults>>

-----------------------------------------------------------------------------
(* The API: upload, live open, stream. *)

\* IngestService.accept: object, then row, then job.
AcceptPut ==
    /\ accept = "idle" /\ status = "absent"
    /\ accept' = "stored" /\ object' = "raw"
    /\ UNCHANGED <<row, job, lock, fold, workV, closeV, spc, faults>>

AcceptCreate ==
    /\ accept = "stored"
    /\ accept' = "created"
    /\ status' = "pending" /\ bundleSha' = "raw"
    /\ UNCHANGED <<live, streamOffset, unsure, abandoned, stale, stats, object, job,
                   lock, fold, workV, closeV, spc, faults>>

AcceptEnqueue ==
    /\ accept = "created"
    /\ accept' = "done"
    /\ QueueAdd(IngestAttempts)
    /\ UNCHANGED <<row, object, lock, fold, workV, closeV, spc, faults>>

\* Redis refuses the job or the process dies: a row without a job.
AcceptLost ==
    /\ accept = "created"
    /\ accept' = "done"
    /\ Fault("redis") \/ Fault("crash")
    /\ UNCHANGED <<row, object, job, lock, fold, workV, closeV, spc>>

OpenLive ==
    /\ accept = "idle" /\ status = "absent"
    /\ accept' = "done"
    /\ status' = "running" /\ live' = TRUE
    /\ UNCHANGED <<streamOffset, sealV, abandoned, stale, stats, object, job,
                   lock, fold, workV, closeV, spc, faults>>

\* One accepted chunk: advanceOffset moves the cursor of a running row and
\* stamps stream_updated_at.
Stream ==
    /\ RowFree
    /\ status = "running" /\ streamOffset < MaxOffset
    /\ streamOffset' = streamOffset + 1
    /\ stale' = FALSE
    /\ UNCHANGED <<status, live, sealV, abandoned, stats, object, job,
                   lock, fold, accept, workV, closeV, spc, faults>>

-----------------------------------------------------------------------------
(* Closing a live run: LiveService.close, RunnerLiveSink.close (mode       *)
(* "close"), abortIncomplete ("abort") and closeAbandoned ("abandon").      *)

CGoto(c, pc) == cpc' = [cpc EXCEPT ![c] = pc]

CloseClaim(c, mode) ==
    /\ cpc[c] = "idle" /\ RowFree
    /\ ClaimForClose(mode = "abandon")
    /\ CGoto(c, IF mode = "abort" THEN "incomplete" ELSE "offset")
    /\ cmode' = [cmode EXCEPT ![c] = mode]
    /\ UNCHANGED <<live, streamOffset, sealV, stats, object, job, lock, fold,
                   accept, workV, csha, spc, faults>>

\* The claim matched no row: 409, or the runner's `not_claimed`.
CloseRefused(c) ==
    /\ cpc[c] = "idle" /\ live /\ status # "running"
    /\ CGoto(c, "done")
    /\ UNCHANGED <<row, object, job, lock, fold, accept, workV, cmode, csha, spc, faults>>

CloseOffset(c) ==
    /\ cpc[c] = "offset"
    /\ CGoto(c, IF streamOffset = 0 THEN "incomplete" ELSE "finalize")
    /\ UNCHANGED <<row, object, job, lock, fold, accept, workV, cmode, csha, spc, faults>>

CloseIncomplete(c) ==
    /\ cpc[c] = "incomplete" /\ RowFree
    /\ MarkIncomplete
    /\ CGoto(c, "done")
    /\ UNCHANGED <<live, streamOffset, sealV, abandoned, stats, object, job, lock,
                   fold, accept, workV, cmode, csha, spc, faults>>

\* LiveChunkStore.finalize writes the object unless it is there already.
FinalizeObject == object' = IF object = "none" THEN "raw" ELSE object

CloseFinalize(c) ==
    /\ cpc[c] = "finalize"
    /\ FinalizeObject
    /\ CGoto(c, "read")
    /\ UNCHANGED <<row, job, lock, fold, accept, workV, cmode, csha, spc, faults>>

\* blobs.get and the checksum of what it returned.
CloseRead(c) ==
    /\ cpc[c] = "read" /\ cmode[c] = "close"
    /\ csha' = [csha EXCEPT ![c] = object]
    /\ CGoto(c, "record")
    /\ UNCHANGED <<row, object, job, lock, fold, accept, workV, cmode, spc, faults>>

\* The abandoned close cuts the log to whole records and stores it again; a log
\* without one whole record has nothing to keep.
CloseCut(c) ==
    /\ cpc[c] = "read" /\ cmode[c] = "abandon"
    /\ \/ /\ CGoto(c, "incomplete")
          /\ UNCHANGED <<object, csha>>
       \/ /\ object' = "cut"
          /\ csha' = [csha EXCEPT ![c] = "cut"]
          /\ CGoto(c, "record")
    /\ UNCHANGED <<row, job, lock, fold, accept, workV, cmode, spc, faults>>

CloseRecord(c) ==
    /\ cpc[c] = "record" /\ RowFree
    /\ FinalizeLive(csha[c], FALSE)
    /\ CGoto(c, "enqueue")
    /\ UNCHANGED <<status, live, streamOffset, abandoned, stale, stats, object, job,
                   lock, fold, accept, workV, cmode, csha, spc, faults>>

CloseEnqueue(c) ==
    /\ cpc[c] = "enqueue"
    /\ QueueAdd(IngestAttempts)
    /\ CGoto(c, "done")
    /\ UNCHANGED <<row, object, lock, fold, accept, workV, cmode, csha, spc, faults>>

\* Mutated CloseError: the catch also spans the enqueue, after the checksum.
CloseErrorSpansEnqueue(c) ==
    /\ cpc[c] \in (Uncommitted \ {"release"}) \cup {"enqueue"}
    /\ Fault("blob") \/ Fault("db")
    /\ CGoto(c, IF cmode[c] = "close" THEN "release" ELSE "done")
    /\ UNCHANGED <<row, object, job, lock, fold, accept, workV, cmode, csha, spc>>

\* The catch of a close.  close() undoes its claim; closeAbandoned marks the run
\* incomplete; abortIncomplete gives up.
CloseCatch(c) ==
    CGoto(c, CASE cmode[c] = "close" -> "release"
               [] cmode[c] = "abandon" /\ cpc[c] # "incomplete" -> "incomplete"
               [] OTHER -> "done")

\* A step before the close knows that the checksum is stored fails.  An object
\* that was being put may be there all the same.
CloseError(c) ==
    /\ cpc[c] \in Uncommitted \ {"release"}
    /\ Fault("blob") \/ Fault("db")
    /\ CloseCatch(c)
    /\ \/ UNCHANGED object
       \/ cpc[c] = "finalize" /\ FinalizeObject
       \/ cpc[c] = "read" /\ cmode[c] = "abandon" /\ object' = "cut"
    /\ UNCHANGED <<row, job, lock, fold, accept, workV, cmode, csha, spc>>

\* finalizeLive or markIncomplete commits and its answer is lost: `committed`
\* (`finalized`) is set only after the await, so the catch runs all the same.
CloseUnheard(c) ==
    /\ RowFree /\ Fault("db")
    /\ \/ cpc[c] = "record" /\ FinalizeLive(csha[c], TRUE) /\ UNCHANGED <<status, stale>>
       \/ cpc[c] = "incomplete" /\ MarkIncomplete /\ UNCHANGED sealV
    /\ CloseCatch(c)
    /\ UNCHANGED <<live, streamOffset, abandoned, stats, object, job, lock, fold, accept,
                   workV, cmode, csha, spc>>

CloseRelease(c) ==
    /\ cpc[c] = "release" /\ RowFree
    /\ ReleaseClose
    /\ CGoto(c, "done")
    /\ UNCHANGED <<live, streamOffset, sealV, abandoned, stats, object, job, lock,
                   fold, accept, workV, cmode, csha, spc, faults>>

\* The process dies mid-close; or the answer of the claim itself is lost; or the
\* release fails, which is swallowed; or the job cannot be queued once the checksum
\* is stored.
CloseLost(c) ==
    /\ \/ cpc[c] \in Uncommitted \cup {"enqueue"} /\ Fault("crash")
       \/ cpc[c] \in {"offset", "release"} /\ Fault("db")
       \/ cpc[c] = "enqueue" /\ Fault("redis")
    /\ CGoto(c, "done")
    /\ UNCHANGED <<row, object, job, lock, fold, accept, workV, cmode, csha, spc>>

-----------------------------------------------------------------------------
(* The live fold owner, as a holder of the run's advisory lock. *)

FoldDiscover ==
    /\ fold = "idle" /\ status = "running"
    /\ fold' = "claiming"
    /\ UNCHANGED <<row, object, job, lock, accept, workV, closeV, spc, faults>>

FoldLock ==
    /\ fold = "claiming"
    /\ IF lock = NoOne
       THEN lock' = "fold" /\ fold' = "holding"
       ELSE fold' = "idle" /\ UNCHANGED lock
    /\ UNCHANGED <<row, object, job, accept, workV, closeV, spc, faults>>

\* Mutated FoldRelease: the run is forgotten, its advisory lock is not unlocked.
FoldForget ==
    /\ fold = "holding"
    /\ fold' = "idle"
    /\ UNCHANGED <<row, object, job, lock, accept, workV, closeV, spc, faults>>

\* live:closed, a tick that no longer finds the run running, a shutdown, or the
\* end of the session that holds the lock.
FoldRelease ==
    /\ fold = "holding"
    /\ fold' = "idle" /\ lock' = NoOne
    /\ UNCHANGED <<row, object, job, accept, workV, closeV, spc, faults>>

-----------------------------------------------------------------------------
(* The pipeline: consumer.ts and PipelineService.process. *)

WGoto(w, pc) == wpc' = [wpc EXCEPT ![w] = pc]
WEnd(w, pc, out) == WGoto(w, pc) /\ wout' = [wout EXCEPT ![w] = out]

TakeJob(w) ==
    /\ wpc[w] = "idle" /\ job.state = "waiting"
    /\ job' = [job EXCEPT !.state = "active", !.owner = w]
    /\ willRetry' = [willRetry EXCEPT ![w] = job.attemptsMade + 1 < job.attempts]
    /\ WGoto(w, "lock")
    /\ UNCHANGED <<row, object, lock, fold, accept, wsha, wout, closeV, spc, faults>>

\* Mutated TryLock: the attempt goes on without the lock.
TryLockBlind(w) ==
    /\ wpc[w] = "lock"
    /\ lock' = IF lock = NoOne THEN w ELSE lock
    /\ WGoto(w, "read")
    /\ UNCHANGED <<row, object, job, fold, accept, willRetry, wsha, wout, closeV, spc, faults>>

TryLock(w) ==
    /\ wpc[w] = "lock"
    /\ IF lock = NoOne
       THEN lock' = w /\ WGoto(w, "read")
       ELSE WGoto(w, "lost") /\ UNCHANGED lock
    /\ UNCHANGED <<row, object, job, fold, accept, willRetry, wsha, wout, closeV, spc, faults>>

\* #handleLockLost: a live run that is not complete or failed asks for a retry.
LockLost(w) ==
    /\ wpc[w] = "lost"
    /\ WEnd(w, "ack", IF live /\ status \notin {"complete", "failed"} THEN "retry" ELSE "ok")
    /\ UNCHANGED <<row, object, job, lock, fold, accept, willRetry, wsha, closeV, spc, faults>>

\* #processHoldingLock reads the row; the record it read is what #ingest uses.
ReadRun(w) ==
    /\ wpc[w] = "read"
    /\ IF status \in {"complete", "failed"}
       THEN WEnd(w, "unlock", "ok") /\ UNCHANGED wsha
       ELSE /\ WGoto(w, "mark")
            /\ wsha' = [wsha EXCEPT ![w] = bundleSha]
            /\ UNCHANGED wout
    /\ UNCHANGED <<row, object, job, lock, fold, accept, willRetry, closeV, spc, faults>>

\* markParsing has no guard on the status it overwrites.
MarkParsing(w) ==
    /\ wpc[w] = "mark" /\ RowFree
    /\ status' = "parsing" /\ stale' = FALSE
    /\ WGoto(w, "ingest")
    /\ UNCHANGED <<live, streamOffset, sealV, abandoned, stats, object, job, lock,
                   fold, accept, willRetry, wsha, wout, closeV, spc, faults>>

\* A database error outside the try of #processHoldingLock: the job's problem.
\* markParsing may have been applied.
ReadOrMarkError(w) ==
    /\ wpc[w] \in {"read", "mark"} /\ Fault("db")
    /\ \/ UNCHANGED <<status, stale>>
       \/ wpc[w] = "mark" /\ RowFree /\ status' = "parsing" /\ stale' = FALSE
    /\ WEnd(w, "unlock", "retry")
    /\ UNCHANGED <<live, streamOffset, sealV, abandoned, stats, object, job, lock, fold,
                   accept, willRetry, wsha, closeV, spc>>

\* #ingest up to its transaction: fetch, verify the checksum, parse, evaluate.
\* An empty checksum, a missing object and a mismatch are deterministic errors.
IngestSource(w) ==
    /\ wpc[w] = "ingest"
    /\ IF wsha[w] # "none" /\ wsha[w] = object
       THEN WGoto(w, "commit") /\ UNCHANGED wout
       ELSE WEnd(w, "fail", "fatal")
    /\ UNCHANGED <<row, object, job, lock, fold, accept, willRetry, wsha, closeV, spc, faults>>

IngestMalformed(w) ==
    /\ wpc[w] = "ingest" /\ Fault("parse")
    /\ WEnd(w, "fail", "fatal")
    /\ UNCHANGED <<row, object, job, lock, fold, accept, willRetry, wsha, closeV, spc>>

\* A transient error in #ingest: left at parsing for the queue's next attempt,
\* or failed when there is none.
TransientError(w) ==
    WEnd(w, IF willRetry[w] THEN "unlock" ELSE "fail", "retry")

IngestTransient(w) ==
    /\ wpc[w] \in {"ingest", "commit"}
    /\ Fault("blob") \/ Fault("db")
    /\ TransientError(w)
    /\ UNCHANGED <<row, object, job, lock, fold, accept, willRetry, wsha, closeV, spc>>

\* Mutated WriteResult: the abandoned stamp is not read.
WriteComplete ==
    /\ ~stats
    /\ stats' = TRUE
    /\ IF status \in {"complete", "failed"}
       THEN UNCHANGED <<status, stale>>
       ELSE status' = "complete" /\ stale' = FALSE

\* The transaction: statistics and status together.  The statistics have a
\* unique key per run, and the status is written unless complete or failed.
WriteResult ==
    /\ ~stats
    /\ stats' = TRUE
    /\ IF status \in {"complete", "failed"}
       THEN UNCHANGED <<status, stale>>
       ELSE /\ status' = IF abandoned THEN "incomplete" ELSE "complete"
            /\ stale' = FALSE

IngestCommit(w) ==
    /\ wpc[w] = "commit" /\ RowFree
    /\ WriteResult
    /\ WGoto(w, "publish")
    /\ UNCHANGED <<live, streamOffset, sealV, abandoned, object, job, lock, fold,
                   accept, willRetry, wsha, wout, closeV, spc, faults>>

\* The run_stat rows exist: a unique violation, rolled back, not transient.
IngestDuplicate(w) ==
    /\ wpc[w] = "commit" /\ stats
    /\ WEnd(w, "fail", "fatal")
    /\ UNCHANGED <<row, object, job, lock, fold, accept, willRetry, wsha, closeV, spc, faults>>

\* The COMMIT is durable but its answer is lost with the connection.
IngestUnknown(w) ==
    /\ wpc[w] = "commit" /\ RowFree /\ Fault("db")
    /\ WriteResult
    /\ TransientError(w)
    /\ UNCHANGED <<live, streamOffset, sealV, abandoned, object, job, lock, fold,
                   accept, willRetry, wsha, closeV, spc>>

FailWrite(w) ==
    /\ wpc[w] = "fail" /\ RowFree
    /\ FailRun
    /\ WGoto(w, "unlock")
    /\ UNCHANGED <<live, streamOffset, sealV, abandoned, stats, object, job, lock,
                   fold, accept, willRetry, wsha, wout, closeV, spc, faults>>

\* runs.fail or the pg_notify after it throws: that error replaces the first.
FailError(w) ==
    /\ wpc[w] = "fail" /\ RowFree /\ Fault("db")
    /\ FailRun \/ UNCHANGED <<status, stale>>
    /\ WEnd(w, "unlock", "retry")
    /\ UNCHANGED <<live, streamOffset, sealV, abandoned, stats, object, job, lock,
                   fold, accept, willRetry, wsha, closeV, spc>>

\* pg_notify and the request for a verification, whose errors are swallowed.
Publish(w) ==
    /\ wpc[w] = "publish"
    /\ \/ WEnd(w, "unlock", "ok") /\ NoFault
       \/ WEnd(w, "unlock", "retry") /\ Fault("db")
    /\ UNCHANGED <<row, object, job, lock, fold, accept, willRetry, wsha, closeV, spc>>

Unlock(w) ==
    /\ wpc[w] = "unlock"
    /\ lock' = IF lock = w THEN NoOne ELSE lock
    /\ WGoto(w, "ack")
    /\ UNCHANGED <<row, object, job, fold, accept, willRetry, wsha, wout, closeV, spc, faults>>

\* The consumer's outcome reaches the queue, which ignores it when the job is
\* no longer this worker's.
Ack(w) ==
    /\ wpc[w] = "ack"
    /\ WGoto(w, "idle")
    /\ job' = IF job.state = "active" /\ job.owner = w
              THEN [job EXCEPT !.owner = NoOne,
                               !.attemptsMade = @ + 1,
                               !.state = IF wout[w] = "ok" THEN "completed"
                                         ELSE IF wout[w] = "retry" /\ willRetry[w] THEN "delayed"
                                         ELSE "failed"]
              ELSE job
    /\ UNCHANGED <<row, object, lock, fold, accept, willRetry, wsha, wout, closeV, spc, faults>>

\* The process dies: PostgreSQL ends its sessions, the job stays active.
WorkerCrash(w) ==
    /\ wpc[w] # "idle" /\ Fault("crash")
    /\ WGoto(w, "idle")
    /\ lock' = IF lock = w THEN NoOne ELSE lock
    /\ UNCHANGED <<row, object, job, fold, accept, willRetry, wsha, wout, closeV, spc>>

\* Only the session that holds the lock is lost; the attempt does not notice.
SessionLost(w) ==
    /\ lock = w /\ Fault("session")
    /\ lock' = NoOne
    /\ UNCHANGED <<row, object, job, fold, accept, workV, closeV, spc>>

-----------------------------------------------------------------------------
(* The sweeper: #recoverStale, #assembleAbandoned, #reenqueue. *)

SGoto(s, pc) == spc' = [spc EXCEPT ![s] = pc]

\* The threshold of the current status passes.
Age ==
    /\ status \notin Terminal \cup {"absent"} /\ ~stale
    /\ stale' = TRUE
    /\ UNCHANGED <<status, live, streamOffset, sealV, abandoned, stats, object, job,
                   lock, fold, accept, workV, closeV, spc, faults>>

SweepStranded(s) ==
    /\ spc[s] = "idle" /\ RowFree
    /\ stale /\ status \in {"pending", "parsing"}
    /\ SGoto(s, "reenqueue")
    /\ UNCHANGED <<row, object, job, lock, fold, accept, workV, closeV, faults>>

SweepReenqueue(s) ==
    /\ spc[s] = "reenqueue"
    /\ \/ Reenqueue /\ NoFault
       \/ UNCHANGED job /\ Fault("redis")
    /\ SGoto(s, "idle")
    /\ UNCHANGED <<row, object, lock, fold, accept, workV, closeV>>

SweepEmpty(s) ==
    /\ spc[s] = "idle" /\ RowFree
    /\ stale /\ status = "running" /\ streamOffset = 0
    /\ MarkIncomplete
    /\ UNCHANGED <<live, streamOffset, sealV, abandoned, stats, object, job, lock,
                   fold, accept, workV, closeV, spc, faults>>

SweepClaim(s) ==
    /\ spc[s] = "idle" /\ RowFree
    /\ stale /\ streamOffset > 0
    /\ ClaimForClose(TRUE)
    /\ SGoto(s, "finalize")
    /\ UNCHANGED <<live, streamOffset, sealV, stats, object, job, lock, fold, accept,
                   workV, closeV, faults>>

SweepFinalize(s) ==
    /\ spc[s] = "finalize"
    /\ FinalizeObject
    /\ SGoto(s, "cut")
    /\ UNCHANGED <<row, job, lock, fold, accept, workV, closeV, faults>>

SweepCut(s) ==
    /\ spc[s] = "cut"
    /\ \/ SGoto(s, "incomplete") /\ UNCHANGED object
       \/ SGoto(s, "record") /\ object' = "cut"
    /\ UNCHANGED <<row, job, lock, fold, accept, workV, closeV, faults>>

\* Unlike finalizeLive, this UPDATE has no guard on the status.
SweepRecord(s) ==
    /\ spc[s] = "record" /\ RowFree
    /\ StoreSha("cut", FALSE)
    /\ SGoto(s, "requeue")
    /\ UNCHANGED <<status, live, streamOffset, abandoned, stale, stats, object, job,
                   lock, fold, accept, workV, closeV, faults>>

SweepRequeue(s) ==
    /\ spc[s] = "requeue"
    /\ \/ Reenqueue /\ NoFault
       \/ UNCHANGED job /\ Fault("redis")
    /\ SGoto(s, "idle")
    /\ UNCHANGED <<row, object, lock, fold, accept, workV, closeV>>

SweepError(s) ==
    /\ spc[s] \in Assembling \ {"incomplete"}
    /\ Fault("blob") \/ Fault("db")
    /\ SGoto(s, "incomplete")
    /\ \/ UNCHANGED object
       \/ spc[s] = "finalize" /\ FinalizeObject
       \/ spc[s] = "cut" /\ object' = "cut"
    /\ UNCHANGED <<row, job, lock, fold, accept, workV, closeV>>

\* The UPDATE commits and its answer is lost: `stored` is still false in the catch.
SweepUnheard(s) ==
    /\ spc[s] = "record" /\ RowFree /\ Fault("db")
    /\ StoreSha("cut", TRUE)
    /\ SGoto(s, "incomplete")
    /\ UNCHANGED <<status, live, streamOffset, abandoned, stale, stats, object, job,
                   lock, fold, accept, workV, closeV>>

SweepIncomplete(s) ==
    /\ spc[s] = "incomplete" /\ RowFree
    /\ MarkIncomplete
    /\ SGoto(s, "idle")
    /\ UNCHANGED <<live, streamOffset, sealV, abandoned, stats, object, job, lock,
                   fold, accept, workV, closeV, faults>>

\* The process dies; or the answer of the claim's COMMIT is lost; or the last write
\* of a failed assembly fails too.
SweepLost(s) ==
    /\ \/ spc[s] # "idle" /\ Fault("crash")
       \/ spc[s] \in {"finalize", "incomplete"} /\ Fault("db")
    /\ SGoto(s, "idle")
    /\ UNCHANGED <<row, object, job, lock, fold, accept, workV, closeV>>

-----------------------------------------------------------------------------

Api    == AcceptPut \/ AcceptCreate \/ AcceptEnqueue \/ AcceptLost \/ OpenLive \/ Stream
Queue  == JobDue \/ JobStalled \/ JobRemoved
Fold   == FoldDiscover \/ FoldLock \/ FoldRelease

Closer(c) ==
    \/ \E mode \in Modes : CloseClaim(c, mode)
    \/ CloseRefused(c) \/ CloseOffset(c) \/ CloseIncomplete(c) \/ CloseFinalize(c)
    \/ CloseRead(c) \/ CloseCut(c) \/ CloseRecord(c) \/ CloseEnqueue(c)
    \/ CloseError(c) \/ CloseUnheard(c) \/ CloseRelease(c) \/ CloseLost(c)

Worker(w) ==
    \/ TakeJob(w) \/ TryLock(w) \/ LockLost(w) \/ ReadRun(w) \/ MarkParsing(w)
    \/ ReadOrMarkError(w) \/ IngestSource(w) \/ IngestMalformed(w) \/ IngestTransient(w)
    \/ IngestCommit(w) \/ IngestDuplicate(w) \/ IngestUnknown(w) \/ FailWrite(w)
    \/ FailError(w) \/ Publish(w) \/ Unlock(w) \/ Ack(w) \/ WorkerCrash(w) \/ SessionLost(w)

Sweeper(s) ==
    \/ SweepStranded(s) \/ SweepReenqueue(s) \/ SweepEmpty(s) \/ SweepClaim(s)
    \/ SweepFinalize(s) \/ SweepCut(s) \/ SweepRecord(s) \/ SweepRequeue(s)
    \/ SweepError(s) \/ SweepUnheard(s) \/ SweepIncomplete(s) \/ SweepLost(s)

Next ==
    \/ Api \/ Queue \/ Fold \/ Age
    \/ \E c \in Closers : Closer(c)
    \/ \E w \in Workers : Worker(w)
    \/ \E s \in Sweepers : Sweeper(s)

Spec == Init /\ [][Next]_vars

\* A client may stop streaming and never close, nobody has to fail, and removal
\* from the queue's history is not owed to anyone.  Everything else is a step of
\* a process that is up (or restarted): its next statement runs.  A statement may
\* wait for the sweeper's row lock again and again, hence strong fairness: the
\* waiters of a row lock are served in turn.
CloseStep(c) == Closer(c) /\ cpc[c] # "idle"

Fairness ==
    /\ WF_vars(AcceptCreate) /\ WF_vars(AcceptEnqueue) /\ WF_vars(Age)
    /\ WF_vars(JobDue) /\ WF_vars(JobStalled)
    /\ WF_vars(FoldLock) /\ WF_vars(FoldRelease)
    /\ \A c \in Closers : SF_vars(CloseStep(c))
    /\ \A w \in Workers : SF_vars(Worker(w))
    /\ \A s \in Sweepers : SF_vars(Sweeper(s))

FairSpec == Spec /\ Fairness

-----------------------------------------------------------------------------
(* Correctness. *)

Jobs == [state : JobStates, attemptsMade : Nat, attempts : Nat \ {0},
         owner : Workers \cup {NoOne}]

\* The type of the state: an active job has an owner, and the fold owner holds
\* the lock exactly when it says so.
TypeOK ==
    /\ status \in Statuses /\ live \in BOOLEAN /\ streamOffset \in 0..MaxOffset
    /\ bundleSha \in Contents /\ unsure \in BOOLEAN
    /\ abandoned \in BOOLEAN /\ stale \in BOOLEAN
    /\ stats \in BOOLEAN /\ object \in Contents
    /\ job \in Jobs /\ (job.state = "active" => job.owner \in Workers)
    /\ lock \in Workers \cup {NoOne, "fold"}
    /\ fold \in {"idle", "claiming", "holding"} /\ (fold = "holding" <=> lock = "fold")
    /\ accept \in {"idle", "stored", "created", "done"}
    /\ wpc \in [Workers -> WorkerPCs] /\ willRetry \in [Workers -> BOOLEAN]
    /\ wsha \in [Workers -> Contents] /\ wout \in [Workers -> {"ok", "retry", "fatal"}]
    /\ cpc \in [Closers -> CloserPCs] /\ cmode \in [Closers -> Modes]
    /\ csha \in [Closers -> Contents]
    /\ spc \in [Sweepers -> SweeperPCs]
    /\ faults \in 0..MaxFaults

CloserClaims(c)  == cpc[c] \in Uncommitted \cup {"enqueue"}
SweeperClaims(s) == spc[s] \in Assembling \cup {"requeue"}
Claims(a) == IF a \in Closers THEN CloserClaims(a) ELSE SweeperClaims(a)

\* Of all the close requests, runner closes and sweepers, at most one is between
\* its claim of the run and its end, even when the claim is released and taken
\* again (claimForClose's "only one caller's claim can win").
SoleClaimant == \A a, b \in Closers \cup Sweepers : Claims(a) /\ Claims(b) => a = b

\* A run that accepts bytes is claimed by nobody, was never taken for abandoned and
\* has no results; and it has no stored checksum (live.service.ts, "BUT ONLY UP TO
\* `finalizeLive`.  AFTER THAT, RELEASING LOSES BYTES").  The one exception is a closer
\* that never heard that its finalizeLive was applied: its catch releases the claim.
RunningIsOpen ==
    status = "running" =>
        /\ bundleSha = "none" \/ unsure
        /\ ~abandoned /\ ~stats
        /\ \A a \in Closers \cup Sweepers : ~Claims(a)

\* A complete run has its statistics, was never taken for abandoned, and the
\* object its checksum names is still the bundle as uploaded or the log as
\* assembled, never the cut log of an abandoned run.
CompleteIsWhole ==
    status = "complete" => stats /\ ~abandoned /\ bundleSha = "raw" /\ object = "raw"

\* Two attempts at the same run never work on it at the same time, nor one together
\* with the fold owner, whatever the queue redelivers (pipeline.service.ts, "ONE
\* PROCESSOR PER RUN").
OneProcessor ==
    /\ \A v, w \in Workers : wpc[v] \in Critical /\ wpc[w] \in Critical => v = w
    /\ fold = "holding" => \A w \in Workers : wpc[w] \notin Critical

\* complete and failed are never left, by any writer of the row (a consequence of
\* ImplementsAbstract below, proved on its own).
DecidedIsFinal == [][(status \in {"complete", "failed"}) => (status' = status)]_vars

\* What RunAbstract promises of a run: the row, the cursor, the checksum and the
\* statistics of this module are its variables.
Abstract == INSTANCE RunAbstract
            WITH accepted <- streamOffset, sealed <- (bundleSha # "none"), results <- stats

\* Whatever the actors do, the run moves as RunAbstract allows: bytes are accepted
\* only by an open run, a sealed run is never reopened nor sealed twice unless whoever
\* sealed it does not know, results come from a sealed log only and once, complete and
\* failed are final.
ImplementsAbstract == Abstract!Spec

\* Every run that exists reaches a terminal status and stays in one, whichever
\* process dies on the way, once the faults stop.
Settles == (status # "absent") ~> [](status \in Terminal)
=============================================================================
