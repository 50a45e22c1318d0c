----------------------------- MODULE RunnerJob ------------------------------
(***************************************************************************)
(* One job of the on-prem runner: its row in runner_job, the runner        *)
(* processes that poll for it, the executor that runs it (open a live run, *)
(* prepare, start Gatling, tail its log, close), the requests that cancel  *)
(* it and the passes that fail a job nobody seems to work on.              *)
(*                                                                         *)
(* A job is claimed once, so one job has one executor; a second runner     *)
(* only races for the claim, fails stale jobs and removes old ones.  What  *)
(* Gatling writes is counted in chunks; how the tailer reads them is in    *)
(* LogTailer, and the life of the run behind `run` is in RunLifecycle.     *)
(***************************************************************************)
EXTENDS Naturals

CONSTANTS
    Runners,     \* runner processes
    MaxChunks,   \* bound on what Gatling writes
    FaultKinds,  \* the failures that may happen
    MaxFaults,   \* bound on their number
    NoOne        \* nobody executes the job

\* "unseen" and "overlap" are what the tailer does not report (see LogTailer): a failed
\* stat, and two reads at once.
FaultSet == {"db", "blob", "queue", "crash", "slow", "stop", "unseen", "overlap"}

ASSUME RunnerAssumption ==
    /\ MaxChunks \in Nat /\ MaxFaults \in Nat
    /\ FaultKinds \subseteq FaultSet
    /\ NoOne \notin Runners

VARIABLES
    job, aged,          \* the row: status; updated_at is older than staleJobMs
    rpc, stopping,      \* the main loop of each runner; its shutdown
    owner, epc, after,  \* the executor: who runs it, where it is, what follows an abort
    hasRun, closed,     \* the sink: runId is set; #closed
    run, stored,        \* the live run and the chunks it accepted
    child, exit, wrote, \* the Gatling process, how it ended, chunks in its log
    tailFailed,         \* #failure of the tailer
    torn,               \* history: the tailer left bytes out, or counted them twice
    hurt,               \* history: a statement, an object or a process failed
    faults

jobV   == <<job, aged>>
loopV  == <<rpc, stopping>>
execV  == <<owner, epc, after>>
sinkV  == <<hasRun, closed>>
logV   == <<stored, torn>>
runV   == <<run, logV>>
childV == <<child, exit, wrote, tailFailed>>
vars   == <<jobV, loopV, execV, sinkV, runV, childV, hurt, faults>>

Active   == {"starting", "running", "closing"}
Terminal == {"complete", "failed", "cancelled"}

Init ==
    /\ job = "queued" /\ aged = FALSE
    /\ rpc = [r \in Runners |-> "stale"] /\ stopping = [r \in Runners |-> "no"]
    /\ owner = NoOne /\ epc = "idle" /\ after = "end"
    /\ hasRun = FALSE /\ closed = FALSE
    /\ run = "none" /\ stored = 0 /\ torn = FALSE
    /\ child = "none" /\ exit = "none" /\ wrote = 0 /\ tailFailed = FALSE
    /\ hurt = FALSE /\ faults = 0

Fault(kind) ==
    /\ kind \in FaultKinds
    /\ faults < MaxFaults
    /\ faults' = faults + 1
    /\ hurt' = (hurt \/ kind \notin {"slow", "stop", "unseen", "overlap"})

NoFault == UNCHANGED <<hurt, faults>>

-----------------------------------------------------------------------------
(* RunnerRepository: the writes to the row. *)

\* Mutated MarkJob: the guard of markClosing, markComplete and markFailed is gone.
MarkJobAlways(status) == job' = status /\ aged' = FALSE

\* markClosing, markComplete, markFailed: any row but a cancelled one.
MarkJob(status) ==
    IF job \in {"cancelled", "deleted"} THEN UNCHANGED jobV
    ELSE job' = status /\ aged' = FALSE

CancelJob ==
    IF job \in Active \cup {"queued"} THEN job' = "cancelled" /\ aged' = FALSE
    ELSE UNCHANGED jobV

\* POST runs/:jobId/cancel
RequestCancel ==
    /\ job \in Active \cup {"queued"}
    /\ CancelJob
    /\ UNCHANGED <<loopV, execV, sinkV, runV, childV>> /\ NoFault

\* Time passes without a heartbeat: nobody beats for the job, or who should is slow.
Age ==
    /\ job \in Active /\ ~aged
    /\ \/ owner = NoOne /\ (\A r \in Runners : rpc[r] # "claimed") /\ NoFault
       \/ owner # NoOne /\ Fault("slow")
    /\ aged' = TRUE
    /\ UNCHANGED <<job, loopV, execV, sinkV, runV, childV>>

-----------------------------------------------------------------------------
(* main.ts: failStale, retention, claimNext, run. *)

LGoto(r, to) == rpc' = [rpc EXCEPT ![r] = to]

\* Mutated FailStale: a job nobody works on is left alone.
FailStaleNever(r) ==
    /\ rpc[r] = "stale"
    /\ LGoto(r, IF stopping[r] # "no" THEN "down" ELSE "retain")
    /\ UNCHANGED <<jobV, stopping, execV, sinkV, runV, childV>> /\ NoFault

\* The top of the loop; a stopping runner leaves it.
FailStale(r) ==
    /\ rpc[r] = "stale"
    /\ IF stopping[r] # "no" THEN LGoto(r, "down") /\ UNCHANGED jobV
       ELSE /\ LGoto(r, "retain")
            /\ IF job \in Active /\ aged THEN job' = "failed" /\ aged' = FALSE
               ELSE UNCHANGED jobV
    /\ UNCHANGED <<stopping, execV, sinkV, runV, childV>> /\ NoFault

\* cleanupExpiredArtifacts: a terminal job past the window goes.  The window is a day
\* at least, and the poll that kills a cancelled job's process takes seconds.
Retain(r) ==
    /\ rpc[r] = "retain"
    /\ LGoto(r, "claim")
    /\ \/ UNCHANGED jobV
       \/ /\ job \in Terminal /\ ~(job = "cancelled" /\ child = "alive")
          /\ job' = "deleted" /\ aged' = FALSE
    /\ UNCHANGED <<stopping, execV, sinkV, runV, childV>> /\ NoFault

\* claimNext: FOR UPDATE SKIP LOCKED; then the answer comes.
ClaimNext(r) ==
    /\ rpc[r] = "claim"
    /\ IF job = "queued" THEN job' = "starting" /\ aged' = FALSE /\ LGoto(r, "claimed")
       ELSE UNCHANGED jobV /\ LGoto(r, "stale")
    /\ UNCHANGED <<stopping, execV, sinkV, runV, childV>> /\ NoFault

\* activeJob is set and the executor starts, whether or not the runner is stopping.
StartRun(r) ==
    /\ rpc[r] = "claimed"
    /\ LGoto(r, "busy")
    /\ owner' = r /\ epc' = "open" /\ after' = "end"
    /\ UNCHANGED <<jobV, stopping, sinkV, runV, childV>> /\ NoFault

\* A statement of the loop fails; the claim may have been made.
LoopError(r) ==
    /\ rpc[r] \in {"stale", "retain", "claim", "claimed"} /\ Fault("db")
    /\ LGoto(r, "stale")
    /\ UNCHANGED <<jobV, stopping, execV, sinkV, runV, childV>>

\* SIGTERM: the active job is cancelled, unless that fails, and waited for; without
\* one, the connections are closed at once.
Stop(r) ==
    /\ rpc[r] # "down" /\ stopping[r] = "no" /\ Fault("stop")
    /\ IF rpc[r] = "busy"
       THEN stopping' = [stopping EXCEPT ![r] = "waiting"] /\ (CancelJob \/ UNCHANGED jobV)
       ELSE stopping' = [stopping EXCEPT ![r] = "closed"] /\ UNCHANGED jobV
    /\ UNCHANGED <<rpc, execV, sinkV, runV, childV>>

\* The process dies.  Nothing kills the Gatling it spawned, which dies with it if its
\* container does, and else goes on without a reader.
Crash(r) ==
    /\ rpc[r] # "down" /\ Fault("crash")
    /\ LGoto(r, "down")
    /\ IF owner = r
       THEN /\ owner' = NoOne /\ epc' = "idle" /\ after' = "end"
            /\ child' \in IF child \in {"alive", "killed"} THEN {"none", "orphan"} ELSE {"none"}
       ELSE UNCHANGED <<execV, child>>
    /\ UNCHANGED <<jobV, stopping, sinkV, runV, exit, wrote, tailFailed>>

Restart(r) ==
    /\ rpc[r] = "down"
    /\ LGoto(r, "stale") /\ stopping' = [stopping EXCEPT ![r] = "no"]
    /\ UNCHANGED <<jobV, execV, sinkV, runV, childV>> /\ NoFault

-----------------------------------------------------------------------------
(* RunnerExecutor.run, up to the start of Gatling. *)

Goto(to) == epc' = to /\ UNCHANGED <<owner, after>>
Abort(then) == epc' = "abort" /\ after' = then /\ UNCHANGED owner

\* sink.open: createLive under the job's idempotency key.
OpenRun ==
    /\ epc = "open"
    /\ run' = "open" /\ hasRun' = TRUE
    /\ Goto("attach")
    /\ UNCHANGED <<jobV, loopV, closed, logV, childV>> /\ NoFault

\* open fails: no row, a row the sink does not know of, or one whose offset it
\* could not read.
OpenError ==
    /\ epc = "open" /\ Fault("db")
    /\ \/ UNCHANGED <<run, hasRun>>
       \/ run' = "open" /\ hasRun' \in BOOLEAN
    /\ Goto("catch")
    /\ UNCHANGED <<jobV, loopV, closed, logV, childV>>

\* markRunOpened, a compare-and-set from `starting`.
Attach ==
    /\ epc = "attach"
    /\ IF job = "starting"
       THEN job' = "running" /\ aged' = FALSE /\ Goto("check")
       ELSE UNCHANGED jobV /\ Abort("end")
    /\ UNCHANGED <<loopV, sinkV, runV, childV>> /\ NoFault

\* #isCancelled before the preparation and before the launch.
CheckCancelled ==
    /\ epc \in {"check", "recheck"}
    /\ IF job = "cancelled" THEN Abort("end")
       ELSE Goto(IF epc = "check" THEN "prepare" ELSE "spawn")
    /\ UNCHANGED <<jobV, loopV, sinkV, runV, childV>> /\ NoFault

\* prepareGatlingRun: the artifact is there and can be unpacked, or not; a
\* cancelled job's unpacking is killed.
Prepare ==
    /\ epc = "prepare"
    /\ \E to \in {"recheck", "catch"} : Goto(to)
    /\ UNCHANGED <<jobV, loopV, sinkV, runV, childV>> /\ NoFault

\* The tailer starts, then the process; the process may fail to start.
Spawn ==
    /\ epc = "spawn"
    /\ \/ child' = "alive" /\ Goto("wait")
       \/ UNCHANGED child /\ Goto("catch")
    /\ UNCHANGED <<jobV, loopV, sinkV, runV, exit, wrote, tailFailed>> /\ NoFault

-----------------------------------------------------------------------------
(* While Gatling runs. *)

Write ==
    /\ child \in {"alive", "killed", "orphan"} /\ wrote < MaxChunks
    /\ wrote' = wrote + 1
    /\ UNCHANGED <<jobV, loopV, execV, sinkV, runV, child, exit, tailFailed>> /\ NoFault

\* A poll of the tailer: a run that is no longer open refuses the chunk.
Tail ==
    /\ epc = "wait" /\ stored < wrote /\ ~tailFailed
    /\ IF run = "open" THEN stored' = wrote /\ UNCHANGED tailFailed
                       ELSE tailFailed' = TRUE /\ UNCHANGED stored
    /\ UNCHANGED <<jobV, loopV, execV, sinkV, run, torn, child, exit, wrote>> /\ NoFault

\* The chunk or the cursor fails; the cursor may have moved.
TailError ==
    /\ epc \in {"wait", "drain"} /\ stored < wrote /\ ~tailFailed
    /\ \/ Fault("blob") /\ UNCHANGED stored
       \/ Fault("db") /\ stored' \in IF run = "open" THEN {stored, wrote} ELSE {stored}
    /\ tailFailed' = TRUE
    /\ UNCHANGED <<jobV, loopV, execV, sinkV, run, torn, child, exit, wrote>>

\* Two flushes that waited for one read begin the next together: one of them is
\* refused by an open run, or both move its cursor.
TailOverlap ==
    /\ epc \in {"wait", "drain"} /\ stored < wrote /\ ~tailFailed /\ run = "open" /\ Fault("overlap")
    /\ \/ tailFailed' = TRUE /\ stored' \in {stored, wrote} /\ UNCHANGED torn
       \/ stored' = wrote /\ torn' = TRUE /\ UNCHANGED tailFailed
    /\ UNCHANGED <<jobV, loopV, execV, sinkV, run, child, exit, wrote>>

\* Mutated HeartbeatAndCheckCancelled: only the heartbeat.
HeartbeatOnly ==
    /\ epc = "wait" /\ child \in {"alive", "killed"}
    /\ aged' = (aged /\ job \notin Active)
    /\ UNCHANGED <<job, loopV, execV, sinkV, runV, childV>> /\ NoFault

\* #heartbeatAndCheckCancelled: a cancelled job's process is killed.
HeartbeatAndCheckCancelled ==
    /\ epc = "wait" /\ child \in {"alive", "killed"}
    /\ aged' = (aged /\ job \notin Active)
    /\ child' = IF job = "cancelled" THEN "killed" ELSE child
    /\ UNCHANGED <<job, loopV, execV, sinkV, runV, exit, wrote, tailFailed>> /\ NoFault

\* An orphan is nobody's to kill: it ends by itself.
OrphanExit ==
    /\ child = "orphan" /\ child' = "none"
    /\ UNCHANGED <<jobV, loopV, execV, sinkV, runV, exit, wrote, tailFailed>> /\ NoFault

\* Gatling ends: with a finished simulation's exit code, or before.
ChildExit ==
    /\ epc = "wait" /\ child \in {"alive", "killed"}
    /\ exit' \in {"finished", "early"}
    /\ child' = IF child = "killed" THEN "stopped" ELSE "exited"
    /\ Goto("drain")
    /\ UNCHANGED <<jobV, loopV, sinkV, runV, wrote, tailFailed>> /\ NoFault

-----------------------------------------------------------------------------
(* After Gatling has ended. *)

\* Mutated Drain: the last flush is not made.
DrainShort ==
    /\ epc = "drain"
    /\ Goto(IF tailFailed THEN "catch" ELSE "ended")
    /\ UNCHANGED <<jobV, loopV, sinkV, runV, childV>> /\ NoFault

\* tailer.stop: one more flush; a failure of the tailer surfaces here.
Drain ==
    /\ epc = "drain"
    /\ IF tailFailed \/ (stored < wrote /\ run # "open")
       THEN Goto("catch") /\ UNCHANGED stored
       ELSE Goto("ended") /\ stored' = wrote
    /\ UNCHANGED <<jobV, loopV, sinkV, run, torn, childV>> /\ NoFault

\* The last flush does not see the file: stop() succeeds, and what is left is lost.
DrainUnseen ==
    /\ epc = "drain" /\ ~tailFailed /\ stored < wrote /\ Fault("unseen")
    /\ Goto("ended") /\ torn' = TRUE
    /\ UNCHANGED <<jobV, loopV, sinkV, run, stored, childV>>

\* result.stopped || #isCancelled
EndedCancelled ==
    /\ epc = "ended"
    /\ IF child = "stopped" \/ job = "cancelled" THEN Abort("end") ELSE Goto("closing")
    /\ UNCHANGED <<jobV, loopV, sinkV, runV, childV>> /\ NoFault

\* markClosing, then by what there is to close: nothing, an early end, a whole log.
Closing ==
    /\ epc = "closing"
    /\ MarkJob("closing")
    /\ CASE stored = 0 -> Abort("catch")
         [] stored > 0 /\ exit = "early" -> Goto("closeAbandoned")
         [] OTHER -> Goto("close")
    /\ UNCHANGED <<loopV, sinkV, runV, childV>> /\ NoFault

\* claimForClose of close and closeAbandoned; a run somebody else closed is done with.
SinkClaim ==
    /\ epc \in {"close", "closeAbandoned"}
    /\ IF run = "open"
       THEN run' = "claimed" /\ UNCHANGED closed
            /\ Goto(IF epc = "close" THEN "seal" ELSE "sealAbandoned")
       ELSE closed' = TRUE /\ UNCHANGED run
            /\ Goto(IF epc = "close" THEN "complete" ELSE "catch")
    /\ UNCHANGED <<jobV, loopV, hasRun, logV, childV>> /\ NoFault

\* finalize, checksum, finalizeLive.
SinkSeal ==
    /\ epc = "seal"
    /\ run' = "sealed" /\ closed' = TRUE
    /\ Goto("enqueue")
    /\ UNCHANGED <<jobV, loopV, hasRun, logV, childV>> /\ NoFault

\* One of them fails: the claim is released, if that works.  (The answer to finalizeLive
\* may be all that is lost, see RunLifecycle: the checksum is not in `run`.)
SinkSealError ==
    /\ epc = "seal" /\ (Fault("blob") \/ Fault("db"))
    /\ run' \in {"open", "claimed"}
    /\ Goto("catch")
    /\ UNCHANGED <<jobV, loopV, sinkV, logV, childV>>

\* #enqueueForParsing, three attempts; a runner that was told to stop while it
\* claimed the job has closed its queue.
SinkEnqueue ==
    /\ epc = "enqueue"
    /\ \/ stopping[owner] # "closed" /\ Goto("complete") /\ NoFault
       \/ stopping[owner] = "closed" /\ Goto("catch") /\ NoFault
       \/ Fault("queue") /\ Goto("catch")
    /\ UNCHANGED <<jobV, loopV, sinkV, runV, childV>>

\* closeAbandoned keeps whole records if it can, never throws, and the job fails.
SinkSealAbandoned ==
    /\ epc = "sealAbandoned"
    /\ \/ run' \in {"sealed", "incomplete"} /\ NoFault
       \/ run' \in {"incomplete", "claimed"} /\ (Fault("blob") \/ Fault("db"))
    /\ closed' = TRUE
    /\ Goto("catch")
    /\ UNCHANGED <<jobV, loopV, hasRun, logV, childV>>

MarkComplete ==
    /\ epc = "complete"
    /\ MarkJob("complete")
    /\ Goto("end")
    /\ UNCHANGED <<loopV, sinkV, runV, childV>> /\ NoFault

\* A statement of the executor fails and is not applied.
ExecError ==
    /\ epc \in {"attach", "check", "recheck", "ended", "closing", "close", "closeAbandoned", "complete"}
    /\ Fault("db")
    /\ Goto("catch")
    /\ UNCHANGED <<jobV, loopV, sinkV, runV, childV>>

\* It is applied, and only the answer is lost.
ExecUnheard ==
    /\ \/ epc = "attach" /\ job = "starting" /\ job' = "running" /\ aged' = FALSE /\ UNCHANGED run
       \/ epc = "closing" /\ MarkJob("closing") /\ UNCHANGED run
       \/ epc \in {"close", "closeAbandoned"} /\ run = "open" /\ run' = "claimed" /\ UNCHANGED jobV
       \/ epc = "complete" /\ MarkJob("complete") /\ UNCHANGED run
    /\ Fault("db")
    /\ Goto("catch")
    /\ UNCHANGED <<loopV, sinkV, logV, childV>>

-----------------------------------------------------------------------------
(* abortIncomplete, and the catch of RunnerExecutor.run. *)

AbortClaim ==
    /\ epc = "abort"
    /\ IF ~closed /\ run = "open"
       THEN run' = "claimed" /\ Goto("abortMark") /\ UNCHANGED closed
       ELSE closed' = TRUE /\ Goto(after) /\ UNCHANGED run
    /\ UNCHANGED <<jobV, loopV, hasRun, logV, childV>> /\ NoFault

AbortMark ==
    /\ epc = "abortMark"
    /\ run' = "incomplete" /\ closed' = TRUE
    /\ Goto(after)
    /\ UNCHANGED <<jobV, loopV, hasRun, logV, childV>> /\ NoFault

\* The claim or the mark fails, or only its answer is lost.  Thrown to the catch; from
\* the catch itself, only logged.
AbortError ==
    /\ Fault("db")
    /\ \/ epc = "abort" /\ ~closed /\ run' \in IF run = "open" THEN {"open", "claimed"} ELSE {run}
       \/ epc = "abortMark" /\ run' \in {"claimed", "incomplete"}
    /\ Goto(IF after = "fail" THEN "fail" ELSE "catch")
    /\ UNCHANGED <<jobV, loopV, sinkV, logV, childV>>

\* Mutated Catch: the run is not closed.
CatchForgets ==
    /\ epc = "catch"
    /\ Goto("fail") /\ UNCHANGED jobV
    /\ UNCHANGED <<loopV, sinkV, runV, childV>> /\ NoFault

\* An opened run that is not closed is aborted first; a failed markClosing is ignored.
Catch ==
    /\ epc = "catch"
    /\ IF hasRun /\ ~closed
       THEN /\ Abort("fail")
            /\ \/ MarkJob("closing") /\ NoFault
               \/ UNCHANGED jobV /\ Fault("db")
       ELSE Goto("fail") /\ UNCHANGED jobV /\ NoFault
    /\ UNCHANGED <<loopV, sinkV, runV, childV>>

MarkFailed ==
    /\ epc = "fail"
    /\ \/ MarkJob("failed") /\ NoFault
       \/ UNCHANGED jobV /\ Fault("db")
    /\ Goto("end")
    /\ UNCHANGED <<loopV, sinkV, runV, childV>>

\* The finally clause, and back to the loop.
EndRun ==
    /\ epc = "end"
    /\ rpc' = [rpc EXCEPT ![owner] = "stale"]
    /\ owner' = NoOne /\ epc' = "idle" /\ after' = "end"
    /\ UNCHANGED <<jobV, stopping, sinkV, runV, childV>> /\ NoFault

-----------------------------------------------------------------------------

\* The worker's sweeper takes a live run that went quiet, and assembles what it has
\* after the claim has committed (see RunLifecycle).
SweepClaim ==
    /\ run = "open"
    /\ run' = IF stored = 0 THEN "incomplete" ELSE "taken"
    /\ UNCHANGED <<jobV, loopV, execV, sinkV, logV, childV>> /\ NoFault

SweepSeal ==
    /\ run = "taken"
    /\ run' \in {"sealed", "incomplete"}
    /\ UNCHANGED <<jobV, loopV, execV, sinkV, logV, childV>> /\ NoFault

Loop(r) == FailStale(r) \/ Retain(r) \/ ClaimNext(r) \/ StartRun(r) \/ Restart(r)
Execute ==
    \/ OpenRun \/ OpenError \/ Attach \/ CheckCancelled \/ Prepare \/ Spawn \/ Drain
    \/ DrainUnseen \/ EndedCancelled \/ Closing \/ SinkClaim \/ SinkSeal \/ SinkSealError \/ SinkEnqueue
    \/ SinkSealAbandoned \/ MarkComplete \/ ExecError \/ ExecUnheard
    \/ AbortClaim \/ AbortMark \/ AbortError \/ Catch \/ MarkFailed \/ EndRun
Gatling == Write \/ Tail \/ TailError \/ TailOverlap \/ OrphanExit

Next ==
    \/ RequestCancel \/ Age \/ SweepClaim \/ SweepSeal
    \/ \E r \in Runners : Loop(r) \/ LoopError(r) \/ Stop(r) \/ Crash(r)
    \/ Execute \/ Gatling \/ HeartbeatAndCheckCancelled \/ ChildExit

Spec == Init /\ [][Next]_vars

\* A runner that is up goes on and one that is down is started again; the executor
\* takes its next step; polls recur; a process that is killed dies.  Nothing is
\* assumed of the simulation, cancel requests, the sweeper or faults.
FairSpec ==
    /\ Spec
    /\ \A r \in Runners : WF_vars(Loop(r))
    /\ WF_vars(Execute) /\ WF_vars(Tail) /\ WF_vars(child = "killed" /\ ChildExit) /\ WF_vars(Age)
    /\ WF_vars(HeartbeatAndCheckCancelled /\ child' # child)

-----------------------------------------------------------------------------
(* Correctness. *)

ExecutorPCs ==
    {"idle", "open", "attach", "check", "prepare", "recheck", "spawn", "wait", "drain", "ended",
     "closing", "close", "closeAbandoned", "seal", "sealAbandoned", "enqueue", "complete", "abort",
     "abortMark", "catch", "fail", "end"}

\* The type of the state.
TypeOK ==
    /\ job \in Active \cup Terminal \cup {"queued", "deleted"} /\ aged \in BOOLEAN
    /\ rpc \in [Runners -> {"stale", "retain", "claim", "claimed", "busy", "down"}]
    /\ stopping \in [Runners -> {"no", "waiting", "closed"}]
    /\ owner \in Runners \cup {NoOne} /\ epc \in ExecutorPCs /\ after \in {"end", "catch", "fail"}
    /\ (owner = NoOne) = (epc = "idle")
    /\ hasRun \in BOOLEAN /\ closed \in BOOLEAN
    /\ run \in {"none", "open", "claimed", "taken", "sealed", "incomplete"}
    /\ stored \in 0..MaxChunks /\ wrote \in 0..MaxChunks /\ torn \in BOOLEAN
    /\ child \in {"none", "alive", "killed", "orphan", "stopped", "exited"}
    /\ exit \in {"none", "finished", "early"} /\ tailFailed \in BOOLEAN
    /\ hurt \in BOOLEAN /\ faults \in 0..MaxFaults

\* A cancelled job is never anything else, whatever its executor still does; a complete
\* one neither, unless its executor never heard of it and fails it; a failed one neither,
\* unless its executor still lives (it was failed as stale, and may still complete).
VerdictStands ==
    [][ \/ job \notin Terminal
        \/ job = "failed" /\ owner # NoOne /\ epc # "end"
        \/ job = "complete" /\ epc \in {"catch", "fail"} /\ job' = "failed"
        \/ job' \in {job, "deleted"} ]_vars

\* A complete job's run is closed, or the sweeper's to close, and has every byte Gatling
\* wrote, whoever closed it and whatever was cancelled, swept or retried on the way,
\* unless the tailer lost some, or counted it twice, without a failure.
CompleteHasAll ==
    job = "complete" => run \in {"taken", "sealed", "incomplete"} /\ 0 < stored /\ (torn \/ stored = wrote)

\* Where nothing failed, an executor that is done leaves no run open, also when its job
\* was cancelled, failed as stale or deleted under it: nobody but the sweeper would
\* close it.
NothingLeftOpen == owner = NoOne /\ ~hurt => run \notin {"open", "claimed"} /\ child # "alive"

\* Every job is claimed and ends, unless its simulation never does, although its
\* runner may die and its last writes may fail.
JobEnds == <>[](job \in Terminal \cup {"deleted"} \/ child = "alive")

\* A cancelled job's Gatling stops, if its runner lives: an orphan is out of reach.
CancelStops == (job = "cancelled") ~> (child \notin {"alive", "killed"})
=============================================================================
