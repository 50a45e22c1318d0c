-------------------------- MODULE RunnerJobProofs ---------------------------
(***************************************************************************)
(* The on-prem runner.  First its job, executor and run, for any number of *)
(* runners; then the tailer that copies the job's log, for any number of   *)
(* flushes, any file and any faults, while no two reads are under way at   *)
(* once.                                                                   *)
(***************************************************************************)
EXTENDS RunnerJob, LogTailer, TLAPS

RunnerPCs == {"stale", "retain", "claim", "claimed", "busy", "down"}
RunStates == {"none", "open", "claimed", "taken", "sealed", "incomplete"}
ChildStates == {"none", "alive", "killed", "orphan", "stopped", "exited"}
Settled   == {"taken", "sealed", "incomplete"}

\* The executor between the opening of the run and its own claim of it; past the last
\* flush; past the test for an empty log.
Opened  == {"attach", "check", "prepare", "recheck", "spawn", "wait", "drain", "ended", "closing",
            "close", "closeAbandoned"}
Drained == {"ended", "closing", "close", "closeAbandoned", "seal", "sealAbandoned", "enqueue", "complete"}
Bytes   == {"close", "closeAbandoned", "seal", "sealAbandoned", "enqueue", "complete"}

Types ==
    /\ job \in Active \cup Terminal \cup {"queued", "deleted"}
    /\ rpc \in [Runners -> RunnerPCs]
    /\ owner \in Runners \cup {NoOne} /\ epc \in ExecutorPCs /\ after \in {"end", "catch", "fail"}
    /\ hasRun \in BOOLEAN /\ closed \in BOOLEAN /\ hurt \in BOOLEAN
    /\ run \in RunStates /\ stored \in Nat /\ wrote \in Nat /\ torn \in BOOLEAN
    /\ child \in ChildStates

\* The job is claimed once: one runner has it, between its claim and its end.
OneExecutor ==
    /\ \A r \in Runners : rpc[r] = "busy" <=> owner = r
    /\ owner = NoOne <=> epc = "idle"
    /\ job = "queued" => owner = NoOne /\ run = "none" /\ closed = FALSE /\ child = "none"
    /\ epc = "open" => run = "none" /\ closed = FALSE
    /\ \A r \in Runners : rpc[r] = "claimed" =>
         /\ owner = NoOne /\ job \notin {"queued", "complete"}
         /\ run = "none" /\ closed = FALSE /\ child = "none"
         /\ \A s \in Runners : rpc[s] = "claimed" => s = r

\* What the executor knows of the run and its log where it stands.
Progress ==
    /\ child \in {"alive", "killed"} => epc = "wait"
    /\ child = "orphan" => epc = "idle" /\ job # "complete"
    /\ epc \in Drained => torn \/ stored = wrote
    /\ epc \in Bytes => stored > 0
    /\ epc \in Opened => run \in {"open"} \cup Settled
    /\ epc \in {"enqueue", "complete"} => closed /\ run \in Settled
    /\ job = "complete" =>
         /\ run \in Settled /\ closed /\ stored > 0 /\ (torn \/ stored = wrote)
         /\ epc \in {"end", "idle", "catch", "fail"}

\* Where nothing failed, the sink knows its run, and whoever claims it settles it.
Tidy ==
    ~hurt =>
      /\ (run = "none") = (hasRun = FALSE)
      /\ run = "claimed" => epc \in {"seal", "sealAbandoned", "abortMark"}
      /\ closed => run \notin {"open", "claimed"}
      /\ epc \in {"fail", "end", "idle"} => run \notin {"open", "claimed"}
      /\ epc \in {"abortMark", "seal", "sealAbandoned"} => run = "claimed"

JobInv == Types /\ OneExecutor /\ Progress /\ Tidy

\* What a runner does around its job, from the claim to a crash, keeps the invariant.
LEMMA LoopKeeps ==
    ASSUME JobInv, NEW r \in Runners, Loop(r) \/ LoopError(r) \/ Stop(r) \/ Crash(r)
    PROVE  JobInv'
<1> USE RunnerAssumption
    DEF JobInv, Types, OneExecutor, Progress, Tidy, RunnerPCs, RunStates, ChildStates, Settled, Opened,
        Drained, Bytes, ExecutorPCs, Active, Terminal, jobV, execV, sinkV, runV, logV, childV, LGoto, NoFault
<1>1. CASE FailStale(r)
  BY <1>1 DEF FailStale
<1>2. CASE Retain(r)
  BY <1>2 DEF Retain
<1>3. CASE ClaimNext(r)
  BY <1>3 DEF ClaimNext
<1>4. CASE StartRun(r)
  BY <1>4 DEF StartRun
<1>5. CASE Restart(r)
  BY <1>5 DEF Restart
<1>6. CASE LoopError(r)
  BY <1>6 DEF LoopError, Fault
<1>7. CASE Stop(r)
  BY <1>7 DEF Stop, CancelJob, Fault
<1>8. CASE Crash(r)
  BY <1>8 DEF Crash, Fault
<1>9. QED
  BY <1>1, <1>2, <1>3, <1>4, <1>5, <1>6, <1>7, <1>8 DEF Loop

\* So does everything that happens to the job from outside of its executor.
LEMMA AroundKeeps ==
    ASSUME JobInv,
           \/ RequestCancel \/ Age \/ SweepClaim \/ SweepSeal \/ Gatling \/ HeartbeatAndCheckCancelled \/ ChildExit
           \/ UNCHANGED vars
    PROVE  JobInv'
<1> USE RunnerAssumption
    DEF JobInv, Types, OneExecutor, Progress, Tidy, RunnerPCs, RunStates, ChildStates, Settled, Opened,
        Drained, Bytes, ExecutorPCs, Active, Terminal, jobV, loopV, execV, sinkV, runV, logV, childV, NoFault
<1>1. CASE RequestCancel
  BY <1>1 DEF RequestCancel, CancelJob
<1>2. CASE Age
  BY <1>2 DEF Age, Fault
<1>3. CASE SweepClaim \/ SweepSeal
  BY <1>3 DEF SweepClaim, SweepSeal
<1>4. CASE Write
  BY <1>4 DEF Write
<1>5. CASE Tail
  BY <1>5 DEF Tail
<1>6. CASE TailError
  BY <1>6 DEF TailError, Fault
<1>7. CASE HeartbeatAndCheckCancelled
  BY <1>7 DEF HeartbeatAndCheckCancelled
<1>8. CASE ChildExit
  BY <1>8 DEF ChildExit, Goto
<1>9. CASE TailOverlap
  <2>1. hurt' = hurt
    BY <1>9 DEF TailOverlap, Fault
  <2>2. /\ stored' \in Nat /\ torn' \in BOOLEAN /\ epc \in {"wait", "drain"}
        /\ UNCHANGED <<jobV, loopV, execV, sinkV, run, child, wrote>>
    BY <1>9 DEF TailOverlap
  <2>3. QED
    BY <2>1, <2>2
<1>10. CASE OrphanExit
  BY <1>10 DEF OrphanExit
<1>11. CASE UNCHANGED vars
  BY <1>11 DEF vars
<1>12. QED
  BY <1>1, <1>2, <1>3, <1>4, <1>5, <1>6, <1>7, <1>8, <1>9, <1>10, <1>11 DEF Gatling

\* And so does each step of the executor, its early returns and its catch included.
LEMMA ExecuteKeeps == ASSUME JobInv, Execute PROVE JobInv'
<1> USE RunnerAssumption
    DEF JobInv, Types, OneExecutor, Progress, Tidy, RunnerPCs, RunStates, ChildStates, Settled, Opened,
        Drained, Bytes, ExecutorPCs, Active, Terminal, jobV, loopV, sinkV, runV, logV, childV, NoFault, Goto, Abort
<1>1. CASE OpenRun \/ OpenError
  <2>1. CASE OpenRun
    <3>1. run' = "open" /\ hasRun' = TRUE /\ epc' = "attach" /\ job # "complete" /\ run' # "none"
      BY <2>1 DEF OpenRun
    <3>2. Types' /\ OneExecutor' /\ Progress'
      BY <2>1 DEF OpenRun
    <3>3. closed' = FALSE
      BY <2>1 DEF OpenRun
    <3>4. QED
      BY <2>1, <3>1, <3>2, <3>3 DEF OpenRun
  <2>2. CASE OpenError
    <3>1. hurt' = TRUE /\ epc' = "catch"
      BY <2>2 DEF OpenError, Fault
    <3>2. QED
      BY <2>2, <3>1 DEF OpenError
  <2>3. QED
    BY <1>1, <2>1, <2>2
<1>2. CASE Attach
  BY <1>2 DEF Attach
<1>3. CASE CheckCancelled \/ Prepare
  BY <1>3 DEF CheckCancelled, Prepare
<1>4. CASE Spawn
  BY <1>4 DEF Spawn
<1>5. CASE Drain
  BY <1>5 DEF Drain
<1>6. CASE EndedCancelled
  BY <1>6 DEF EndedCancelled
<1>7. CASE Closing
  BY <1>7 DEF Closing, MarkJob
<1>8. CASE SinkClaim
  <2>1. CASE run = "open"
    BY <1>8, <2>1 DEF SinkClaim
  <2>2. CASE run # "open"
    <3>1. run \in Settled /\ run' = run /\ closed' = TRUE /\ epc' \in {"complete", "catch"}
      BY <1>8, <2>2 DEF SinkClaim
    <3>2. QED
      BY <1>8, <2>2, <3>1 DEF SinkClaim
  <2>3. QED
    BY <2>1, <2>2
<1>9. CASE SinkSeal \/ SinkSealError
  <2>1. CASE SinkSeal
    BY <2>1 DEF SinkSeal
  <2>2. CASE SinkSealError
    <3>1. hurt' = TRUE /\ epc' = "catch"
      BY <2>2 DEF SinkSealError, Fault
    <3>2. QED
      BY <2>2, <3>1 DEF SinkSealError
  <2>3. QED
    BY <1>9, <2>1, <2>2
<1>10. CASE SinkEnqueue
  BY <1>10 DEF SinkEnqueue, Fault
<1>11. CASE SinkSealAbandoned
  BY <1>11 DEF SinkSealAbandoned, Fault
<1>12. CASE MarkComplete
  BY <1>12 DEF MarkComplete, MarkJob
<1>13. CASE ExecError \/ ExecUnheard \/ DrainUnseen
  <2>1. CASE ExecError
    BY <2>1 DEF ExecError, Fault
  <2>2. CASE ExecUnheard
    <3>1. /\ hurt' = TRUE /\ epc' = "catch" /\ UNCHANGED <<owner, after, rpc, closed, stored, torn, wrote, child>>
          /\ owner # NoOne /\ child \notin {"alive", "killed", "orphan"} /\ run' \in {run, "claimed"}
          /\ hasRun' = hasRun /\ epc \in Opened \cup {"complete"}
      BY <2>2 DEF ExecUnheard, Fault, MarkJob
    <3>2. /\ job' \in Active \cup Terminal \cup {"deleted"}
          /\ job' = "complete" => epc = "complete" /\ run' = run
      BY <2>2 DEF ExecUnheard, MarkJob
    <3>3. QED
      BY <3>1, <3>2
  <2>3. CASE DrainUnseen
    BY <2>3 DEF DrainUnseen, Fault
  <2>4. QED
    BY <1>13, <2>1, <2>2, <2>3
<1>14. CASE AbortClaim
  <2>1. CASE ~closed /\ run = "open"
    BY <1>14, <2>1 DEF AbortClaim
  <2>2. CASE ~(~closed /\ run = "open")
    <3>1. run' = run /\ closed' = TRUE /\ epc' = after /\ epc' \in {"end", "catch", "fail"}
      BY <1>14, <2>2 DEF AbortClaim
    <3>2. ~hurt => run \notin {"open", "claimed"}
      BY <1>14, <2>2 DEF AbortClaim
    <3>3. Types' /\ OneExecutor' /\ Progress'
      <4>1. UNCHANGED <<job, rpc, owner, after, hasRun, hurt, stored, torn, wrote, child>> /\ epc = "abort"
        BY <1>14, <3>1 DEF AbortClaim
      <4>2. QED
        BY <3>1, <4>1
    <3>4. Tidy'
      <4>1. UNCHANGED <<hasRun, hurt, run>> /\ epc = "abort"
        BY <1>14, <3>1 DEF AbortClaim
      <4>2. QED
        BY <3>1, <3>2, <4>1
    <3>5. QED
      BY <3>3, <3>4
  <2>3. QED
    BY <2>1, <2>2
<1>15. CASE AbortMark
  BY <1>15 DEF AbortMark
<1>16. CASE AbortError
  BY <1>16 DEF AbortError, Fault
<1>17. CASE Catch
  BY <1>17 DEF Catch, MarkJob, Fault
<1>18. CASE MarkFailed
  <2>1. hurt' \in BOOLEAN /\ (~hurt' => ~hurt)
    BY <1>18 DEF MarkFailed, Fault
  <2>2. job' \in {job, "failed"}
    BY <1>18 DEF MarkFailed, MarkJob
  <2>3. QED
    BY <1>18, <2>1, <2>2 DEF MarkFailed
<1>19. CASE EndRun
  BY <1>19 DEF EndRun
<1>20. QED
  BY <1>1, <1>2, <1>3, <1>4, <1>5, <1>6, <1>7, <1>8, <1>9, <1>10, <1>11, <1>12, <1>13, <1>14,
     <1>15, <1>16, <1>17, <1>18, <1>19 DEF Execute

\* JobInv is inductive.
LEMMA JobInvariant == Spec => []JobInv
<1>1. Init => JobInv
  <2> SUFFICES ASSUME Init PROVE JobInv
    OBVIOUS
  <2> USE RunnerAssumption DEF Init
  <2>1. Types
    BY DEF Types, RunnerPCs, RunStates, ChildStates, ExecutorPCs, Active, Terminal
  <2>2. OneExecutor
    BY DEF OneExecutor
  <2>3. Progress
    BY DEF Progress, Settled, Opened, Drained, Bytes
  <2>4. Tidy
    BY DEF Tidy
  <2>5. QED
    BY <2>1, <2>2, <2>3, <2>4 DEF JobInv
<1>2. JobInv /\ [Next]_vars => JobInv'
  BY LoopKeeps, AroundKeeps, ExecuteKeeps DEF Next
<1>3. QED
  BY <1>1, <1>2, PTL DEF Spec

\* Whatever is cancelled, swept, stopped or retried, and whatever answer is lost, a job is
\* complete only with a run that is closed or the sweeper's to close, and that holds every
\* byte Gatling wrote unless the tailer lost some, or counted it twice, without a failure:
\* RunnerExecutor.run drains its tailer before it closes, and nobody writes a complete
\* job's run afterwards.
THEOREM CompleteJobHasAll == Spec => []CompleteHasAll
<1>1. JobInv => CompleteHasAll
  BY DEF JobInv, Progress, CompleteHasAll, Settled, Types
<1>2. QED
  BY <1>1, JobInvariant, PTL

\* Where no statement, object or process failed, an executor that is done has closed its
\* run and has no Gatling left, whichever early return or catch it left by.
THEOREM ExecutorCleansUp == Spec => []NothingLeftOpen
<1>1. JobInv => NothingLeftOpen
  BY DEF JobInv, OneExecutor, Progress, Tidy, NothingLeftOpen
<1>2. QED
  BY <1>1, JobInvariant, PTL

\* A cancelled job stays so until it is removed, a complete one unless the one executor
\* that its claim admits never heard of it, and a failed one unless that executor still
\* lives: every other write of the row is guarded.
THEOREM VerdictsStand == Spec => VerdictStands
<1> DEFINE Stands == \/ job \notin Terminal
                     \/ job = "failed" /\ owner # NoOne /\ epc # "end"
                     \/ job = "complete" /\ epc \in {"catch", "fail"} /\ job' = "failed"
                     \/ job' \in {job, "deleted"}
<1>1. ASSUME JobInv, [Next]_vars PROVE Stands
  <2> USE <1>1, RunnerAssumption DEF JobInv, Types, OneExecutor, Progress, Active, Terminal, jobV, vars
  <2>1. CASE UNCHANGED job
    BY <2>1
  <2>2. ASSUME NEW r \in Runners, Loop(r) \/ LoopError(r) \/ Stop(r) \/ Crash(r) PROVE Stands
    <3>1. CASE FailStale(r)
      BY <3>1 DEF FailStale
    <3>2. CASE Retain(r)
      BY <3>2 DEF Retain
    <3>3. CASE ClaimNext(r)
      BY <3>3 DEF ClaimNext
    <3>4. CASE Stop(r)
      BY <3>4 DEF Stop, CancelJob
    <3>5. CASE StartRun(r) \/ Restart(r) \/ LoopError(r) \/ Crash(r)
      BY <3>5 DEF StartRun, Restart, LoopError, Crash
    <3>6. QED
      BY <2>2, <3>1, <3>2, <3>3, <3>4, <3>5 DEF Loop
  <2>3. CASE RequestCancel \/ Age \/ SweepClaim \/ SweepSeal \/ Gatling \/ HeartbeatAndCheckCancelled \/ ChildExit
    <3>1. CASE RequestCancel
      BY <3>1 DEF RequestCancel, CancelJob
    <3>2. CASE Age \/ SweepClaim \/ SweepSeal \/ HeartbeatAndCheckCancelled \/ ChildExit
      BY <3>2 DEF Age, SweepClaim, SweepSeal, HeartbeatAndCheckCancelled, ChildExit
    <3>3. CASE Gatling
      BY <3>3 DEF Gatling, Write, Tail, TailError, TailOverlap, OrphanExit
    <3>4. QED
      BY <2>3, <3>1, <3>2, <3>3
  <2>4. CASE Attach
    BY <2>4 DEF Attach
  <2>5. CASE Closing \/ MarkComplete \/ ExecUnheard \/ Catch \/ MarkFailed
    <3>1. owner # NoOne /\ epc \notin {"end", "idle"}
      BY <2>5 DEF Closing, MarkComplete, ExecUnheard, Catch, MarkFailed
    <3>2. job' = job \/ job \notin {"cancelled", "deleted"}
      BY <2>5 DEF Closing, MarkComplete, ExecUnheard, Catch, MarkFailed, MarkJob
    <3>3. ASSUME job = "complete" PROVE job' = job \/ (epc = "fail" /\ job' = "failed")
      <4>1. epc \in {"catch", "fail"} /\ closed
        BY <3>1, <3>3
      <4>2. QED
        BY <2>5, <4>1 DEF Closing, MarkComplete, ExecUnheard, Catch, MarkFailed, MarkJob
    <3>4. QED
      BY <3>1, <3>2, <3>3
  <2>6. ASSUME Execute
        PROVE  \/ UNCHANGED job \/ Attach \/ Closing \/ MarkComplete \/ ExecUnheard \/ Catch
               \/ MarkFailed
    BY <2>6 DEF Execute, OpenRun, OpenError, CheckCancelled, Prepare, Spawn, Drain, DrainUnseen, EndedCancelled,
                SinkClaim, SinkSeal, SinkSealError, SinkEnqueue, SinkSealAbandoned, ExecError,
                AbortClaim, AbortMark, AbortError, EndRun
  <2>7. QED
    BY <2>1, <2>2, <2>3, <2>4, <2>5, <2>6 DEF Next
<1>2. JobInv /\ [Next]_vars => [Stands]_vars
  BY <1>1
<1>3. QED
  BY <1>2, JobInvariant, PTL DEF Spec, VerdictStands

-----------------------------------------------------------------------------
(* The tailer. *)


\* A read failed: the tailer or stop() has told, and nobody reads any more.
Dead == failure # "none" \/ result = "failed"

\* The sink stands where the row does, until a failure; the tailer there or before, where
\* it looked for the file again.
Offsets ==
    /\ size \in Sizes /\ cursor \in Nat /\ cursor <= size
    /\ tOffset \in Nat /\ tOffset <= cursor /\ sOffset \in Nat
    /\ ~Dead => sOffset = cursor
    /\ chunk \in [0..MaxBytes -> Nat]
    /\ foff \in [Calls -> Nat] /\ fend \in [Calls -> Nat] /\ raw \in [Calls -> Nat]
    /\ key \in [Calls -> Nat] /\ len \in [Calls -> Nat] /\ exp \in [Calls -> Nat]

\* One call reads, and it is the one that all the others wait for.
OneReader ==
    /\ reading \in Calls \cup {None}
    /\ fpc \in [Calls -> {"free", "wait"} \cup Reading] /\ waitOn \in [Calls -> Calls \cup {None}]
    /\ \A f \in Calls : fpc[f] \in Reading <=> reading = f
    /\ \A f \in Calls : fpc[f] = "wait" => reading # None /\ waitOn[f] = reading
    /\ Dead => reading = None

\* Where the reader is in the file, and the piece that it has in hand.
Pieces ==
    \A f \in Calls :
        /\ fpc[f] \in {"chunk", "put", "advance"} =>
              foff[f] = tOffset /\ foff[f] <= fend[f] /\ fend[f] <= size
        /\ fpc[f] \in {"put", "advance"} =>
              /\ len[f] > 0 /\ foff[f] + raw[f] = cursor + len[f] /\ foff[f] + raw[f] <= fend[f]
              /\ key[f] = cursor
        /\ fpc[f] = "advance" => exp[f] = cursor /\ chunk[cursor] = len[f]

\* The flush of stop(): it reads the whole file if it finds it, nobody waits for it, and
\* nothing goes on after its answer.
Stopping ==
    /\ fpc[StopFlush] # "free" => result = "stopping"
    /\ result # "none" => ended /\ ~timer
    /\ fpc[StopFlush] \in Reading => \A g \in Calls : fpc[g] # "wait"
    /\ fpc[StopFlush] \in {"chunk", "put", "advance"} => fend[StopFlush] = size
    /\ result = "ok" => failure = "none" /\ (unseen \/ cursor = size) /\ \A f \in Calls : fpc[f] = "free"

\* The chunks hold the bytes below the cursor once, and one more only while it is
\* being accepted or after a failure.
Pieced ==
    /\ \A b \in 0..(MaxBytes - 1) :
         b < cursor => \E o \in 0..b : b < o + chunk[o] /\ (\A p \in 0..b : b < p + chunk[p] => p = o)
    /\ \A o \in 0..MaxBytes : chunk[o] > 0 => o <= cursor /\ (o < cursor => o + chunk[o] <= cursor)
    /\ chunk[cursor] > 0 => Dead \/ \E f \in Calls : fpc[f] = "advance"

\* What holds as long as one read at a time was under way.
InStep == Offsets /\ OneReader /\ Pieces /\ Stopping /\ Pieced

\* A read that ends lets one waiting call read, or none: if it let two, they overlap.
LEMMA DoneKeeps ==
    ASSUME InStep, ~overlap', NEW f \in Calls, fpc[f] \in Reading, ReadDone(f), UNCHANGED <<waitOn, failure>>
    PROVE  /\ OneReader'
           /\ \A g \in Calls : fpc'[g] \in {"free", "stat"}
           /\ fpc'[StopFlush] # "free" => fpc[StopFlush] = "wait" /\ result' = result
           /\ f = StopFlush => \A g \in Calls : fpc'[g] = "free"
           /\ result' # result => f = StopFlush /\ result' = "ok"
           /\ failure = "none"
<1> DEFINE W == {g \in Calls : fpc[g] = "wait" /\ waitOn[g] = f}
<1>1. /\ reading = f /\ f # None /\ StopFlush \in Calls /\ None \notin Calls
      /\ \A g \in Calls : g # f => fpc[g] \in {"free", "wait"}
      /\ \A g \in Calls : fpc[g] = "wait" => g \in W
      /\ f \notin W /\ W \subseteq Calls
      /\ failure = "none" /\ result # "failed"
  BY TailerAssumption DEF InStep, OneReader, Calls, Reading, Dead
<1>2. result' = IF f = StopFlush THEN "ok" ELSE result
  BY <1>1 DEF ReadDone
<1>3. f = StopFlush => W = {}
  BY <1>1 DEF InStep, Stopping
<1>4. /\ fpc' = [g \in Calls |-> IF g \in W THEN "stat" ELSE Set(fpc, f, "free")[g]]
      /\ reading' \in IF W = {} THEN {None} ELSE W
      /\ overlap' = (overlap \/ \E g, h \in Calls : g # h /\ {fpc'[g], fpc'[h]} \subseteq Reading)
  BY <1>1 DEF ReadDone, BeginReads
<1>5. \A g \in Calls : fpc'[g] = IF g \in W THEN "stat" ELSE "free"
  BY <1>1, <1>4 DEF Set, InStep, OneReader
<1>6. ASSUME NEW g \in W, NEW h \in W PROVE g = h
  <2> SUFFICES ASSUME g # h PROVE FALSE
    OBVIOUS
  <2>1. {fpc'[g], fpc'[h]} \subseteq Reading /\ g \in Calls /\ h \in Calls
    BY <1>5 DEF Reading
  <2> QED
    BY <1>4, <2>1
<1>7. OneReader'
  <2>1. reading' \in Calls \cup {None} /\ \A g \in Calls : g \in W <=> reading' = g
    BY <1>1, <1>4, <1>6
  <2>2. fpc' \in [Calls -> {"free", "wait"} \cup Reading]
    BY <1>4, <1>5 DEF Reading
  <2>3. ~Dead'
    BY <1>1, <1>2 DEF Dead
  <2> QED
    BY <1>5, <2>1, <2>2, <2>3 DEF OneReader, InStep, Reading
<1> QED
  BY <1>1, <1>2, <1>3, <1>5, <1>7 DEF Reading

\* A piece that the cursor counts is the next one of the chunks.
LEMMA PieceCounted ==
    ASSUME InStep, NEW f \in Calls, fpc[f] = "advance", cursor' = cursor + len[f], UNCHANGED chunk
    PROVE  /\ cursor' \in Nat /\ cursor < cursor' /\ cursor' <= fend[f] /\ fend[f] <= size
           /\ \A b \in 0..(MaxBytes - 1) :
                b < cursor' => \E o \in 0..b : b < o + chunk[o] /\ (\A p \in 0..b : b < p + chunk[p] => p = o)
           /\ \A o \in 0..MaxBytes : chunk[o] > 0 => o < cursor' /\ o + chunk[o] <= cursor'
           /\ ~(chunk[cursor'] > 0)
<1>1. /\ len[f] \in Nat /\ len[f] > 0 /\ chunk[cursor] = len[f] /\ MaxBytes \in Nat
      /\ cursor + len[f] <= fend[f] /\ fend[f] <= size /\ fend[f] \in Nat
      /\ cursor \in Nat /\ size \in Nat /\ size <= MaxBytes
  BY TailerAssumption DEF InStep, Pieces, Offsets, Sizes
<1>2. cursor' \in Nat /\ cursor' <= size /\ cursor < cursor' /\ cursor' <= fend[f]
  BY <1>1
<1>3. /\ \A o \in 0..MaxBytes : chunk[o] \in Nat
      /\ \A o \in 0..MaxBytes : chunk[o] > 0 => o <= cursor /\ (o < cursor => o + chunk[o] <= cursor)
  BY DEF InStep, Offsets, Pieced
<1>4. ASSUME NEW b \in 0..(MaxBytes - 1), b < cursor'
      PROVE  \E o \in 0..b : b < o + chunk[o] /\ (\A p \in 0..b : b < p + chunk[p] => p = o)
  <2>1. CASE b < cursor
    BY <2>1 DEF InStep, Pieced
  <2>2. CASE ~(b < cursor)
    <3>1. cursor \in 0..b /\ b < cursor + chunk[cursor]
      BY <1>1, <1>4, <2>2
    <3>2. ASSUME NEW p \in 0..b, b < p + chunk[p] PROVE p = cursor
      <4>1. p \in 0..MaxBytes /\ chunk[p] \in Nat /\ b \in Nat /\ p <= b
        BY <1>1, <1>3
      <4>2. chunk[p] > 0
        BY <3>2, <4>1
      <4> QED
        BY <1>1, <1>3, <2>2, <3>2, <4>1, <4>2
    <3> QED
      BY <3>1, <3>2
  <2> QED
    BY <2>1, <2>2
<1>5. ASSUME NEW o \in 0..MaxBytes, chunk[o] > 0 PROVE o < cursor' /\ o + chunk[o] <= cursor'
  BY <1>1, <1>2, <1>3, <1>5
<1>6. ~(chunk[cursor'] > 0)
  <2>1. cursor' \in 0..MaxBytes
    BY <1>1, <1>2
  <2> QED
    BY <1>2, <1>5, <2>1
<1> QED
  BY <1>1, <1>2, <1>4, <1>5, <1>6

\* A read that fails ends with all who wait for it, and one of them tells.
LEMMA FailureKeeps ==
    ASSUME InStep, NEW f \in Calls, fpc[f] \in Reading, NEW err, err # "none", ReadFails(f, err),
           cursor' = cursor \/ (fpc[f] = "advance" /\ cursor' = cursor + len[f]),
           UNCHANGED <<size, ended, tOffset, sOffset, chunk, readV, unseen>>
    PROVE  InStep'
<1> USE DEF readV
<1> DEFINE R == {f} \cup {g \in Calls : fpc[g] = "wait" /\ waitOn[g] = f}
<1>1. /\ reading = f /\ StopFlush \in Calls /\ None \notin Calls
      /\ \A g \in Calls : g \notin R => fpc[g] = "free"
  BY TailerAssumption DEF InStep, OneReader, Calls, Reading
<1>2. /\ fpc' = [g \in Calls |-> IF g \in R THEN "free" ELSE fpc[g]] /\ reading' = None
      /\ result' = IF StopFlush \in R THEN "failed" ELSE result
      /\ IF R \cap Flushes # {} THEN Remember(err) ELSE UNCHANGED <<failure, timer>>
  BY DEF ReadFails
<1>3. /\ \A g \in Calls : fpc'[g] = "free"
      /\ failure' \in {failure, err}
      /\ timer' => timer
  BY <1>1, <1>2 DEF Remember
<1>4. Dead'
  <2>1. CASE f \in Flushes
    BY <1>2, <2>1 DEF Remember, Dead
  <2>2. CASE f = StopFlush
    BY <1>2, <2>2 DEF Dead
  <2> QED
    BY <2>1, <2>2 DEF Calls
<1>5. cursor' \in Nat /\ cursor <= cursor' /\ cursor' <= size
  <2>1. cursor \in Nat /\ size \in Nat /\ cursor <= size /\ fend[f] \in Nat
    BY TailerAssumption DEF InStep, Offsets, Sizes
  <2>2. CASE cursor' = cursor
    BY <2>1, <2>2
  <2>3. CASE fpc[f] = "advance" /\ cursor' = cursor + len[f]
    BY <2>1, <2>3, PieceCounted
  <2> QED
    BY <2>2, <2>3
<1>6. Offsets'
  BY <1>4, <1>5 DEF InStep, Offsets
<1>7. OneReader'
  BY <1>1, <1>2, <1>3 DEF InStep, OneReader, Reading
<1>8. Pieces'
  BY <1>3 DEF Pieces
<1>9. Stopping'
  <2>1. result' # result => fpc[StopFlush] # "free" /\ result' = "failed"
    BY <1>1, <1>2, <1>3 DEF Reading
  <2>2. result # "ok"
    BY DEF InStep, Stopping, Reading
  <2> QED
    BY <1>1, <1>3, <2>1, <2>2 DEF InStep, Stopping, Reading
<1>10. Pieced'
  <2>1. CASE cursor' = cursor
    BY <1>4, <2>1 DEF InStep, Pieced
  <2>2. CASE fpc[f] = "advance" /\ cursor' = cursor + len[f]
    BY <1>4, <2>2, PieceCounted DEF Pieced
  <2> QED
    BY <2>1, <2>2
<1> QED
  BY <1>6, <1>7, <1>8, <1>9, <1>10 DEF InStep

\* The file grows and ends, and the run may be closed by others.
LEMMA OutsideKeeps == ASSUME InStep, Grow \/ GatlingEnds \/ RunSwept PROVE InStep'
<1> USE DEF InStep, fileV, tailV, readV, streamV
<1>1. CASE Grow
  <2>1. /\ size' = size + 1 /\ size' \in Sizes /\ result = "none" /\ fpc[StopFlush] = "free"
        /\ UNCHANGED <<ended, tailV, fpc, readV, sOffset, streamV, unseen>>
    BY <1>1, TailerAssumption DEF Grow, Stopping, Offsets, Sizes
  <2>2. Offsets' /\ OneReader'
    BY <2>1, TailerAssumption DEF Offsets, OneReader, Dead, Sizes
  <2>3. Pieces'
    BY <2>1, TailerAssumption DEF Pieces, Offsets, Sizes
  <2>4. Stopping' /\ Pieced'
    BY <2>1 DEF Stopping, Pieced, Reading, Dead
  <2> QED
    BY <2>1, <2>2, <2>3, <2>4
<1>2. CASE GatlingEnds
  BY <1>2 DEF GatlingEnds, Offsets, OneReader, Pieces, Stopping, Pieced, Dead
<1>3. CASE RunSwept
  BY <1>3 DEF RunSwept, Offsets, OneReader, Pieces, Stopping, Pieced, Dead
<1> QED
  BY <1>1, <1>2, <1>3

\* A flush that begins waits for the reader, or is the reader.
LEMMA BeginKeeps ==
    ASSUME InStep, NEW f \in Calls, FlushBegin(f), UNCHANGED failure, result # "failed", result' # "failed"
    PROVE  /\ OneReader' /\ fpc'[f] \in {"wait", "stat"}
           /\ \A g \in Calls : g # f => fpc'[g] = fpc[g]
           /\ fpc'[f] = "stat" => \A g \in Calls : fpc'[g] # "wait"
           /\ \A g \in Calls : fpc[g] = "advance" => fpc'[g] = "advance"
<1>1. /\ fpc[f] = "free" /\ f # None /\ None \notin Calls
      /\ ~Dead /\ ~Dead'
  BY TailerAssumption DEF FlushBegin, Calls, Dead
<1>2. CASE reading # None
  BY <1>1, <1>2 DEF FlushBegin, Set, InStep, OneReader, Reading
<1>3. CASE reading = None
  <2>1. \A g \in Calls : fpc[g] = "free"
    BY <1>1, <1>3 DEF InStep, OneReader, Reading
  <2>2. fpc' = [g \in Calls |-> IF g \in {f} THEN "stat" ELSE fpc[g]] /\ reading' = f /\ UNCHANGED waitOn
    BY <1>3 DEF FlushBegin, BeginReads
  <2> QED
    BY <1>1, <2>1, <2>2 DEF InStep, OneReader, Reading
<1> QED
  BY <1>2, <1>3

\* The timer's flush begins; stop() has not been called.
LEMMA TickKeeps == ASSUME InStep, NEW f \in Calls, Tick(f) PROVE InStep'
<1>1. /\ f # StopFlush /\ timer /\ StopFlush \in Calls /\ fpc[f] = "free"
      /\ UNCHANGED <<fileV, timer, tOffset, failure, result, sOffset, streamV, unseen>>
      /\ UNCHANGED <<foff, fend, raw, key, len, exp>>
  BY TailerAssumption DEF Tick, FlushBegin, Calls
<1>2. result = "none"
  BY <1>1 DEF InStep, Stopping
<1>3. /\ OneReader' /\ fpc'[f] \in {"wait", "stat"} /\ \A g \in Calls : g # f => fpc'[g] = fpc[g]
      /\ \A g \in Calls : fpc[g] = "advance" => fpc'[g] = "advance"
  BY <1>1, <1>2, BeginKeeps DEF Tick
<1>4. fpc[StopFlush] = "free" /\ fpc'[StopFlush] = "free"
  BY <1>1, <1>2, <1>3 DEF InStep, Stopping
<1>5. Offsets'
  BY <1>1 DEF InStep, Offsets, Dead, fileV, streamV
<1>6. Pieces'
  BY <1>1, <1>3 DEF InStep, Pieces, fileV, streamV
<1>7. Stopping'
  BY <1>1, <1>2, <1>4 DEF Stopping, Reading
<1>8. Pieced'
  BY <1>1, <1>3 DEF InStep, Pieced, Dead, streamV
<1> QED
  BY <1>3, <1>5, <1>6, <1>7, <1>8 DEF InStep

\* stop() ends the timer and begins its own flush, or answers with the failure.
LEMMA StopKeeps == ASSUME InStep, StopTailer PROVE InStep'
<1>1. /\ ended /\ result = "none" /\ timer' = FALSE /\ StopFlush \in Calls /\ fpc[StopFlush] = "free"
      /\ UNCHANGED <<fileV, tOffset, failure, foff, fend, raw, key, len, exp, sOffset, streamV, unseen>>
  BY DEF StopTailer, InStep, Stopping, Calls
<1>2. CASE failure # "none"
  BY <1>1, <1>2 DEF StopTailer, InStep, Offsets, OneReader, Pieces, Stopping, Pieced, Dead, fileV, streamV
<1>3. CASE failure = "none"
  <2>1. /\ result' = "stopping" /\ OneReader' /\ fpc'[StopFlush] \in {"wait", "stat"}
        /\ \A g \in Calls : g # StopFlush => fpc'[g] = fpc[g]
        /\ fpc'[StopFlush] = "stat" => \A g \in Calls : fpc'[g] # "wait"
        /\ \A g \in Calls : fpc[g] = "advance" => fpc'[g] = "advance"
    BY <1>1, <1>3, BeginKeeps DEF StopTailer
  <2>2. Offsets'
    BY <1>1, <1>3, <2>1 DEF InStep, Offsets, Dead, fileV, streamV
  <2>3. Pieces'
    BY <1>1, <2>1 DEF InStep, Pieces, fileV, streamV
  <2>4. Stopping'
    BY <1>1, <2>1 DEF Stopping, Reading, fileV
  <2>5. Pieced'
    BY <1>1, <1>3, <2>1 DEF InStep, Pieced, Dead, streamV
  <2> QED
    BY <2>1, <2>2, <2>3, <2>4, <2>5 DEF InStep
<1> QED
  BY <1>2, <1>3

\* The reader is alone, and nothing has failed: no other call is at a step of the read.
LEMMA Alone ==
    ASSUME InStep, NEW f \in Calls, fpc[f] \in Reading
    PROVE  /\ \A g \in Calls : g # f => fpc[g] \in {"free", "wait"}
           /\ size \in Nat /\ cursor \in Nat /\ cursor <= size /\ size <= MaxBytes /\ MaxBytes \in Nat
           /\ tOffset \in Nat /\ tOffset <= cursor /\ sOffset = cursor
           /\ ~Dead /\ result # "ok" /\ StopFlush \in Calls
<1>1. reading = f /\ f # None /\ StopFlush \in Calls
  BY TailerAssumption DEF InStep, OneReader, Calls
<1>2. ~Dead /\ \A g \in Calls : g # f => fpc[g] \in {"free", "wait"}
  BY <1>1 DEF InStep, OneReader, Reading
<1> QED
  BY <1>1, <1>2, TailerAssumption DEF InStep, Offsets, Stopping, Reading, Sizes

\* A read that ends leaves the row and the chunks; if it is the last and found the file,
\* it has read all of it.
LEMMA EndKeeps ==
    ASSUME InStep, ~overlap', NEW f \in Calls, fpc[f] \in Reading, fpc[f] # "advance",
           ReadDone(f), f = StopFlush => unseen' \/ cursor = size, tOffset' \in {0, tOffset},
           UNCHANGED <<fileV, timer, failure, readV, sOffset, streamV>>
    PROVE  InStep'
<1>1. /\ OneReader' /\ StopFlush \in Calls
      /\ \A g \in Calls : fpc'[g] \in {"free", "stat"}
      /\ fpc'[StopFlush] # "free" => fpc[StopFlush] = "wait" /\ result' = result
      /\ f = StopFlush => \A g \in Calls : fpc'[g] = "free"
      /\ result' # result => f = StopFlush /\ result' = "ok"
      /\ failure = "none"
  BY DoneKeeps DEF readV, Calls
<1>2. /\ ~Dead /\ ~Dead' /\ result # "ok" /\ sOffset = cursor /\ tOffset \in Nat /\ tOffset <= cursor
      /\ \A g \in Calls : g # f => fpc[g] \notin Reading
  BY <1>1, Alone DEF Dead, Reading
<1>3. Offsets'
  <2>1. tOffset' \in Nat /\ tOffset' <= cursor
    BY <1>2, Alone
  <2> QED
    BY <1>2, <2>1 DEF InStep, Offsets, fileV, readV, streamV
<1>4. Pieces'
  BY <1>1 DEF Pieces
<1>5. Stopping'
  BY <1>1, <1>2 DEF InStep, Stopping, Reading, fileV, streamV
<1>6. Pieced'
  <2>1. ~(chunk[cursor] > 0)
    BY <1>2 DEF InStep, Pieced, Reading
  <2> QED
    BY <2>1 DEF InStep, Pieced, streamV
<1> QED
  BY <1>1, <1>3, <1>4, <1>5, <1>6 DEF InStep

\* Without a file the read ends, and the tailer starts over the next time.
LEMMA NoFileKeeps == ASSUME InStep, ~overlap', NEW f \in Calls, NoFile(f) PROVE InStep'
BY EndKeeps DEF NoFile, Reading

\* The read goes from the tailer's offset to the size that stat tells.
LEMMA StatKeeps == ASSUME InStep, ~overlap', NEW f \in Calls, Stat(f) PROVE InStep'
<1> USE DEF fileV, readV, streamV
<1>1. /\ fpc[f] = "stat" /\ fpc[f] \in Reading
      /\ tOffset <= cursor /\ tOffset' = tOffset
      /\ UNCHANGED <<fileV, timer, failure, waitOn, raw, key, len, exp, sOffset, streamV>>
  <2>1. fpc[f] = "stat" /\ fpc[f] \in Reading
    BY DEF Stat, Reading
  <2>2. tOffset <= cursor /\ ~(size < tOffset)
    BY <2>1, Alone
  <2> QED
    BY <2>1, <2>2 DEF Stat
<1>2. CASE size = tOffset
  <2>1. cursor = size
    BY <1>1, <1>2, Alone
  <2> QED
    BY <1>1, <1>2, <2>1, EndKeeps DEF Stat
<1>3. CASE size # tOffset
  <2>1. /\ fpc' = Set(fpc, f, "chunk") /\ foff' = Set(foff, f, tOffset) /\ fend' = Set(fend, f, size)
        /\ UNCHANGED <<reading, result>>
    BY <1>1, <1>3 DEF Stat
  <2>2. /\ fpc'[f] = "chunk" /\ foff'[f] = tOffset /\ fend'[f] = size
        /\ \A g \in Calls : g # f => fpc'[g] = fpc[g] /\ foff'[g] = foff[g] /\ fend'[g] = fend[g]
    BY <2>1 DEF Set, InStep, OneReader, Offsets
  <2>3. Offsets'
    BY <1>1, <2>1, Alone DEF Set, InStep, Offsets, Dead
  <2>4. OneReader'
    BY <1>1, <2>1, <2>2 DEF Set, InStep, OneReader, Reading, Dead
  <2>5. Pieces'
    BY <1>1, <2>2, Alone DEF InStep, Pieces
  <2>6. Stopping'
    BY <1>1, <2>1, <2>2, Alone DEF InStep, Stopping, Reading
  <2>7. Pieced'
    BY <1>1, <2>1, <2>2, Alone DEF InStep, Pieced, Reading, Dead
  <2> QED
    BY <1>1, <2>3, <2>4, <2>5, <2>6, <2>7 DEF InStep
<1> QED
  BY <1>2, <1>3

\* At the end of the stream the tailer is at the size it was told.
LEMMA StreamEndKeeps == ASSUME InStep, ~overlap', NEW f \in Calls, StreamEnd(f) PROVE InStep'
<1>1. fpc[f] = "chunk" /\ fpc[f] \in Reading /\ foff[f] = fend[f] /\ ReadDone(f)
  BY DEF StreamEnd, Reading
<1>2. f = StopFlush => cursor = size
  <2>1. foff[f] = tOffset /\ fend[f] <= size /\ fend[f] \in Nat
    BY <1>1 DEF InStep, Pieces, Offsets
  <2>2. f = StopFlush => fend[f] = size
    BY <1>1 DEF InStep, Stopping
  <2> QED
    BY <1>1, <2>1, <2>2, Alone
<1> QED
  BY <1>1, <1>2, EndKeeps DEF StreamEnd

\* The bytes that reach the sink are the next ones, or known to it: there is no gap.
LEMMA ChunkKeeps ==
    ASSUME InStep, NEW f \in Calls, NEW n \in 1..MaxBytes, Chunk(f, n) PROVE InStep'
<1> USE DEF fileV, streamV
<1> DEFINE known == IF foff[f] < sOffset THEN sOffset - foff[f] ELSE 0
<1>1. /\ fpc[f] = "chunk" /\ fpc[f] \in Reading /\ foff[f] + n <= fend[f] /\ fend[f] <= size
      /\ foff[f] = tOffset /\ fend[f] \in Nat /\ n \in Nat /\ n > 0
      /\ UNCHANGED <<fileV, waitOn, fend, exp, sOffset, streamV, unseen>>
  <2>1. /\ fpc[f] = "chunk" /\ fpc[f] \in Reading /\ foff[f] + n <= fend[f]
        /\ UNCHANGED <<fileV, waitOn, fend, exp, sOffset, streamV, unseen>>
    BY DEF Chunk, Reading
  <2>2. foff[f] = tOffset /\ fend[f] <= size /\ fend[f] \in Nat
    BY <2>1 DEF InStep, Pieces, Offsets
  <2>3. n \in Nat /\ n > 0
    BY TailerAssumption
  <2> QED
    BY <2>1, <2>2, <2>3
<1>2. known \in Nat /\ foff[f] + known = cursor /\ ~(foff[f] > sOffset)
  BY <1>1, Alone
<1>3. CASE known >= n
  <2>1. /\ tOffset' = tOffset + n /\ foff' = Set(foff, f, foff[f] + n)
        /\ UNCHANGED <<fpc, reading, failure, timer, result, raw, key, len>>
    BY <1>1, <1>2, <1>3 DEF Chunk
  <2>2. /\ tOffset' \in Nat /\ tOffset' <= cursor /\ foff'[f] = tOffset' /\ foff'[f] <= fend[f]
        /\ \A g \in Calls : g # f => foff'[g] = foff[g]
    BY <1>1, <1>2, <1>3, <2>1, Alone DEF Set, InStep, Offsets
  <2>3. Offsets'
    BY <1>1, <2>1, <2>2 DEF Set, InStep, Offsets, Dead
  <2>4. OneReader'
    BY <1>1, <2>1 DEF InStep, OneReader, Dead
  <2>5. Pieces'
    BY <1>1, <2>1, <2>2, Alone DEF InStep, Pieces
  <2>6. Stopping'
    BY <1>1, <2>1 DEF InStep, Stopping
  <2>7. Pieced'
    BY <1>1, <2>1 DEF InStep, Pieced, Dead
  <2> QED
    BY <2>3, <2>4, <2>5, <2>6, <2>7 DEF InStep
<1>4. CASE ~(known >= n)
  <2>1. /\ fpc' = Set(fpc, f, "put") /\ raw' = Set(raw, f, n) /\ len' = Set(len, f, n - known)
        /\ key' = Set(key, f, cursor)
        /\ UNCHANGED <<tOffset, foff, reading, failure, timer, result>>
    BY <1>1, <1>2, <1>4, Alone DEF Chunk
  <2>2. /\ fpc'[f] = "put" /\ raw'[f] = n /\ len'[f] = n - known /\ key'[f] = cursor
        /\ \A g \in Calls : g # f => fpc'[g] = fpc[g]
    BY <2>1 DEF Set, InStep, OneReader, Offsets
  <2>3. n - known \in Nat /\ n - known > 0 /\ foff[f] + n = cursor + (n - known)
    BY <1>1, <1>2, <1>4, Alone
  <2>4. Offsets'
    BY <1>1, <2>1, <2>3, Alone DEF Set, InStep, Offsets, Dead
  <2>5. OneReader'
    BY <1>1, <2>1, <2>2 DEF Set, InStep, OneReader, Reading, Dead
  <2>6. Pieces'
    BY <1>1, <2>1, <2>2, <2>3, Alone DEF InStep, Pieces
  <2>7. Stopping'
    BY <1>1, <2>1, <2>2, Alone DEF InStep, Stopping, Reading
  <2>8. Pieced'
    BY <1>1, <2>1, <2>2, Alone DEF InStep, Pieced, Dead
  <2> QED
    BY <2>4, <2>5, <2>6, <2>7, <2>8 DEF InStep
<1> QED
  BY <1>3, <1>4

\* The piece is stored past the bytes that the cursor counts.
LEMMA PutKeeps == ASSUME InStep, NEW f \in Calls, Put(f) PROVE InStep'
<1> USE DEF fileV, tailV
<1>1. /\ fpc[f] = "put" /\ fpc[f] \in Reading /\ sOffset = cursor /\ key[f] = cursor /\ len[f] \in Nat
      /\ chunk' = [chunk EXCEPT ![cursor] = len[f]] /\ cursor \in 0..MaxBytes
      /\ exp' = Set(exp, f, cursor) /\ fpc' = Set(fpc, f, "advance")
      /\ UNCHANGED <<fileV, tailV, waitOn, foff, fend, raw, key, len, sOffset, open, cursor, unseen>>
  <2>1. fpc[f] = "put" /\ fpc[f] \in Reading
    BY DEF Put, Reading
  <2>2. cursor \in 0..MaxBytes /\ sOffset = cursor
    BY <2>1, Alone
  <2> QED
    BY <2>1, <2>2 DEF Put, InStep, Pieces, Offsets
<1>2. /\ fpc'[f] = "advance" /\ exp'[f] = cursor /\ chunk'[cursor] = len[f]
      /\ \A g \in Calls : g # f => fpc'[g] = fpc[g]
      /\ \A o \in 0..MaxBytes : o # cursor => chunk'[o] = chunk[o]
  BY <1>1 DEF Set, InStep, OneReader, Offsets
<1>3. Offsets'
  BY <1>1 DEF Set, InStep, Offsets, Dead
<1>4. OneReader'
  BY <1>1, <1>2 DEF Set, InStep, OneReader, Reading, Dead
<1>5. Pieces'
  BY <1>1, <1>2, Alone DEF InStep, Pieces
<1>6. Stopping'
  BY <1>1, <1>2, Alone DEF InStep, Stopping, Reading
<1>7. Pieced'
  <2>1. \A b \in 0..(MaxBytes - 1) : b < cursor => \A p \in 0..b : chunk'[p] = chunk[p]
    BY <1>1, <1>2, Alone
  <2>2. \A b \in 0..(MaxBytes - 1) : b < cursor =>
           \E o \in 0..b : b < o + chunk'[o] /\ (\A p \in 0..b : b < p + chunk'[p] => p = o)
    BY <2>1 DEF InStep, Pieced
  <2>3. \A o \in 0..MaxBytes : chunk'[o] > 0 => o <= cursor /\ (o < cursor => o + chunk'[o] <= cursor)
    BY <1>1, <1>2, Alone DEF InStep, Pieced
  <2> QED
    BY <1>1, <1>2, <2>2, <2>3 DEF Pieced
<1> QED
  BY <1>1, <1>3, <1>4, <1>5, <1>6, <1>7 DEF InStep

\* The compare-and-set finds the cursor where the sink left it, so only a closed run
\* refuses it; accepted, the piece is the next one of the chunks.
LEMMA AdvanceKeeps == ASSUME InStep, NEW f \in Calls, Advance(f) PROVE InStep'
<1> USE DEF fileV
<1>1. /\ fpc[f] = "advance" /\ fpc[f] \in Reading
      /\ exp[f] = cursor /\ tOffset + raw[f] = cursor + len[f] /\ foff[f] = tOffset /\ raw[f] \in Nat
      /\ len[f] \in Nat /\ fend[f] \in Nat
      /\ UNCHANGED <<fileV, waitOn, fend, raw, key, len, exp, open, chunk, unseen>>
  BY DEF Advance, InStep, Pieces, Offsets, Reading
<1>2. CASE ~open
  <2>1. ReadFails(f, "rejected") /\ UNCHANGED <<cursor, sOffset, tOffset, readV>>
    BY <1>1, <1>2 DEF Advance, readV
  <2> QED
    BY <1>1, <2>1, FailureKeeps
<1>3. CASE open
  <2>1. /\ cursor' = cursor + len[f] /\ sOffset' = cursor' /\ tOffset' = cursor'
        /\ foff' = Set(foff, f, cursor') /\ fpc' = Set(fpc, f, "chunk")
        /\ UNCHANGED <<reading, failure, timer, result>>
    BY <1>1, <1>3, Alone DEF Advance
  <2>2. /\ cursor' \in Nat /\ cursor' <= fend[f] /\ fend[f] <= size /\ cursor' <= size /\ cursor < cursor'
        /\ \A b \in 0..(MaxBytes - 1) :
             b < cursor' => \E o \in 0..b : b < o + chunk[o] /\ (\A p \in 0..b : b < p + chunk[p] => p = o)
        /\ \A o \in 0..MaxBytes : chunk[o] > 0 => o < cursor' /\ o + chunk[o] <= cursor'
        /\ ~(chunk[cursor'] > 0)
    BY <1>1, <2>1, PieceCounted, Alone
  <2>3. /\ fpc'[f] = "chunk" /\ foff'[f] = cursor' /\ \A g \in Calls : g # f => fpc'[g] = fpc[g]
    BY <2>1 DEF Set, InStep, OneReader, Offsets
  <2>4. Offsets'
    BY <1>1, <2>1, <2>2 DEF Set, InStep, Offsets, Dead
  <2>5. OneReader'
    BY <1>1, <2>1, <2>3 DEF Set, InStep, OneReader, Reading, Dead
  <2>6. Pieces'
    BY <1>1, <2>1, <2>2, <2>3, Alone DEF InStep, Pieces
  <2>7. Stopping'
    BY <1>1, <2>1, <2>3, Alone DEF InStep, Stopping, Reading
  <2>8. Pieced'
    BY <1>1, <2>2 DEF Pieced
  <2> QED
    BY <2>4, <2>5, <2>6, <2>7, <2>8 DEF InStep
<1> QED
  BY <1>2, <1>3

\* A failure of the file, the store or the database, after which the row may be ahead.
LEMMA ReadErrorKeeps == ASSUME InStep, NEW f \in Calls, ReadError(f) PROVE InStep'
<1>1. fpc[f] \in Reading /\ ReadFails(f, "error")
  BY DEF ReadError, Reading
<1>2. cursor' = cursor \/ (fpc[f] = "advance" /\ cursor' = cursor + len[f])
  BY DEF ReadError
<1> QED
  BY <1>1, <1>2, FailureKeeps DEF ReadError, fileV, readV

\* That two reads were under way at once is not forgotten.
LEMMA OverlapStays == ASSUME UNCHANGED tailVars \/ TailNext, ~overlap' PROVE ~overlap
<1>1. ASSUME NEW W, NEW pcs, BeginReads(W, pcs) PROVE ~overlap
  BY <1>1 DEF BeginReads
<1>2. ASSUME NEW f, FlushBegin(f) PROVE ~overlap
  BY <1>1, <1>2 DEF FlushBegin
<1>3. ASSUME NEW f, ReadDone(f) PROVE ~overlap
  BY <1>1, <1>3 DEF ReadDone
<1>4. ASSUME NEW f, NEW err, ReadFails(f, err) PROVE ~overlap
  BY <1>4 DEF ReadFails
<1>5. CASE Grow \/ GatlingEnds \/ RunSwept \/ StopTailer \/ UNCHANGED tailVars
  BY <1>2, <1>5 DEF Grow, GatlingEnds, RunSwept, StopTailer, tailVars
<1>6. ASSUME NEW f \in Calls, Tick(f) PROVE ~overlap
  BY <1>2, <1>6 DEF Tick
<1>7. ASSUME NEW f \in Calls, Read(f) PROVE ~overlap
  <2>1. CASE NoFile(f) \/ Stat(f) \/ StreamEnd(f)
    BY <1>3, <2>1 DEF NoFile, Stat, StreamEnd
  <2>2. ASSUME NEW n \in 1..MaxBytes, Chunk(f, n) PROVE ~overlap
    BY <1>4, <2>2 DEF Chunk
  <2>3. CASE Put(f) \/ Advance(f) \/ ReadError(f)
    BY <1>4, <2>3 DEF Put, Advance, ReadError
  <2> QED
    BY <1>7, <2>1, <2>2, <2>3 DEF Read
<1> QED
  BY <1>5, <1>6, <1>7 DEF TailNext

TailInv == ~overlap => InStep

\* InStep holds until two reads overlap.
LEMMA TailInvariant == TailSpec => []TailInv
<1>1. TailInit => TailInv
  <2> SUFFICES ASSUME TailInit PROVE InStep
    BY DEF TailInv
  <2> USE DEF TailInit
  <2>1. Offsets
    BY TailerAssumption DEF Offsets, Sizes
  <2>2. OneReader
    BY TailerAssumption DEF OneReader, Reading, Calls, Dead
  <2>3. Pieces /\ Stopping
    BY DEF Pieces, Stopping, Reading, Calls
  <2>4. Pieced
    BY TailerAssumption DEF Pieced
  <2> QED
    BY <2>1, <2>2, <2>3, <2>4 DEF InStep
<1>2. TailInv /\ [TailNext]_tailVars => TailInv'
  <2> SUFFICES ASSUME TailInv, [TailNext]_tailVars, ~overlap' PROVE InStep'
    BY DEF TailInv
  <2>1. UNCHANGED tailVars \/ TailNext
    OBVIOUS
  <2>2. ~overlap
    BY <2>1, OverlapStays
  <2>3. InStep
    BY <2>2 DEF TailInv
  <2>4. CASE UNCHANGED tailVars
    BY <2>3, <2>4 DEF InStep, Offsets, OneReader, Pieces, Stopping, Pieced, Dead, tailVars, fileV, tailV,
       readV, streamV
  <2>5. ASSUME NEW f \in Calls, Read(f) PROVE InStep'
    BY <2>1, <2>3, <2>5, NoFileKeeps, StatKeeps, StreamEndKeeps, ChunkKeeps, PutKeeps, AdvanceKeeps, ReadErrorKeeps
       DEF Read
  <2> QED
    BY <2>1, <2>3, <2>4, <2>5, OutsideKeeps, TickKeeps, StopKeeps DEF TailNext
<1> QED
  BY <1>1, <1>2, PTL DEF TailSpec

\* stop() answers without an error only when the run holds the file up to its cursor, each
\* byte once, and that is all of it unless the last look did not find the file: the flush of
\* stop() looks after Gatling has ended, waits for the read under way, and skips what the
\* sink knows.
THEOREM StoppedCopiedAll == TailSpec => []StoppedHasAll
<1>1. TailInv => StoppedHasAll
  <2> SUFFICES ASSUME InStep, result = "ok" PROVE Holds(cursor) /\ (unseen \/ cursor = size)
    BY DEF TailInv, StoppedHasAll
  <2>1. /\ unseen \/ cursor = size
        /\ cursor \in 0..MaxBytes /\ chunk \in [0..MaxBytes -> Nat]
        /\ ~Dead /\ \A f \in Calls : fpc[f] # "advance"
    BY TailerAssumption DEF InStep, Stopping, Offsets, Sizes, Dead
  <2>2. ~(chunk[cursor] > 0)
    BY <2>1 DEF InStep, Pieced
  <2>3. \A o \in 0..MaxBytes : chunk[o] > 0 => o + chunk[o] <= cursor
    <3> SUFFICES ASSUME NEW o \in 0..MaxBytes, chunk[o] > 0 PROVE o + chunk[o] <= cursor
      OBVIOUS
    <3>1. o <= cursor /\ o # cursor /\ (o < cursor => o + chunk[o] <= cursor)
      BY <2>2 DEF InStep, Pieced
    <3> QED
      BY <2>1, <3>1
  <2> QED
    BY <2>1, <2>3 DEF Holds, InStep, Pieced
<1> QED
  BY <1>1, TailInvariant, PTL
=============================================================================
