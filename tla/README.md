# A TLA+ model of Vantrix's run ingestion and its on-prem runner

Vantrix collects load-test results. A run reaches it as one uploaded bundle or as a *live* run
whose simulation log is streamed while the test is still going; a worker parses the log, evaluates
the rules, writes the statistics, files the run under its test and later verifies or recomputes what
it wrote; an on-prem runner starts tests from uploaded packages and streams their logs. This
directory models that core. The modules are checked with TLC on small instances; all the invariants
and action properties the runs check, and the refinement of an abstract run, are also proved with
TLAPS, for every instance. Liveness is model-checked only.

All paths below are relative to the repository (`src/` in `PROJECT.json`).

## 1. The system

| Component | State | Operations | Code | Module |
|---|---|---|---|---|
| Run repository | run row: `status`, `stream_offset`, `bundle_sha256`, `abandoned_at`, clocks | guarded UPDATEs: `claimForClose`, `advanceOffset`, `finalizeLive`, `releaseClose`, `markParsing`, `markIncomplete`, `fail` | `packages/persistence/src/repositories/run.ts` | RunLifecycle, LiveStream |
| Upload | bundle object, row, job, idempotency key | `accept`, answer after waiting | `apps/api/src/ingest/ingest.{service,controller}.ts` | UploadRequest, RunLifecycle |
| Terminal waiter | LISTEN session, waiters, reconnect timer | wait, notify, reconnect, recheck, destroy | `apps/api/src/runs/terminal-waiter.ts` | TerminalWaiter |
| Live ingest | chunk objects, cursor | `open`, `stream`, `close` | `apps/api/src/ingest/live.service.ts` | LiveStream, RunLifecycle |
| Chunk store | one object per offset, one assembled log | `put`, `readFrom`, `finalize` | `packages/storage/src/live-chunks.ts` | LiveStream |
| Ingest queue | one BullMQ job per run | add, retry, stalled redelivery, removal | `packages/core/src/ingest-queue.ts`, `apps/worker/src/consumer.ts` | RunLifecycle |
| Pipeline | advisory lock, one attempt | `process`: lock, read, mark, ingest, commit or fail, unlock | `apps/worker/src/pipeline/pipeline.service.ts` | RunLifecycle |
| Test resolution, run numbers | test rows, `next_run_number`, a run's test and number | `resolveTestId`, `attachLiveRunToTest`, `numberRunForTest`, delete of a test | `apps/worker/src/pipeline/{test-resolver,run-number}.ts`, `repositories/test.ts` | TestIdentity |
| Sweeper | none of its own | re-enqueue of stranded runs, assembly of abandoned ones, retention | `apps/worker/src/sweeper.ts` | RunLifecycle, LiveStream, RunEvidence |
| Verification, recomputation | `run_verification` row, two queues | ask, scan, compare, recompute, write back | `apps/worker/src/{verify,recompute}`, `repositories/{verification,recompute}.ts` | RunEvidence |
| Fold owner | owned runs, claims in flight, recently closed | pings, tick, claim, release, publish, shutdown | `apps/worker/src/live/fold-owner.ts` | FoldOwner, LiveStream |
| Runner: jobs | job row, executor | claim, heartbeat, run, cancel, fail stale, remove old, stop | `apps/runner/src/{main,executor,process}.ts`, `repositories/runner.ts` | RunnerJob |
| Runner: tailer and sink | three offsets, reads under way | tick, stop, flush, append, close | `apps/runner/src/{log-tailer,live-sink}.ts` | LogTailer, RunnerJob |
| Packages | package row, versions, files, jobs that use them | create, upload, run, start, retry, delete, retention | `repositories/{package,runner}.ts`, `apps/api/src/runner/` | PackageStore |
| Gradle tailer | next byte, response it waits for | read, send, retry, give up, close | `clients/gatling-gradle` | LiveStream |
| AI analysis | a queue over stored results | enqueue, call, write | `apps/worker/src/ai` | - |
| Live gateway | per-socket replay position | seed, replay, follow | `apps/api/src/live/live.gateway.ts` | - |
| Rules and statistics, log decoder | none | evaluate, summarise, decode | `packages/{sla,statistics,plugin-gatling}` | - |
| Host agent, JVM agent | ring buffer | push, send, retry | `agent/`, `clients/gatling-agent` | - |
| The rest of the API, the web app, contracts | rows | single-statement CRUD, presentation | `apps/api`, `apps/web`, `packages/contracts` | - |

**How they interact.** PostgreSQL is the only shared memory. Every status change is one UPDATE whose
WHERE clause is its guard; two processes that race are separated by that guard, by row locks (`FOR
UPDATE` of the sweeper, of a package, of a run that is numbered), or by the session-level advisory
lock that the pipeline, the fold owner, verification, recomputation and retention all take. Objects
and files are written before the row that names them; jobs are added after it. Redis carries jobs
(kept) and pings (fire and forget); `NOTIFY` wakes requests that wait.

**What is hard.** Several closers for one run; a claim that must be undone when a later step fails,
and must never be undone after the checksum is stored; a crash between any two of object, row and
job; jobs delivered twice; a lock whose session can end before its holder; bytes retried, re-cut and
delivered late; notifications lost with their session; a shutdown with work in flight; a
cancellation at any step of an executor that may also be failed as stale while it lives; several
statements with row locks taken in different orders; evidence deleted while somebody still wants to
read it. `PROJECT.json` lists these hazards at their lines, with the properties that watch them, or
why none does.

## 2. Modules

One action is what happens between two awaits (or one SQL statement). A failure is an outcome of the
step it hits, enabled for the kinds in `FaultKinds` at most `MaxFaults` times. Time is only ever a
threshold that may have passed (`Age`, `Expire`, `Timeout`). Each module's header says what its
state stands for; `PROJECT.json` maps its actions to lines. Each module keeps a `TypeOK` as the
documentation of its state; it was checked on the instance of the module's run, and stays in a
configuration for RunLifecycle, where it is also proved and says more than types.

**RunLifecycle.** One run and all its actors (every operation addresses one run by id, so one run
shows every interleaving): `Accept*`, `OpenLive`, `Stream` (API), `Close*` (client close, runner
close, abort, abandoned close, told apart by `cmode`), `Job*` (queue), `Fold*` (only as a holder of
the lock), `TakeJob` ... `Ack` (consumer and pipeline), `Sweep*`. The checksum of an object is its
content; parsing works or does not. A failed statement may not have happened, or only its answer was
lost: `CloseUnheard` and `SweepUnheard` are the second case for the statements that settle a run, and
`unsure` records that the checksum was stored so.

**RunAbstract.** What a reader of the API may rely on: status, accepted bytes, sealed, results, with
no actors, locks or faults. `unsure` is the one internal thing it shows: whoever sealed the run did
not hear that it was sealed, and only then may a sealed run be reopened, be given up or be sealed once
more. `RunLifecycle!ImplementsAbstract` instantiates it with a refinement mapping (`accepted <-
streamOffset`, `sealed <- bundleSha is stored`, `results <- stats`).

**LiveStream.** The bytes of one live run. The client sends the true bytes of its file, so a chunk is
its offset and length and a log is its length. Requests live on in the server after the client has
given up on them. `finalize` runs object by object, so puts can land between its listing, its
assembly and its deletes. `mishap` is a history variable: it names the two ways in which bytes can
be lost (section 4); the properties about bytes are stated up to them.

**FoldOwner.** Owners and runs: discovery by tick and ping, the awaits of a claim (for the lock, for
what is read under it, for the unlock of a claim that came too late), release, shutdown, crash and
session loss. A publish is an await of the tick; the sequence numbers of the deltas are not
modelled (they are the gateway's to rely on, section 7).

**RunEvidence.** The log of one ingested run as evidence for its stored figures: both queues with
attempts and redelivery, the scans and requests that feed them, the consumers, and the retention
pass, all under the run's advisory lock. A set of figures is known by its epoch and by whether it
agrees with the log. `Deploy` raises the verifier's version once: older verdicts become candidates
again. `torn` records that a retention pass stopped half-way.

**RunnerJob.** One job, the runner processes that poll for it, and the executor with its sink, its
Gatling process and its `finally`: all early returns and error paths of `RunnerExecutor.run`. A run
that the sweeper claims is `taken` until its assembly has committed. A statement that fails was not
applied (`ExecError`) or was (`ExecUnheard`); a Gatling whose runner dies goes with it or becomes an
`orphan` that nobody polls; two faults are things the tailer does not report: the last flush that does
not find the file (`unseen`), and two reads at once (`overlap`). `torn` records that the log of the
run lost bytes, or counted them twice, that way.
**LogTailer** is the inside of `Tail` and `Drain`: flush calls that wait for the read under way, then
read what the file has, and the sink's put and compare-and-set, with the tailer's, the sink's and the
row's offsets kept apart. It shares no name with RunnerJob, so that one module can extend both.
`NoFile` is a read that finds no file, or whose stat fails: it ends without an error and the tailer
starts from the beginning. `overlap` records that two reads were under way at once, `unseen` that the
last look did not find the file.

**TestIdentity.** Resolver, attach, numbering and delete, statement by statement. `run` and `tests`
hold what is committed; a transaction's writes are in `mine` until it commits; `share`, `excl` and
`tlock` are row locks. `LegacyAttach` is a worker of the release before run numbers, which the code
caters for during a rolling deploy. `issued` records every number a run ever carried.

**TerminalWaiter** is the waiter alone; **UploadRequest** extends it with the requests that wait, so
that their composition is checked: an idempotent retry that waits for another request's run, a
request that begins to wait after the run's end was announced, an API that dies or is shut down.

**PackageStore.** One package name through successive packages; a version, its file and a job are
named by the request that made them. `delete`, `addVersion`, `createQueued` and retention take the
locks their statements take; files are unlinked after the commit.

**Composition.** LiveStream and FoldOwner assume about the row what RunLifecycle establishes: one
assembler at a time (proved), and a pipeline that takes and gives back the advisory lock.
RunLifecycle assumes about bytes what LiveStream establishes. RunnerJob's `SweepClaim` and
`SweepSeal`, UploadRequest's `EndRun` and `Sweep`, and PackageStore's `EndJob` are RunLifecycle's
and RunnerJob's outcomes as the other part sees them.

## 3. Runs

| Run | Instance | States | Shows |
|---|---|---|---|
| `lifecycle` | 2 workers, 2 closers, 2 sweepers, 2 faults of any kind but session loss, symmetry | 1.10 M | `TypeOK`, `SoleClaimant`, `RunningIsOpen`, `CompleteIsWhole`, `OneProcessor`, `ImplementsAbstract` |
| `lifecycle_live` | 1 of each, 2 faults of any kind | 84 k | `Settles`: every run becomes and stays terminal |
| `stream` | 2 requests, 3 bytes, cap 2, 2 faults of any kind, symmetry | 2.04 M | `AcceptedIsStored`, `ClosedHoldsAccepted`, `FoldCanContinue`, `ClientNeverAhead`, `WithinCap` |
| `fold` | 1 owner, 2 runs, cap 1, 1 fault of any kind | 299 k | `LockAccounted`, `CapRespected`, `ClosedNotReclaimed`; `ClosedIsParsed`, `RunningIsOwned` with every ping lost |
| `evidence` | 1 verifier, 1 recomputer, 2 attempts, 2 versions, 1 fault | 1.44 M | `VerdictIsCurrent`, `EvidenceKept`, `GoneIsSettled`, `AnswerStands` |
| `runner` | 2 runners, 2 chunks, 2 faults of any kind | 447 k | `CompleteHasAll`, `NothingLeftOpen`, `VerdictStands`, `JobEnds`, `CancelStops` |
| `tailer` | 2 timer flushes and stop, 3 bytes, any failures | 893 k | `StoppedHasAll`, `StopAnswers` |
| `tailer_overlap` | the same, no failures | | violation of `StoredToCursor` (section 4) |
| `identity` | 2 runs (1 live) of one class, 1 delete, 2 slugs, 2 tests, 2 faults | 755 k | `NumberNamesOneRun`, `NumberedIffGrouped`, `NoWaitCycle`, `NumberIsKept` |
| `identity_split` | as above, no faults | | violation of `OneTestPerClass` (section 4) |
| `upload` | 2 requests with one key, 3 faults | 46 k | `RunHasBundle`, `NoOrphanBundle`, `WokenByTheEnd`, `ClosedLetsGo` |
| `packages` | 3 requests of any kind, 2 contents, 2 packages, 1 fault | 855 k | `NeededHasFile`, `RunsItsUpload`, `NoOrphanFile` |

**Bounds.** Two of each actor are enough for every race of a guard, since a guard separates pairs;
packages need three requests (one made it, two race over it). Two faults reach a failure during the
recovery from another; FoldOwner, RunEvidence and PackageStore have one, because their actors
already race without any. `IngestAttempts = 2` gives an attempt that retries and one that does not.
`MaxOffset = 1` separates "no bytes" from "some". Three bytes hold a chunk of two and what follows
it; a cap of two can be hit by a second chunk. Two chunks let Gatling write after the last poll of a
run that has bytes. A cap of one owned run with two runs makes ping and tick compete for the last
place; a run that waits for a place is part of `RunningIsOwned`, hand-over between two owners is
not. FoldOwner's safety is proved for any number of owners, runs and faults (section 5). Two slugs
and two tests let a test be deleted and made again, and the base slug be taken. Deadlock is not
checked: every system here may come to rest (all runs terminal, the client gone, the request
answered).

**Fairness.** Each process that is up takes its next step: weak fairness per action, strong for
steps that wait for the sweeper's row lock, because PostgreSQL serves the waiters of a row lock in
turn. The interval timers of the sweeper, the fold owner, the runner's polls and heartbeats recur,
and a runner that died is started again by its supervisor. In UploadRequest the waiter's own timeout
is *not* fair: `WokenByTheEnd` asks that the end of the run wakes the request, not its timer. Nothing
is assumed of the client (it may stop and never close), of the simulation (it may run for ever), of
pings (they may never arrive), of the queue's clean-up, of people who cancel, or of faults, which
are finitely many.

## 4. Findings and observations

**Finding (run `tailer_overlap`).** Two callers of the tailer's `flush` that waited for the same
read both begin the next one (`log-tailer.ts:46`-51 tests `#reading` once and does not look again).
Both read from one offset, the one that looked later reads more, and both store under one key. The
shorter put can replace the longer chunk whose length the cursor then counts; or the second put ends
after the first compare-and-set, the sink's offset has moved on, and the cursor moves twice for one
chunk. Bytes below the cursor are then in no chunk, and `stop()` can answer without an error: no
failure is needed. `live-chunks.ts:41` and `fold-owner.ts:140` rely on chunks that "tile
`[0, stream_offset)` with no gap and no overlap". When the loser's compare-and-set is refused
instead, the job fails with `LIVE_STREAM_REJECTED` and the advice to look for who closed the run,
which is open.

**Finding (run `identity_split`).** `test-resolver.ts` picks a free slug and inserts the test in one
statement, and its comment says that two concurrent first runs of one class collide there and "the
loser is handed the winner's row"; `schema.prisma` says they "cannot create two tests". Each
statement sees what committed before it began: if both runs looked up the class and found nothing,
and the first INSERT commits before the second begins, the second sees the base slug taken, picks
`base-2` and makes a second test of the class. The conflict arm is reached only when the two
statements overlap. In that overlap, two *different* classes with the same base slug are filed under
one test.

**Observations**, made while the model was written, which the properties carry as explicit conditions:

* The docstring of `LiveService.close` says of its catch "BUT ONLY UP TO `finalizeLive`. AFTER THAT,
  RELEASING LOSES BYTES". `committed` is set after the await (`live.service.ts:343`,
  `live-sink.ts:212`), and `releaseClose` (`run.ts:940`) asks only for `status = 'parsing'`. When
  `finalizeLive` commits and its answer is lost, the catch releases the claim: the run is `running`
  with its checksum stored, accepts bytes, and the next close drops them. `RunningIsOpen`, checked and
  proved with these faults, says that this is the only way to such a run (`unsure`), and the abstract
  run has the step. Releasing only where `bundle_sha256` is still empty would close it.
* A worker that dies between the COMMIT of an abandoned run and the acknowledgement of its job makes
  the redelivered job take the `incomplete` run back to parsing and fail it on the unique key of its
  statistics: `pipeline.service.ts:217` counts only `complete` and `failed` as terminal.
  `RunAbstract!Take` allows it, so the refinement shows that this is the only way back.
* An attempt whose lock session ended goes on (`process` does not look at `held.lost`), and
  `markParsing` has no guard: with fault `session` a decided run can go back to parsing. This is why
  `RunningOpen`, `ProcessorsExclusive`, `DecisionFinal` and `Refinement` assume
  `"session" \notin FaultKinds`.
* `put` precedes the compare-and-set of the cursor: when the client reads its file again after giving
  up (the Gradle tailer does), the late write of the abandoned request can replace a longer accepted
  chunk by a shorter one. `mishap = "rechunk"`.
* A run whose close is released after `finalize` wrote the log, with or without its checksum, accepts
  bytes that the retried close drops, because `finalize` returns early when the log exists.
  `mishap = "reopen"`.
* A fold owner that shuts down releases its lock while one of its deltas may be on its way; the next
  owner can give its own delta the same sequence number.
* A retention pass that deleted the bundle and died before it stamped the row leaves a run whose
  later verification replaces a verdict by "no log". `torn` in RunEvidence. `AnswerStands` is about the
  single step: a late request that first takes the verdict back to pending is allowed, as in the code.
* The pipeline verifies the log against the row it read before `markParsing`
  (`pipeline.service.ts:222`): a close that stores the checksum in between is not seen, and a run whose log is stored whole fails.
  `RunAbstract!Fail` allows it; nothing the code says forbids it.
* The tailer swallows a failed stat (`log-tailer.ts:71`): when the last flush meets one, `stop()`
  succeeds and the job is complete with bytes unread. `unseen` and `torn` carry it in `StoppedHasAll`
  and `CompleteHasAll`.
* When `markComplete` is applied and its answer is lost, the catch runs `markFailed`, which spares only
  a cancelled job (`runner.ts:404`): a complete job becomes failed. `VerdictStands` allows that step
  while the executor is in its catch, and no other.
* A sink whose close finds the run claimed by the sweeper takes it as closed, and the job is complete
  while the sweeper still assembles. If that sweeper dies, the run is left to the next stale sweep.
* Nothing kills a Gatling whose runner was killed, outside a container: it goes on until it ends, and a
  cancel cannot reach it.
* When the COMMIT of `addVersion` is durable and its answer is lost, the catch unlinks the file of
  a version that exists and may be current. `unsure` in PackageStore.
* The delete of a test can deadlock with a numbering transaction only when an older worker attached a
  run while the test was being deleted: the window the comment in `test.ts` names, and no other.
* Two concurrent deletes of one test can also deadlock: the first reads its runs, a run joins the test,
  the second ungroups that run, the first deletes the test and its cascade waits for the run while the
  second's delete waits for the test. PostgreSQL aborts one and the other succeeds. The code claims
  nothing of this case; the `identity` run has one delete, and `NobodyDeadlocks` assumes it
  (`OneDelete`).

## 5. Proofs

| Theorem | Module | States |
|---|---|---|
| `TypeCorrect` | RunLifecycleProofs | `Spec => []TypeOK` |
| `ClaimsExclusive` | RunLifecycleProofs | `Spec => []SoleClaimant` |
| `RunningOpen` | RunLifecycleProofs | `Spec => []RunningIsOpen` if sessions are not lost |
| `CompleteWhole` | RunLifecycleProofs | `Spec => []CompleteIsWhole` |
| `ProcessorsExclusive` | RunLifecycleProofs | `Spec => []OneProcessor` if sessions are not lost |
| `DecisionFinal` | RunLifecycleProofs | `Spec => DecidedIsFinal` if sessions are not lost |
| `Refinement` | RunLifecycleProofs | `Spec => ImplementsAbstract` if sessions are not lost |
| `RunsHaveBundles` | UploadRequestProofs | `Spec => []RunHasBundle` |
| `NoBundleOrphaned` | UploadRequestProofs | `Spec => []NoOrphanBundle` |
| `LocksAccounted` | FoldOwnerProofs | `Spec => []LockAccounted` |
| `CapHolds` | FoldOwnerProofs | `Spec => []CapRespected` |
| `ClosedStayClosed` | FoldOwnerProofs | `Spec => ClosedNotReclaimed` |
| `NeverAhead` | LiveStreamProofs | `Spec => []ClientNeverAhead` |
| `CapKept` | LiveStreamProofs | `Spec => []WithinCap` |
| `FoldGoesOn` | LiveStreamProofs | `Spec => []FoldCanContinue` |
| `AcceptedStaysStored` | LiveStreamProofs | `Spec => []AcceptedIsStored` |
| `CloseKeepsAll` | LiveStreamProofs | `Spec => []ClosedHoldsAccepted` |
| `VerdictsCurrent` | RunEvidenceProofs | `Spec => []VerdictIsCurrent` |
| `EvidenceIsKept` | RunEvidenceProofs | `Spec => []EvidenceKept` |
| `GoneSettled` | RunEvidenceProofs | `Spec => []GoneIsSettled` |
| `AnswersStand` | RunEvidenceProofs | `Spec => AnswerStands` |
| `NumbersAreUnique` | TestIdentityProofs | `Spec => []NumberNamesOneRun` |
| `NumbersFollowTests` | TestIdentityProofs | `Spec => []NumberedIffGrouped` |
| `NumbersStay` | TestIdentityProofs | `Spec => NumberIsKept` |
| `NobodyDeadlocks` | TestIdentityProofs | `Spec => []NoWaitCycle` with one delete |
| `NeededFilesStay` | PackageStoreProofs | `Spec => []NeededHasFile` |
| `UploadsRun` | PackageStoreProofs | `Spec => []RunsItsUpload` |
| `NoFileOrphaned` | PackageStoreProofs | `Spec => []NoOrphanFile` |
| `CompleteJobHasAll` | RunnerJobProofs | `Spec => []CompleteHasAll` |
| `ExecutorCleansUp` | RunnerJobProofs | `Spec => []NothingLeftOpen` |
| `VerdictsStand` | RunnerJobProofs | `Spec => VerdictStands` |
| `StoppedCopiedAll` | RunnerJobProofs | `TailSpec => []StoppedHasAll` |

Every invariant and every action property that a passing run checks is a theorem. Each holds for any
number of actors, any sizes and any bound on faults. Assumptions: those named in the modules (the
bounds are naturals, names are distinct, the fold owner's runs are finite in number), and two that a
theorem states where it needs them: `"session" \notin FaultKinds`, and `OneDelete`. Both are
necessary: with a lost session TLC finds two attempts at work, and with two deletes a circle
(section 4). An invariant that is strengthened below was checked by TLC on the run's instance first.

**The run row.** None of the properties is inductive. `SoleClaimant` needs that a claimed run is not
`running`, which a release could undo; the release is safe because the releasing closer was the only
claimant. `RunningIsOpen` needs that a closer that may still release has stored no checksum it knows
of (`Unsealed`, `SumPending`), was no abandoned close (`ClaimStamp`), and that statistics of a run
nobody abandoned come with its decision (`ResultsDecide`, which needs the lock: a run reopened with
a checksum can still be parsed by a job the sweeper queued). `CompleteIsWhole` needs that only a run
with the abandoned stamp has its object cut (`WholeUntilAbandoned`) and that what a closer is about
to record is what it read (`CloserHolds`). `Unborn` and `StoredFirst` keep everyone away from a row
that does not exist yet. `ClaimInv` is their conjunction. `LockInv` says that an attempt inside its
critical section holds the lock and that a row it is about to mark is still undecided: it is what
replaces the missing guard of `markParsing`. Each lemma has one case per action; `ClaimFrame`
disposes of those that touch none of the variables.

**The refinement** uses both invariants: initial states map to the abstract initial state, and each
action maps to one abstract step or a stutter, by a lemma per group of actions. They are strengthened
by `SealInv`, what the actors know of the seal: `Seal` needs that a recording closer has bytes,
`Finish` that a committing attempt read a stored checksum, `Reopen` that a releasing closer knows of
none.

**Uploads.** `BundleInv` adds to the two properties what a request's step tells of its row: one that
is still to create its row, or lost the race for it, has none, and one that is to create it has its
object. So the object that `#deleteOrphanedBundle` removes belongs to no run, and a request
that leaves a row behind passed the point where it could delete.

**The fold owner.** `LockAccounted` is strengthened to `Account(o, r)`: the lock of `r` is `o`'s if
and only if `o` keeps it for an owned run or a claim past its lock with a session that is up, or for
a release under way; a run being released is neither owned nor claimed past the lock; and a session
that has ended belongs to a run that still is. `Drop` and a claim that finds its owner closing are
the cases that need all of it. The cap then follows by counting: a claim starts below the cap
(`CapStarts`), and one that succeeds moves a run from the claims to the owned (`CapInserts`), which
`Account` shows disjoint. `TellInv` carries what `ClosedNotReclaimed` is about: a run this owner was
told is closed and that the tick's older listing still holds is in `#recentlyClosed`.

**The byte protocol.** `ClientNeverAhead` is inductive with the types of the variables it names: every
answer in flight carries a cursor the server had, and the cursor only grows. The rest is three
layers. `BoundInv` bounds requests, chunks and the log by the cap, and says what the assembler may
rely on at each of its steps; `WithinCap` is a part of it. `Tiling` is about the chunks while no
offset was cut anew: each chunk below the cursor ends where another begins or at the cursor
(`Chained`), so they cover every accepted byte (`Covered`), a request about to move the cursor has
its chunk stored (`Written`), and the fold stands at a boundary (`Frontier`). The hard case is a put
that arrives late: it may only write the length that is there (`SameCut`). `Keeping` says what an
assembly has kept: its listing has every chunk below the cursor, hence the log it writes reaches it;
that step takes the greatest listed chunk, which exists because the order of the naturals is
well-founded (`GreatestExists`).

**Verification, recomputation, retention.** `Exclusive` says who is between the run's lock and its
release. The rest of `EvidenceInv` is what each of them still knows there: a verification about to
write was made on the current figures with the log at hand (`Verifying`), a recomputation past its
question still has a candidate, a retention pass past its question under the lock takes a log that
nothing needs, the agent's file first (`Recomputing`, `Retaining`); and what a row without an object
implies (`Settled`). The queues do not occur: lost or repeated jobs cannot break what holds under
the lock.

**Numbers and waiting.** `NumberInv`: an uncommitted write is made under its row's lock (`Locked`),
an uncommitted number is the next one of a test whose lock its transaction holds (`Allocated`), a
delete only takes runs out (`Ungrouped`), and every number on record is below its test's next one
(`Issued`). `WaitInv` adds where a transaction may be when it holds a lock (`Holders`), and that a
run without a number in the test being deleted is one the delete has or still will visit
(`Deleting`). In a circle, a writer that holds a run's row waits only for a test's lock; a writer
that holds a test's lock is about to commit and waits for nobody. What is left is the one delete
that holds the test and waits for a run whose writer waits for the test: `Deleting` excludes it
outside the window of the older worker.

**Packages.** The files need the rows: `Locked` says what the holder of the package's row lock may
rely on, `Versions` that a version is in the package there is, in none, or gone, and that what is
current or runs is in it, `Files` that a file about to be unlinked is of a version that is out of
its package for good, and that until a COMMIT loses its answer every version of the package has its
file. `Uploads` and `Orphans` carry the other two properties.

**Runner jobs.** `JobInv` has three parts. `OneExecutor`: a job is claimed once, so from the claim
on one runner has it, and before that no run exists. `Progress`: what the executor knows where it
stands, above all that past its last flush the run holds what Gatling wrote or `torn` says
otherwise, that an orphan has no executor, and that the job is marked complete only after somebody
claimed the run. `Tidy`: where nothing failed, the sink knows its run, and whoever claimed it is
about to settle it. `VerdictsStand` follows from the guards of the row's UPDATEs and, for a complete
job, from `Progress`: its executor is past its last write, or never heard of its own and is in the
catch.

**The tailer** is the second part of RunnerJobProofs. `InStep` holds until two reads overlap (the
finding of section 4): one call reads and the others wait for it (`OneReader`); the sink's offset is
the run's cursor until a failure ends all reading (`Dead`), and the tailer's is there or before,
where it starts again after `NoFile` (`Offsets`); the piece in hand begins at the cursor, because
the sink cuts off what it knows (`Pieces`), and the chunks hold every byte below the cursor once
(`Pieced`). When the flush of `stop()` ends without an error, its last look either missed the file
or saw its size, and the cursor has reached it (`Stopping`). A statement applied without an answer
leaves the sink behind the row: that is `Dead`, and `stop()` fails.

Only model-checked: liveness (`Settles`, `ClosedIsParsed`, `RunningIsOwned`, `JobEnds`,
`CancelStops`, `StopAnswers`, `WokenByTheEnd`, `ClosedLetsGo`), which needs fairness and `ENABLED`
and is out of the prover's reach. `StoredToCursor` and `OneTestPerClass` are violated (section 4).

## 6. Not modelled

`components` in `PROJECT.json` gives the reason for each. The greater part of the repository's lines
is the web application, the OpenAPI document, schemas and read-only queries: presentation and
single-statement reads with no protocol of their own, about which a state machine would only repeat
the code. The statistics engine, the rules and the log decoder are algorithms over bytes and floating
point: they appear as one choice (parsable or not, agrees or not, how many whole records). Within the
modelled parts, these are left out: AI analysis (the queue, lock and scan of verification around an
external call), the rename of packages and tests, agent injection and agent log upload of the runner,
the fold owner's coalescing of triggers (a lost trigger costs one tick), directory switching of the
Gradle tailer.

## 7. Plan

Done: RunLifecycle, RunAbstract, LiveStream, FoldOwner, RunEvidence, RunnerJob, LogTailer,
TestIdentity, TerminalWaiter, UploadRequest, PackageStore; proofs of all the invariants and action
properties that the runs check.

Next, in order of weight:

1. Proofs of what the model could promise beyond its runs' properties: an abstract log that
   LiveStream implements; the type invariants of the other modules, most of which are already parts
   of the inductive invariants.
2. LiveGateway: snapshot, replay and follow over the fold owner's sequence numbers; coalescing of
   `#foldOnce`.
3. HostAgent: the bounded buffer and its retrying sender.
