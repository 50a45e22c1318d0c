---------------------------- MODULE RunEvidence -----------------------------
(***************************************************************************)
(* The raw log of ONE ingested run as the evidence for its stored figures: *)
(* the `verify` and `recompute` queues and their consumers, the scans and  *)
(* requests that feed them, and the retention pass of the sweeper, which   *)
(* deletes the log once nothing needs it.  All of them meet in the run's   *)
(* row, its run_verification row, the object store and the run's advisory  *)
(* lock; every one of them works by run id, so one run shows every         *)
(* interleaving.                                                           *)
(*                                                                         *)
(* A set of figures is known by its epoch (which recompute wrote it) and   *)
(* by whether it agrees with the log.  Time is the retention threshold     *)
(* being passed, once.  A deployment that raises VERIFIER_VERSION is a     *)
(* step; an operation uses the version of the process that began it.       *)
(***************************************************************************)
EXTENDS Integers

CONSTANTS
    Verifiers,   \* verify consumers, one per worker process
    Recomputer,  \* the recompute consumer
    Attempts,    \* VERIFY_JOB_OPTIONS.attempts, RECOMPUTE_JOB_OPTIONS.attempts
    MaxVersion,  \* bound on VERIFIER_VERSION
    FaultKinds,  \* the failures that may happen
    MaxFaults,   \* bound on their number
    NoOne        \* nobody holds the lock or the job

FaultSet == {"blob", "db", "queue", "crash", "stall"}

ASSUME EvidenceAssumption ==
    /\ Attempts \in Nat \ {0} /\ MaxVersion \in Nat \ {0} /\ MaxFaults \in Nat
    /\ FaultKinds \subseteq FaultSet
    /\ Recomputer \notin Verifiers /\ NoOne \notin Verifiers \cup {Recomputer}
    /\ {"ingest", "sweeper"} \cap (Verifiers \cup {Recomputer, NoOne}) = {}

VARIABLES
    \* the run: finished with statistics or not; its figures; recompute_error;
    \* past retention; raw_log_deleted_at
    verifiable, exact, epoch, agrees, recomputeError, old, rawLogDeleted,
    bundle, agent,      \* the two objects
    verif,              \* the run_verification row
    version,            \* VERIFIER_VERSION of the processes now deployed
    jobs, lock, ingestBusy,
    pc, ver, answer, res,   \* the consumers
    epc,                    \* whoever asks for a job: requests and scans
    spc, sver,              \* the retention pass
    torn,                   \* history: a retention pass stopped half-way
    faults

runV   == <<verifiable, exact, epoch, agrees, recomputeError, old>>
blobV  == <<bundle, agent>>
consV  == <<pc, ver, answer, res>>
sweepV == <<spc, sver>>
vars   == <<runV, rawLogDeleted, blobV, verif, version, jobs, lock, ingestBusy, consV,
            epc, sweepV, torn, faults>>

Consumers == Verifiers \cup {Recomputer}
Queues    == {"verify", "recompute"}
QueueOf(p) == IF p = Recomputer THEN "recompute" ELSE "verify"

\* Who adds jobs: the pipeline after an ingest, the recompute consumer after a
\* recompute, the verify scan and the recompute scan.
Askers   == {"ingest", "recomputed", "scan", "rescan"}
Asks(e)  == IF e = "rescan" THEN "recompute" ELSE "verify"

Verdicts == {"verified", "mismatch"}
NoRow    == [status |-> "none", reason |-> "none", version |-> 0, epoch |-> 0]
Pending  == [NoRow EXCEPT !.status = "pending"]
Unverifiable(reason) == [NoRow EXCEPT !.status = "unverifiable", !.reason = reason]
NoJob    == [state |-> "none", made |-> 0, owner |-> NoOne]

\* The pipeline has committed the run, still holds its lock, and is about to ask
\* for its verification; or the run failed, and nobody asks.
Init ==
    /\ verifiable \in BOOLEAN /\ exact \in BOOLEAN /\ agrees \in BOOLEAN
    /\ ~verifiable => exact     \* no figures: neither is looked at
    /\ ~(verifiable /\ exact) => agrees
    /\ epoch = 0 /\ recomputeError = FALSE /\ old = FALSE /\ rawLogDeleted = FALSE
    /\ bundle \in {"stored", "corrupt", "lost"} /\ agent \in {"none", "stored"}
    /\ verif = NoRow /\ version = 1
    /\ jobs = [q \in Queues |-> NoJob]
    /\ lock = "ingest" /\ ingestBusy = TRUE
    /\ pc = [p \in Consumers |-> "idle"] /\ ver = [p \in Consumers |-> 1]
    /\ answer = [p \in Consumers |-> NoRow] /\ res = [p \in Consumers |-> "ok"]
    /\ epc = [e \in Askers |-> IF e = "ingest" /\ verifiable THEN "pend" ELSE "idle"]
    /\ spc = "idle" /\ sver = 1
    /\ torn = FALSE /\ faults = 0

Fault(kind) ==
    /\ kind \in FaultKinds
    /\ faults < MaxFaults
    /\ faults' = faults + 1

-----------------------------------------------------------------------------
(* The predicates the repositories share. *)

\* verifyCandidateSql: the verifier still has to check this run.
VerifyCandidate(v) ==
    /\ verifiable /\ ~rawLogDeleted
    /\ \/ verif.status \in {"none", "pending"}
       \/ verif.version < v
       \/ verif.reason = "not_exact" /\ exact

\* CANDIDATE_PREDICATE_SQL of the recompute.
RecomputeCandidate == verifiable /\ ~recomputeError /\ ~exact

\* Mutated RetentionDue: the log of a mismatch is not kept.
RetentionDueForgets(v) ==
    old /\ ~rawLogDeleted /\ ~VerifyCandidate(v) /\ ~RecomputeCandidate

\* retentionDueSql: past retention and needed by nothing.
RetentionDue(v) ==
    /\ old /\ ~rawLogDeleted
    /\ ~VerifyCandidate(v) /\ ~RecomputeCandidate
    /\ verif.status # "mismatch"

\* Mutated MarkPending: a deleted log does not matter.
MarkPendingAlways == verif' = Pending

\* markPending: the last answer is cleared, but a run whose log is gone is settled.
MarkPending ==
    verif' = IF ~rawLogDeleted THEN Pending
             ELSE IF verif.status \in {"none", "pending"} THEN Unverifiable("raw_log_deleted")
             ELSE verif

\* markRawLogDeleted: the stamp, and a run never checked becomes unverifiable.
MarkRawLogDeleted ==
    /\ rawLogDeleted' = TRUE
    /\ verif' = IF verifiable /\ verif.status \in {"none", "pending"}
                THEN Unverifiable("raw_log_deleted") ELSE verif

-----------------------------------------------------------------------------
(* The two queues (BullMQ): one job per run, removed when it completes. *)

SetJob(q, j) == jobs' = [jobs EXCEPT ![q] = j]

\* add with the run's id: ignored while a job with that id exists.
Add(q) == SetJob(q, IF jobs[q].state = "none" THEN [NoJob EXCEPT !.state = "waiting"] ELSE jobs[q])

\* job.retry('failed'): throws, and changes nothing, unless the job is failed.
Retry(q) == SetJob(q, IF jobs[q].state = "failed" THEN [NoJob EXCEPT !.state = "waiting"] ELSE jobs[q])

JobDue(q) ==
    /\ jobs[q].state = "delayed"
    /\ SetJob(q, [jobs[q] EXCEPT !.state = "waiting"])
    /\ UNCHANGED <<runV, rawLogDeleted, blobV, verif, version, lock, ingestBusy, consV, epc,
                   sweepV, torn, faults>>

\* The stalled-job check: the owner died, or its event loop is blocked while it goes on.
JobStalled(q) ==
    /\ jobs[q].state = "active"
    /\ \/ pc[jobs[q].owner] = "idle" /\ UNCHANGED faults
       \/ pc[jobs[q].owner] # "idle" /\ Fault("stall")
    /\ \E state \in {"waiting", "failed"} : SetJob(q, [jobs[q] EXCEPT !.state = state, !.owner = NoOne])
    /\ UNCHANGED <<runV, rawLogDeleted, blobV, verif, version, lock, ingestBusy, consV, epc,
                   sweepV, torn>>

\* The ingest queue has no more waiting, active or delayed job.
IngestDrains ==
    /\ ingestBusy /\ ingestBusy' = FALSE
    /\ UNCHANGED <<runV, rawLogDeleted, blobV, verif, version, jobs, lock, consV, epc, sweepV,
                   torn, faults>>

-----------------------------------------------------------------------------
(* Asking for a job: enqueueVerification, the verify scan, the recompute   *)
(* scan; enqueuePage looks at the job and then adds or retries it.         *)

EGoto(e, to) == epc' = [epc EXCEPT ![e] = to]

\* The pending row first, then the job.
AskPend(e) ==
    /\ epc[e] = "pend"
    /\ MarkPending
    /\ EGoto(e, "look")
    /\ UNCHANGED <<runV, rawLogDeleted, blobV, version, jobs, lock, ingestBusy, consV, sweepV,
                   torn, faults>>

\* A scan reads its page of candidates.
ScanPage(e) ==
    /\ epc[e] = "idle"
    /\ \/ e = "scan" /\ VerifyCandidate(version)
       \/ e = "rescan" /\ RecomputeCandidate
    /\ EGoto(e, "look")
    /\ UNCHANGED <<runV, rawLogDeleted, blobV, verif, version, jobs, lock, ingestBusy, consV,
                   sweepV, torn, faults>>

\* getJob and getState: what is done next depends on the job as it was then.
AskLook(e) ==
    /\ epc[e] = "look"
    /\ LET then == CASE jobs[Asks(e)].state = "none" -> "add"
                     [] jobs[Asks(e)].state = "failed" -> "retry"
                     [] OTHER -> "idle"
       IN  EGoto(e, IF e = "scan" /\ then = "add" THEN "ensureAdd"
                    ELSE IF e = "scan" /\ then = "retry" THEN "ensureRetry" ELSE then)
    /\ UNCHANGED <<runV, rawLogDeleted, blobV, verif, version, jobs, lock, ingestBusy, consV,
                   sweepV, torn, faults>>

\* ensurePending: a row where there is none.
EnsurePending ==
    /\ epc["scan"] \in {"ensureAdd", "ensureRetry"}
    /\ verif' = IF verif.status = "none" THEN Pending ELSE verif
    /\ EGoto("scan", IF epc["scan"] = "ensureAdd" THEN "add" ELSE "retry")
    /\ UNCHANGED <<runV, rawLogDeleted, blobV, version, jobs, lock, ingestBusy, consV, sweepV,
                   torn, faults>>

AskQueue(e) ==
    /\ epc[e] \in {"add", "retry"}
    /\ IF epc[e] = "add" THEN Add(Asks(e)) ELSE Retry(Asks(e))
    /\ EGoto(e, "idle")
    /\ UNCHANGED <<runV, rawLogDeleted, blobV, verif, version, lock, ingestBusy, consV, sweepV,
                   torn, faults>>

\* A database or queue error, or the end of the process: the request is lost.
AskLost(e) ==
    /\ epc[e] # "idle" /\ Fault("queue")
    /\ EGoto(e, "idle")
    /\ UNCHANGED <<runV, rawLogDeleted, blobV, verif, version, jobs, lock, ingestBusy, consV,
                   sweepV, torn>>

\* The pipeline lets go of the run.
IngestUnlock ==
    /\ lock = "ingest" /\ epc["ingest"] = "idle"
    /\ lock' = NoOne
    /\ UNCHANGED <<runV, rawLogDeleted, blobV, verif, version, jobs, ingestBusy, consV, epc,
                   sweepV, torn, faults>>

-----------------------------------------------------------------------------
(* What the two consumers share. *)

Goto(p, to) == pc' = [pc EXCEPT ![p] = to]

\* A consumer at rest; what it held of the last job is forgotten.
Rest(p) ==
    /\ Goto(p, "idle")
    /\ ver' = [ver EXCEPT ![p] = 1]
    /\ answer' = [answer EXCEPT ![p] = NoRow]
    /\ res' = [res EXCEPT ![p] = "ok"]

\* A job is taken; while ingest has work it is put back, uncounted.
Take(p) ==
    LET q == QueueOf(p) IN
    /\ pc[p] = "idle" /\ jobs[q].state = "waiting"
    /\ IF ingestBusy
       THEN SetJob(q, [jobs[q] EXCEPT !.state = "delayed"]) /\ UNCHANGED <<pc, ver, res>>
       ELSE /\ SetJob(q, [jobs[q] EXCEPT !.state = "active", !.owner = p])
            /\ Goto(p, "lock")
            /\ ver' = [ver EXCEPT ![p] = version]
            /\ res' = [res EXCEPT ![p] = "ok"]
    /\ UNCHANGED <<runV, rawLogDeleted, blobV, verif, version, lock, ingestBusy, answer, epc,
                   sweepV, torn, faults>>

Mine(p) == jobs[QueueOf(p)].state = "active" /\ jobs[QueueOf(p)].owner = p

\* pg_try_advisory_lock; a run somebody holds is asked for again later.
TryLock(p) ==
    /\ pc[p] = "lock"
    /\ IF lock = NoOne
       THEN lock' = p /\ Goto(p, "read") /\ UNCHANGED <<jobs, ver, answer, res>>
       ELSE /\ Rest(p) /\ UNCHANGED lock
            /\ SetJob(QueueOf(p), IF Mine(p)
                  THEN [jobs[QueueOf(p)] EXCEPT !.state = "delayed", !.owner = NoOne]
                  ELSE jobs[QueueOf(p)])
    /\ UNCHANGED <<runV, rawLogDeleted, blobV, verif, version, ingestBusy, epc, sweepV, torn,
                   faults>>

\* The lock is given back; a recompute then asks for the verification of its figures.
Unlock(p) ==
    /\ pc[p] = "unlock"
    /\ lock' = IF lock = p THEN NoOne ELSE lock
    /\ IF res[p] = "recomputed"
       THEN Goto(p, "request") /\ EGoto("recomputed", "pend")
       ELSE Goto(p, "ack") /\ UNCHANGED epc
    /\ UNCHANGED <<runV, rawLogDeleted, blobV, verif, version, jobs, ingestBusy, ver, answer,
                   res, sweepV, torn, faults>>

\* The outcome reaches the queue, which ignores it when the job is no longer this one's.
Ack(p) ==
    LET q == QueueOf(p) IN
    /\ pc[p] = "ack" \/ (pc[p] = "request" /\ epc["recomputed"] = "idle")
    /\ Rest(p)
    /\ SetJob(q, IF ~Mine(p) THEN jobs[q]
                 ELSE IF res[p] # "throw" THEN NoJob
                 ELSE [state |-> IF jobs[q].made + 1 < Attempts THEN "delayed" ELSE "failed",
                       made |-> jobs[q].made + 1, owner |-> NoOne])
    /\ UNCHANGED <<runV, rawLogDeleted, blobV, verif, version, lock, ingestBusy, epc, sweepV,
                   torn, faults>>

\* A transient error is thrown: the job's own attempts apply.
Throw(p) ==
    /\ pc[p] \in {"read", "open", "agent", "write", "find", "fail", "commit"}
    /\ Fault("blob") \/ Fault("db")
    /\ Goto(p, "unlock")
    /\ res' = [res EXCEPT ![p] = "throw"]
    /\ UNCHANGED <<runV, rawLogDeleted, blobV, verif, version, jobs, lock, ingestBusy, ver,
                   answer, epc, sweepV, torn>>

Crash(p) ==
    /\ pc[p] # "idle" /\ Fault("crash")
    /\ Rest(p)
    /\ lock' = IF lock = p THEN NoOne ELSE lock
    /\ epc' = IF p = Recomputer THEN [epc EXCEPT !["recomputed"] = "idle"] ELSE epc
    /\ UNCHANGED <<runV, rawLogDeleted, blobV, verif, version, jobs, ingestBusy, sweepV, torn>>

-----------------------------------------------------------------------------
(* VerifyService.#verifyHoldingLock *)

Answer(p, a) == answer' = [answer EXCEPT ![p] = a] /\ Goto(p, "write")

VerifyRead(p) ==
    /\ p \in Verifiers /\ pc[p] = "read"
    /\ CASE ~verifiable -> Goto(p, "unlock") /\ UNCHANGED answer
         [] verifiable /\ ~exact -> Answer(p, Unverifiable("not_exact"))
         [] verifiable /\ exact /\ rawLogDeleted -> Goto(p, "find") /\ UNCHANGED answer
         [] OTHER -> Goto(p, "open") /\ UNCHANGED answer
    /\ UNCHANGED <<runV, rawLogDeleted, blobV, verif, version, jobs, lock, ingestBusy, ver, res,
                   epc, sweepV, torn, faults>>

\* The log is gone: an answer that was given while it existed stands.
VerifyFind(p) ==
    /\ pc[p] = "find"
    /\ IF verif.status \in {"none", "pending"}
       THEN Answer(p, Unverifiable("raw_log_deleted"))
       ELSE Goto(p, "unlock") /\ UNCHANGED answer
    /\ UNCHANGED <<runV, rawLogDeleted, blobV, verif, version, jobs, lock, ingestBusy, ver, res,
                   epc, sweepV, torn, faults>>

\* openRunSource and the parse.
VerifyOpen(p) ==
    /\ p \in Verifiers /\ pc[p] = "open"
    /\ CASE bundle \in {"lost", "deleted"} -> Answer(p, Unverifiable("raw_log_missing"))
         [] bundle = "corrupt" -> Answer(p, Unverifiable("raw_log_unreadable"))
         [] OTHER -> Goto(p, "agent") /\ UNCHANGED answer
    /\ UNCHANGED <<runV, rawLogDeleted, blobV, verif, version, jobs, lock, ingestBusy, ver, res,
                   epc, sweepV, torn, faults>>

\* openAgentSource, for a run whose agent file was collected; then the comparison.
VerifyCompare(p) ==
    /\ p \in Verifiers /\ pc[p] = "agent"
    /\ Answer(p, IF agent = "deleted" THEN Unverifiable("raw_log_missing")
                 ELSE [NoRow EXCEPT !.status = IF agrees THEN "verified" ELSE "mismatch",
                                    !.epoch = epoch])
    /\ UNCHANGED <<runV, rawLogDeleted, blobV, verif, version, jobs, lock, ingestBusy, ver, res,
                   epc, sweepV, torn, faults>>

\* record, markUnverifiable.
VerifyWrite(p) ==
    /\ pc[p] = "write"
    /\ verif' = [answer[p] EXCEPT !.version = ver[p]]
    /\ Goto(p, "unlock")
    /\ UNCHANGED <<runV, rawLogDeleted, blobV, version, jobs, lock, ingestBusy, ver, answer, res,
                   epc, sweepV, torn, faults>>

-----------------------------------------------------------------------------
(* RecomputeService.#recomputeHoldingLock *)

\* Mutated RecomputeRead: the candidate question is not asked again under the lock.
RecomputeReadAlways ==
    /\ pc[Recomputer] = "read"
    /\ Goto(Recomputer, IF verifiable THEN "open" ELSE "unlock")
    /\ UNCHANGED <<runV, rawLogDeleted, blobV, verif, version, jobs, lock, ingestBusy, ver,
                   answer, res, epc, sweepV, torn, faults>>

RecomputeRead ==
    /\ pc[Recomputer] = "read"
    /\ Goto(Recomputer, IF RecomputeCandidate THEN "open" ELSE "unlock")
    /\ UNCHANGED <<runV, rawLogDeleted, blobV, verif, version, jobs, lock, ingestBusy, ver,
                   answer, res, epc, sweepV, torn, faults>>

RecomputeOpen ==
    /\ pc[Recomputer] = "open"
    /\ Goto(Recomputer, IF bundle = "stored" THEN "commit" ELSE "fail")
    /\ UNCHANGED <<runV, rawLogDeleted, blobV, verif, version, jobs, lock, ingestBusy, ver,
                   answer, res, epc, sweepV, torn, faults>>

\* markFailed: the run is retired from recomputation.
RecomputeFail ==
    /\ pc[Recomputer] = "fail"
    /\ recomputeError' = TRUE /\ exact' = FALSE
    /\ Goto(Recomputer, "unlock")
    /\ UNCHANGED <<verifiable, epoch, agrees, old, rawLogDeleted, blobV, verif, version, jobs,
                   lock, ingestBusy, ver, answer, res, epc, sweepV, torn, faults>>

\* #write: the new figures, in one transaction; whether the verifier will agree with
\* them is what verification is for.
RecomputeCommit ==
    /\ pc[Recomputer] = "commit"
    /\ exact' = TRUE /\ epoch' = epoch + 1 /\ agrees' \in BOOLEAN
    /\ Goto(Recomputer, "unlock")
    /\ res' = [res EXCEPT ![Recomputer] = "recomputed"]
    /\ UNCHANGED <<verifiable, recomputeError, old, rawLogDeleted, blobV, verif, version, jobs,
                   lock, ingestBusy, ver, answer, epc, sweepV, torn, faults>>

-----------------------------------------------------------------------------
(* Sweeper.#retainRawLogs, #retainOne *)

SGoto(to) == spc' = to /\ UNCHANGED sver
SRest == spc' = "idle" /\ sver' = 1

\* The days pass; an ingest has long let go of the run by then.
Expire ==
    /\ ~old /\ lock # "ingest"
    /\ old' = TRUE
    /\ UNCHANGED <<verifiable, exact, epoch, agrees, recomputeError, rawLogDeleted, blobV, verif,
                   version, jobs, lock, ingestBusy, consV, epc, sweepV, torn, faults>>

Deploy ==
    /\ version < MaxVersion
    /\ version' = version + 1
    /\ UNCHANGED <<runV, rawLogDeleted, blobV, verif, jobs, lock, ingestBusy, consV, epc, sweepV,
                   torn, faults>>

\* A page of due runs, read before any lock is taken.
RetainPage ==
    /\ spc = "idle" /\ RetentionDue(version)
    /\ spc' = "lock" /\ sver' = version
    /\ UNCHANGED <<runV, rawLogDeleted, blobV, verif, version, jobs, lock, ingestBusy, consV,
                   epc, torn, faults>>

\* Mutated RetainLock: the pass goes on without the lock.
RetainLockBlind ==
    /\ spc = "lock"
    /\ lock' = "sweeper" /\ SGoto("check")
    /\ UNCHANGED <<runV, rawLogDeleted, blobV, verif, version, jobs, ingestBusy, consV, epc,
                   torn, faults>>

RetainLock ==
    /\ spc = "lock"
    /\ IF lock = NoOne THEN lock' = "sweeper" /\ SGoto("check")
                       ELSE UNCHANGED lock /\ SRest
    /\ UNCHANGED <<runV, rawLogDeleted, blobV, verif, version, jobs, ingestBusy, consV, epc,
                   torn, faults>>

\* isRetentionDue, asked again under the lock.
RetainCheck ==
    /\ spc = "check"
    /\ SGoto(IF RetentionDue(sver) THEN "agent" ELSE "unlock")
    /\ UNCHANGED <<runV, rawLogDeleted, blobV, verif, version, jobs, lock, ingestBusy, consV,
                   epc, torn, faults>>

\* The agent file first, then the log.
DeleteAgent   == agent' = IF agent = "stored" THEN "deleted" ELSE agent
DeleteBundle  == bundle' = "deleted"

RetainDelete ==
    /\ \/ spc = "agent" /\ DeleteAgent /\ UNCHANGED bundle /\ SGoto("bundle")
       \/ spc = "bundle" /\ DeleteBundle /\ UNCHANGED agent /\ SGoto("stamp")
    /\ UNCHANGED <<runV, rawLogDeleted, verif, version, jobs, lock, ingestBusy, consV, epc,
                   torn, faults>>

RetainStamp ==
    /\ spc = "stamp"
    /\ MarkRawLogDeleted
    /\ SGoto("unlock")
    /\ UNCHANGED <<runV, blobV, version, jobs, lock, ingestBusy, consV, epc, torn, faults>>

\* A delete or the stamp fails, with or without its effect, or the process dies; the
\* lock goes with the unlock or with the session.
RetainError ==
    /\ spc \in {"check", "agent", "bundle", "stamp", "unlock"}
    /\ Fault("blob") \/ Fault("db") \/ Fault("crash")
    /\ agent' \in IF spc = "agent" /\ agent = "stored" THEN {"stored", "deleted"} ELSE {agent}
    /\ bundle' \in IF spc = "bundle" THEN {bundle, "deleted"} ELSE {bundle}
    /\ torn' = (torn \/ (~rawLogDeleted /\ "deleted" \in {bundle', agent'}))
    /\ SRest
    /\ lock' = IF lock = "sweeper" THEN NoOne ELSE lock
    /\ UNCHANGED <<runV, rawLogDeleted, verif, version, jobs, ingestBusy, consV, epc>>

RetainUnlock ==
    /\ spc = "unlock"
    /\ lock' = IF lock = "sweeper" THEN NoOne ELSE lock
    /\ SRest
    /\ UNCHANGED <<runV, rawLogDeleted, blobV, verif, version, jobs, ingestBusy, consV, epc,
                   torn, faults>>

-----------------------------------------------------------------------------

Ask(e)    == AskPend(e) \/ ScanPage(e) \/ AskLook(e) \/ AskQueue(e) \/ AskLost(e)
Work(p)   == Take(p) \/ TryLock(p) \/ Unlock(p) \/ Ack(p) \/ Throw(p) \/ Crash(p)
             \/ VerifyRead(p) \/ VerifyFind(p) \/ VerifyOpen(p) \/ VerifyCompare(p) \/ VerifyWrite(p)
Recompute == RecomputeRead \/ RecomputeOpen \/ RecomputeFail \/ RecomputeCommit
Retain    == RetainPage \/ RetainLock \/ RetainCheck \/ RetainDelete \/ RetainStamp
             \/ RetainError \/ RetainUnlock

Next ==
    \/ \E q \in Queues : JobDue(q) \/ JobStalled(q)
    \/ \E e \in Askers : Ask(e)
    \/ EnsurePending \/ IngestUnlock \/ IngestDrains
    \/ \E p \in Consumers : Work(p)
    \/ Recompute \/ Retain \/ Expire \/ Deploy

Spec == Init /\ [][Next]_vars

-----------------------------------------------------------------------------
(* Correctness. *)

Rows == [status : {"none", "pending", "unverifiable"} \cup Verdicts,
         reason : {"none", "not_exact", "raw_log_missing", "raw_log_unreadable", "raw_log_deleted"},
         version : 0..MaxVersion, epoch : 0..1]
ConsumerPCs == {"idle", "lock", "read", "find", "open", "agent", "write", "fail", "commit",
                "unlock", "request", "ack"}

\* The type of the state: a run is recomputed once at most, and a verdict has no reason.
TypeOK ==
    /\ {verifiable, exact, agrees, recomputeError, old, rawLogDeleted, ingestBusy, torn} \subseteq BOOLEAN
    /\ epoch \in 0..1 /\ version \in 1..MaxVersion
    /\ bundle \in {"stored", "corrupt", "lost", "deleted"} /\ agent \in {"none", "stored", "deleted"}
    /\ verif \in Rows /\ (verif.status \in Verdicts => verif.reason = "none")
    /\ jobs \in [Queues -> [state : {"none", "waiting", "delayed", "active", "failed"},
                            made : 0..Attempts, owner : Consumers \cup {NoOne}]]
    /\ lock \in Consumers \cup {NoOne, "ingest", "sweeper"}
    /\ pc \in [Consumers -> ConsumerPCs] /\ ver \in [Consumers -> 1..MaxVersion]
    /\ answer \in [Consumers -> Rows] /\ res \in [Consumers -> {"ok", "throw", "recomputed"}]
    /\ epc \in [Askers -> {"idle", "pend", "look", "ensureAdd", "ensureRetry", "add", "retry"}]
    /\ spc \in {"idle", "lock", "check", "agent", "bundle", "stamp", "unlock"}
    /\ sver \in 1..MaxVersion /\ faults \in 0..MaxFaults

\* A run that reads verified or mismatched was found so on the figures it has now,
\* through recomputes, redelivered jobs and lost requests: the old answer never
\* survives the figures it was about.
VerdictIsCurrent == verif.status \in Verdicts => verif.epoch = epoch /\ exact

\* Retention never takes the log of a run that is yet to be made exact or whose
\* figures disagree with it ("the log is the evidence for the defect"), and the
\* object is gone from the row's point of view only when it is gone from the store.
EvidenceKept ==
    /\ bundle = "deleted" => ~RecomputeCandidate /\ verif.status # "mismatch"
    /\ rawLogDeleted => bundle = "deleted" /\ agent # "stored"

\* A run whose raw log is gone is never left pending, whoever asks for its
\* verification when (markPending, "NEVER LEFT PENDING").
GoneIsSettled == rawLogDeleted /\ verifiable => verif.status \notin {"none", "pending"}

\* An answer found against the log is never replaced because the log is not there:
\* no verification reads it while retention deletes it.  A retention pass that stops
\* half-way is excepted (verify.service.ts says of the rest "AN OUTCOME DECIDED WHILE
\* THE LOG EXISTED STANDS").
AnswerStands == [][verif.status \in Verdicts /\ ~torn => verif'.status # "unverifiable"]_vars

=============================================================================
