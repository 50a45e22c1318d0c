------------------------- MODULE RunLifecycleProofs -------------------------
(***************************************************************************)
(* Proofs of the safety of RunLifecycle, for any number of workers,        *)
(* closers and sweepers, any bound on the faults and any set of faults.    *)
(* What depends on the lock session surviving its holder is proved from    *)
(* the assumption that "session" is not among the faults.                  *)
(***************************************************************************)
EXTENDS RunLifecycle, TLAPS

(* The job record of the queue. *)

JobOK(j) == j \in Jobs /\ (j.state = "active" => j.owner \in Workers)

\* No job is a job.
LEMMA NoJobOK == JobOK(NoJob)
BY DEF JobOK, NoJob, Jobs, JobStates

\* Queue.add leaves a well-formed job, its own or the one that was there.
LEMMA QueueAddOK ==
    ASSUME JobOK(job), NEW n \in Nat \ {0}, QueueAdd(n) PROVE JobOK(job')
<1>1. CASE job.state = "none"
  <2>1. job' = [state |-> "waiting", attemptsMade |-> 0, attempts |-> n, owner |-> NoOne]
    BY <1>1 DEF QueueAdd, NoJob
  <2> QED
    BY <2>1 DEF JobOK, Jobs, JobStates
<1>2. CASE job.state # "none"
  BY <1>2 DEF QueueAdd
<1> QED
  BY <1>1, <1>2

\* A job moved to another state stays well-formed if an active one has an owner.
LEMMA JobMoveOK ==
    ASSUME JobOK(job), NEW st \in JobStates, NEW made \in Nat, NEW o \in Workers \cup {NoOne},
           st = "active" => o \in Workers,
           job' = [job EXCEPT !.state = st, !.attemptsMade = made, !.owner = o]
    PROVE  JobOK(job')
<1>1. job' = [state |-> st, attemptsMade |-> made, attempts |-> job.attempts, owner |-> o]
  BY DEF JobOK, Jobs
<1> QED
  BY <1>1 DEF JobOK, Jobs

\* So does the sweeper's re-enqueue.
LEMMA ReenqueueOK == ASSUME JobOK(job), Reenqueue PROVE JobOK(job')
<1>1. CASE job.state = "none"
  BY <1>1, QueueAddOK DEF Reenqueue
<1>2. CASE job.state \in {"failed", "completed"}
  <2>1. job' = [job EXCEPT !.state = "waiting", !.attemptsMade = 0, !.owner = job.owner]
    BY <1>2 DEF Reenqueue, JobOK, Jobs
  <2>2. job.owner \in Workers \cup {NoOne}
    BY DEF JobOK, Jobs
  <2> QED
    BY <2>1, <2>2, JobMoveOK DEF JobStates
<1>3. CASE job.state \notin {"none", "failed", "completed"}
  BY <1>3 DEF Reenqueue
<1> QED
  BY <1>1, <1>2, <1>3

-----------------------------------------------------------------------------
(* Type correctness. *)

\* The guarded writes of the row keep the types of the columns they write.
LEMMA RowWriteOK ==
    ASSUME status \in Statuses, stale \in BOOLEAN, MarkIncomplete \/ FailRun \/ WriteResult
    PROVE  status' \in Statuses /\ stale' \in BOOLEAN
<1>1. CASE MarkIncomplete
  BY <1>1 DEF MarkIncomplete, Statuses, Terminal
<1>2. CASE FailRun
  BY <1>2 DEF FailRun, Statuses, Terminal
<1>3. CASE WriteResult
  BY <1>3 DEF WriteResult, Statuses, Terminal
<1> QED
  BY <1>1, <1>2, <1>3

\* So does finalizeLive.
LEMMA FinalizeLiveOK ==
    ASSUME bundleSha \in Contents, unsure \in BOOLEAN, NEW sha \in Contents, NEW lost \in BOOLEAN,
           FinalizeLive(sha, lost)
    PROVE  bundleSha' \in Contents /\ unsure' \in BOOLEAN
<1>1. CASE status = "parsing"
  BY <1>1 DEF FinalizeLive, StoreSha
<1>2. CASE status # "parsing"
  BY <1>2 DEF FinalizeLive, sealV
<1> QED
  BY <1>1, <1>2

\* The API keeps the types.
LEMMA ApiType == ASSUME TypeOK, Api PROVE TypeOK'
<1> USE LifecycleAssumption DEF TypeOK, row, sealV, workV, closeV, Statuses, Terminal, Contents
<1>1. CASE AcceptPut
  BY <1>1 DEF AcceptPut
<1>2. CASE AcceptCreate
  BY <1>2 DEF AcceptCreate
<1>3. CASE AcceptEnqueue
  <2>1. JobOK(job')
    BY <1>3, QueueAddOK DEF AcceptEnqueue, JobOK
  <2> QED
    BY <1>3, <2>1 DEF AcceptEnqueue, JobOK
<1>4. CASE AcceptLost
  BY <1>4 DEF AcceptLost, Fault
<1>5. CASE OpenLive
  BY <1>5 DEF OpenLive
<1>6. CASE Stream
  <2>1. MaxOffset \in Nat
    OBVIOUS
  <2>2. streamOffset \in Nat /\ streamOffset < MaxOffset
    BY <1>6, <2>1 DEF Stream
  <2>3. streamOffset' \in 0..MaxOffset
    BY <1>6, <2>1, <2>2 DEF Stream
  <2>4. /\ stale' \in BOOLEAN
        /\ UNCHANGED <<status, live, sealV, abandoned, stats, object, job, lock, fold,
                       accept, workV, closeV, spc, faults>>
    BY <1>6 DEF Stream
  <2> QED
    BY <2>3, <2>4
<1> QED
  BY <1>1, <1>2, <1>3, <1>4, <1>5, <1>6 DEF Api

\* The queue's own steps keep the types.
LEMMA QueueType == ASSUME TypeOK, Queue PROVE TypeOK'
<1> USE LifecycleAssumption DEF TypeOK, row, sealV, workV, closeV
<1>0. /\ JobOK(job)
      /\ job.attemptsMade \in Nat /\ job.owner \in Workers \cup {NoOne}
  BY DEF JobOK, Jobs
<1>1. CASE JobDue
  <2>1. job' = [job EXCEPT !.state = "waiting", !.attemptsMade = job.attemptsMade, !.owner = job.owner]
    BY <1>1 DEF JobDue, Jobs
  <2>2. JobOK(job')
    BY <1>0, <2>1, JobMoveOK DEF JobStates
  <2> QED
    BY <1>1, <2>2 DEF JobDue, JobOK
<1>2. CASE JobStalled
  <2>1. PICK st \in {"waiting", "failed"} : job' = [job EXCEPT !.state = st, !.owner = NoOne]
    BY <1>2 DEF JobStalled
  <2>2. job' = [job EXCEPT !.state = st, !.attemptsMade = job.attemptsMade, !.owner = NoOne]
    BY <2>1 DEF Jobs
  <2>3. JobOK(job')
    BY <1>0, <2>2, JobMoveOK DEF JobStates
  <2>4. faults' \in 0..MaxFaults
    BY <1>2 DEF JobStalled, Fault, NoFault
  <2> QED
    BY <1>2, <2>3, <2>4 DEF JobStalled, JobOK
<1>3. CASE JobRemoved
  BY <1>3, NoJobOK DEF JobRemoved, JobOK
<1> QED
  BY <1>1, <1>2, <1>3 DEF Queue

\* The fold owner keeps the types.
LEMMA FoldType == ASSUME TypeOK, Fold PROVE TypeOK'
<1> USE LifecycleAssumption DEF TypeOK, row, sealV, workV, closeV
<1>1. CASE FoldDiscover
  BY <1>1 DEF FoldDiscover
<1>2. CASE FoldLock
  BY <1>2 DEF FoldLock
<1>3. CASE FoldRelease
  BY <1>3 DEF FoldRelease
<1> QED
  BY <1>1, <1>2, <1>3 DEF Fold

\* The passing of time keeps the types.
LEMMA AgeType == ASSUME TypeOK, Age PROVE TypeOK'
BY DEF Age, TypeOK, sealV, workV, closeV

\* Every step of a close keeps the types.
LEMMA CloserType == ASSUME TypeOK, NEW c \in Closers, Closer(c) PROVE TypeOK'
<1> USE LifecycleAssumption DEF TypeOK, row, sealV, workV, closeV, CGoto, CloserPCs, Uncommitted
<1>1. ASSUME NEW mode \in Modes, CloseClaim(c, mode) PROVE TypeOK'
  BY <1>1 DEF CloseClaim, ClaimForClose, Statuses
<1>2. CASE CloseRefused(c)
  BY <1>2 DEF CloseRefused
<1>3. CASE CloseOffset(c)
  BY <1>3 DEF CloseOffset
<1>4. CASE CloseIncomplete(c)
  <2>1. status' \in Statuses /\ stale' \in BOOLEAN
    BY <1>4, RowWriteOK DEF CloseIncomplete
  <2> QED
    BY <1>4, <2>1 DEF CloseIncomplete
<1>5. CASE CloseFinalize(c)
  BY <1>5 DEF CloseFinalize, FinalizeObject, Contents
<1>6. CASE CloseRead(c)
  BY <1>6 DEF CloseRead
<1>7. CASE CloseCut(c)
  BY <1>7 DEF CloseCut, Contents
<1>8. CASE CloseRecord(c)
  <2>1. bundleSha' \in Contents /\ unsure' \in BOOLEAN
    BY <1>8, FinalizeLiveOK DEF CloseRecord
  <2> QED
    BY <1>8, <2>1 DEF CloseRecord
<1>9. CASE CloseEnqueue(c)
  <2>1. JobOK(job')
    BY <1>9, QueueAddOK DEF CloseEnqueue, JobOK
  <2> QED
    BY <1>9, <2>1 DEF CloseEnqueue, JobOK
<1>10. CASE CloseError(c)
  <2>1. cpc' \in [Closers -> CloserPCs]
    BY <1>10 DEF CloseError, CloseCatch
  <2>2. object' \in Contents
    BY <1>10 DEF CloseError, FinalizeObject, Contents
  <2> QED
    BY <1>10, <2>1, <2>2 DEF CloseError, Fault
<1>11. CASE CloseRelease(c)
  BY <1>11 DEF CloseRelease, ReleaseClose, Statuses
<1>12. CASE CloseLost(c)
  BY <1>12 DEF CloseLost, Fault
<1>13. CASE CloseUnheard(c)
  <2>1. cpc' \in [Closers -> CloserPCs]
    BY <1>13 DEF CloseUnheard, CloseCatch
  <2>2. status' \in Statuses /\ stale' \in BOOLEAN
    BY <1>13, RowWriteOK DEF CloseUnheard
  <2>3. bundleSha' \in Contents /\ unsure' \in BOOLEAN
    <3>1. CASE cpc[c] = "record" /\ FinalizeLive(csha[c], TRUE)
      BY <3>1, FinalizeLiveOK
    <3>2. CASE UNCHANGED sealV
      BY <3>2
    <3> QED
      BY <1>13, <3>1, <3>2 DEF CloseUnheard
  <2> QED
    BY <1>13, <2>1, <2>2, <2>3 DEF CloseUnheard, Fault
<1> QED
  BY <1>1, <1>2, <1>3, <1>4, <1>5, <1>6, <1>7, <1>8, <1>9, <1>10, <1>11, <1>12, <1>13 DEF Closer

\* Every step of the pipeline keeps the types.
LEMMA WorkerType == ASSUME TypeOK, NEW w \in Workers, Worker(w) PROVE TypeOK'
<1> USE LifecycleAssumption
    DEF TypeOK, row, sealV, workV, closeV, WGoto, WEnd, WorkerPCs, Critical
<1>0. /\ JobOK(job)
      /\ job.attemptsMade \in Nat /\ job.attempts \in Nat /\ job.owner \in Workers \cup {NoOne}
  BY DEF JobOK, Jobs
<1>1. CASE TakeJob(w)
  <2>1. job' = [job EXCEPT !.state = "active", !.attemptsMade = job.attemptsMade, !.owner = w]
    BY <1>1 DEF TakeJob, Jobs
  <2>2. JobOK(job')
    BY <1>0, <2>1, JobMoveOK DEF JobStates
  <2> QED
    BY <1>1, <1>0, <2>2 DEF TakeJob, JobOK
<1>2. CASE TryLock(w)
  BY <1>2 DEF TryLock
<1>3. CASE LockLost(w)
  BY <1>3 DEF LockLost
<1>4. CASE ReadRun(w)
  BY <1>4 DEF ReadRun
<1>5. CASE MarkParsing(w)
  BY <1>5 DEF MarkParsing, Statuses
<1>6. CASE ReadOrMarkError(w)
  <2>1. status' \in Statuses /\ stale' \in BOOLEAN
    BY <1>6 DEF ReadOrMarkError, Statuses
  <2> QED
    BY <1>6, <2>1 DEF ReadOrMarkError, Fault
<1>7. CASE IngestSource(w)
  BY <1>7 DEF IngestSource
<1>8. CASE IngestMalformed(w)
  BY <1>8 DEF IngestMalformed, Fault
<1>9. CASE IngestTransient(w)
  BY <1>9 DEF IngestTransient, TransientError, Fault
<1>10. CASE IngestCommit(w)
  <2>1. status' \in Statuses /\ stale' \in BOOLEAN
    BY <1>10, RowWriteOK DEF IngestCommit
  <2> QED
    BY <1>10, <2>1 DEF IngestCommit, WriteResult
<1>11. CASE IngestDuplicate(w)
  BY <1>11 DEF IngestDuplicate
<1>12. CASE IngestUnknown(w)
  <2>1. status' \in Statuses /\ stale' \in BOOLEAN
    BY <1>12, RowWriteOK DEF IngestUnknown
  <2> QED
    BY <1>12, <2>1 DEF IngestUnknown, WriteResult, TransientError, Fault
<1>13. CASE FailWrite(w)
  <2>1. status' \in Statuses /\ stale' \in BOOLEAN
    BY <1>13, RowWriteOK DEF FailWrite
  <2> QED
    BY <1>13, <2>1 DEF FailWrite
<1>14. CASE FailError(w)
  <2>1. status' \in Statuses /\ stale' \in BOOLEAN
    BY <1>14, RowWriteOK DEF FailError
  <2> QED
    BY <1>14, <2>1 DEF FailError, Fault
<1>15. CASE Publish(w)
  BY <1>15 DEF Publish, Fault, NoFault
<1>16. CASE Unlock(w)
  BY <1>16 DEF Unlock
<1>17. CASE Ack(w)
  <2>1. CASE job.state = "active" /\ job.owner = w
    <3>1. PICK st \in {"completed", "delayed", "failed"} :
            job' = [job EXCEPT !.owner = NoOne, !.attemptsMade = @ + 1, !.state = st]
      BY <1>17, <2>1 DEF Ack
    <3>2. job' = [job EXCEPT !.state = st, !.attemptsMade = job.attemptsMade + 1, !.owner = NoOne]
      BY <3>1 DEF Jobs
    <3>3. job.attemptsMade + 1 \in Nat
      BY <1>0
    <3>4. JobOK(job')
      BY <1>0, <3>2, <3>3, JobMoveOK DEF JobStates
    <3> QED
      BY <1>17, <3>4 DEF Ack, JobOK
  <2>2. CASE ~(job.state = "active" /\ job.owner = w)
    BY <1>17, <2>2 DEF Ack
  <2> QED
    BY <2>1, <2>2
<1>18. CASE WorkerCrash(w)
  BY <1>18 DEF WorkerCrash, Fault
<1>19. CASE SessionLost(w)
  BY <1>19 DEF SessionLost, Fault
<1> QED
  BY <1>1, <1>2, <1>3, <1>4, <1>5, <1>6, <1>7, <1>8, <1>9, <1>10, <1>11, <1>12, <1>13,
     <1>14, <1>15, <1>16, <1>17, <1>18, <1>19 DEF Worker

\* Every step of the sweeper keeps the types.
LEMMA SweeperType == ASSUME TypeOK, NEW s \in Sweepers, Sweeper(s) PROVE TypeOK'
<1> USE LifecycleAssumption DEF TypeOK, row, sealV, workV, closeV, SGoto, SweeperPCs, Assembling
<1>1. CASE SweepStranded(s)
  BY <1>1 DEF SweepStranded
<1>2. CASE SweepReenqueue(s)
  <2>1. JobOK(job')
    BY <1>2, ReenqueueOK DEF SweepReenqueue, JobOK
  <2> QED
    BY <1>2, <2>1 DEF SweepReenqueue, Fault, NoFault, JobOK
<1>3. CASE SweepEmpty(s)
  <2>1. status' \in Statuses /\ stale' \in BOOLEAN
    BY <1>3, RowWriteOK DEF SweepEmpty
  <2> QED
    BY <1>3, <2>1 DEF SweepEmpty
<1>4. CASE SweepClaim(s)
  BY <1>4 DEF SweepClaim, ClaimForClose, Statuses
<1>5. CASE SweepFinalize(s)
  BY <1>5 DEF SweepFinalize, FinalizeObject, Contents
<1>6. CASE SweepCut(s)
  BY <1>6 DEF SweepCut, Contents
<1>7. CASE SweepRecord(s)
  <2>1. bundleSha' \in Contents /\ unsure' \in BOOLEAN
    BY <1>7 DEF SweepRecord, StoreSha, Contents
  <2> QED
    BY <1>7, <2>1 DEF SweepRecord
<1>8. CASE SweepRequeue(s)
  <2>1. JobOK(job')
    BY <1>8, ReenqueueOK DEF SweepRequeue, JobOK
  <2> QED
    BY <1>8, <2>1 DEF SweepRequeue, Fault, NoFault, JobOK
<1>9. CASE SweepError(s)
  BY <1>9 DEF SweepError, FinalizeObject, Fault, Contents
<1>10. CASE SweepIncomplete(s)
  <2>1. status' \in Statuses /\ stale' \in BOOLEAN
    BY <1>10, RowWriteOK DEF SweepIncomplete
  <2> QED
    BY <1>10, <2>1 DEF SweepIncomplete
<1>11. CASE SweepLost(s)
  BY <1>11 DEF SweepLost, Fault
<1>12. CASE SweepUnheard(s)
  BY <1>12 DEF SweepUnheard, StoreSha, Fault, Contents
<1> QED
  BY <1>1, <1>2, <1>3, <1>4, <1>5, <1>6, <1>7, <1>8, <1>9, <1>10, <1>11, <1>12 DEF Sweeper

\* Every behaviour of the run's actors stays within the types of TypeOK: an active
\* job has an owner, the fold owner holds the lock exactly when it says so, and
\* no step leaves a program counter or a status outside its range.
THEOREM TypeCorrect == Spec => []TypeOK
<1>1. Init => TypeOK
  <2> SUFFICES ASSUME Init PROVE TypeOK
    OBVIOUS
  <2>1. job \in Jobs /\ (job.state = "active" => job.owner \in Workers)
    BY NoJobOK DEF Init, JobOK
  <2>2. /\ wpc \in [Workers -> WorkerPCs] /\ willRetry \in [Workers -> BOOLEAN]
        /\ wsha \in [Workers -> Contents] /\ wout \in [Workers -> {"ok", "retry", "fatal"}]
    BY DEF Init, WorkerPCs, Contents
  <2>3. /\ cpc \in [Closers -> CloserPCs] /\ cmode \in [Closers -> Modes]
        /\ csha \in [Closers -> Contents] /\ spc \in [Sweepers -> SweeperPCs]
    BY DEF Init, CloserPCs, Modes, Contents, SweeperPCs
  <2>4. streamOffset \in 0..MaxOffset /\ faults \in 0..MaxFaults
    BY LifecycleAssumption DEF Init
  <2>5. /\ status \in Statuses /\ live \in BOOLEAN /\ bundleSha \in Contents /\ unsure \in BOOLEAN
        /\ abandoned \in BOOLEAN /\ stale \in BOOLEAN /\ stats \in BOOLEAN /\ object \in Contents
    BY DEF Init, Statuses, Contents
  <2> QED
    BY LifecycleAssumption, <2>1, <2>2, <2>3, <2>4, <2>5 DEF Init, TypeOK
<1>2. TypeOK /\ [Next]_vars => TypeOK'
  <2> SUFFICES ASSUME TypeOK, [Next]_vars PROVE TypeOK'
    OBVIOUS
  <2>1. CASE Next
    BY <2>1, ApiType, QueueType, FoldType, AgeType, CloserType, WorkerType, SweeperType DEF Next
  <2>2. CASE UNCHANGED vars
    BY <2>2 DEF vars, row, sealV, workV, closeV, TypeOK
  <2> QED
    BY <2>1, <2>2
<1> QED
  BY <1>1, <1>2, PTL DEF Spec
-----------------------------------------------------------------------------
(* The inductive invariant of the row, the object and the claims on them.  *)

NoClaim ==
    /\ \A c \in Closers : ~CloserClaims(c)
    /\ \A s \in Sweepers : ~SweeperClaims(s)

\* SoleClaimant, kind by kind.
OneClaim ==
    /\ \A c, d \in Closers : CloserClaims(c) /\ CloserClaims(d) => c = d
    /\ \A s, t \in Sweepers : SweeperClaims(s) /\ SweeperClaims(t) => s = t
    /\ \A c \in Closers, s \in Sweepers : ~(CloserClaims(c) /\ SweeperClaims(s))

\* accept stores the bundle before it creates the row.
StoredFirst == accept = "stored" => status = "absent" /\ object = "raw"

\* No checksum is stored, or whoever stored it does not know.
Unsealed == bundleSha = "none" \/ unsure

\* A row that does not exist, or that still accepts bytes, carries no mark of a
\* close that anybody knows of.
Open ==
    /\ status = "absent" => bundleSha = "none"
    /\ status \in {"absent", "running"} => Unsealed /\ ~abandoned /\ NoClaim

\* Until a claimant knows that the checksum is stored, nobody does.
SumPending ==
    /\ \A c \in Closers : cpc[c] \in Uncommitted => Unsealed
    /\ \A s \in Sweepers : spc[s] \in Assembling => Unsealed

\* No statistics, and no attempt about to write them, without a checksum.
SumKnown ==
    /\ stats => bundleSha # "none"
    /\ \A w \in Workers : wsha[w] # "none" => bundleSha # "none"
    /\ \A w \in Workers : wpc[w] = "commit" => wsha[w] # "none"

\* What a closer is about to record is what it found at the key.
CloserHolds ==
    \A c \in Closers :
        /\ cpc[c] = "read" => object # "none"
        /\ cpc[c] = "record" => /\ csha[c] # "none"
                                /\ ~abandoned => csha[c] = "raw" /\ object = "raw"

\* Only an abandoned log is cut.
WholeUntilAbandoned ==
    ~abandoned => /\ object # "cut"
                  /\ bundleSha # "none" => bundleSha = "raw" /\ object = "raw"

\* The abandoned stamp is that of the claimant.
ClaimStamp ==
    /\ \A c \in Closers :
          /\ cpc[c] = "release" => cmode[c] = "close"
          /\ cpc[c] \in Uncommitted /\ cmode[c] = "close" => ~abandoned
          /\ CloserClaims(c) /\ cmode[c] = "abandon" => abandoned
    /\ \A s \in Sweepers : SweeperClaims(s) => abandoned

\* Before the row exists nothing has been queued and nobody works on it.
Unborn ==
    status = "absent" =>
        /\ accept \in {"idle", "stored"} /\ job.state = "none"
        /\ \A w \in Workers : wpc[w] = "idle"
        /\ \A s \in Sweepers : spc[s] # "reenqueue"

ClaimInv ==
    /\ OneClaim /\ StoredFirst /\ Open /\ SumPending /\ SumKnown
    /\ CloserHolds /\ WholeUntilAbandoned /\ ClaimStamp /\ CompleteIsWhole

\* A step that leaves the row, the object and the claims alone, and moves no
\* attempt to its transaction.
LEMMA ClaimFrame ==
    ASSUME TypeOK, ClaimInv,
           UNCHANGED <<accept, status, object, sealV, abandoned, stats, closeV, spc, wsha>>,
           \A w \in Workers : wpc'[w] = "commit" => wpc[w] = "commit"
    PROVE  ClaimInv'
BY DEF ClaimInv, NoClaim, OneClaim, StoredFirst, Open, Unsealed, SumPending, SumKnown,
       CloserHolds, WholeUntilAbandoned, ClaimStamp, CompleteIsWhole, CloserClaims, SweeperClaims, sealV, closeV

\* Upload, open and stream keep the invariant.
LEMMA ApiClaim == ASSUME TypeOK, ClaimInv, Api PROVE ClaimInv'
<1> USE DEF row, sealV, workV, closeV
<1> USE DEF ClaimInv, NoClaim, OneClaim, StoredFirst, Open, Unsealed, SumPending, SumKnown,
       CloserHolds, WholeUntilAbandoned, ClaimStamp, CompleteIsWhole, CloserClaims, SweeperClaims, Uncommitted, Assembling
<1>1. CASE AcceptPut
  BY <1>1 DEF AcceptPut
<1>2. CASE AcceptCreate
  BY <1>2 DEF AcceptCreate
<1>3. CASE AcceptEnqueue
  BY <1>3 DEF AcceptEnqueue
<1>4. CASE AcceptLost
  BY <1>4 DEF AcceptLost
<1>5. CASE OpenLive
  BY <1>5 DEF OpenLive
<1>6. CASE Stream
  BY <1>6 DEF Stream
<1> QED
  BY <1>1, <1>2, <1>3, <1>4, <1>5, <1>6 DEF Api

\* The queue, the fold owner and the clock keep it.
LEMMA QueueFoldAgeClaim ==
    ASSUME TypeOK, ClaimInv, Queue \/ Fold \/ Age PROVE ClaimInv'
BY ClaimFrame DEF Queue, JobDue, JobStalled, JobRemoved, Fold, FoldDiscover, FoldLock,
                  FoldRelease, Age, row, sealV, workV, closeV

\* A close keeps it, step by step: the claim creates the only claimant, the record
\* ends its right to release.
LEMMA CloserClaim == ASSUME TypeOK, ClaimInv, NEW c \in Closers, Closer(c) PROVE ClaimInv'
<1> USE DEF TypeOK, row, sealV, workV, closeV, CGoto
<1> USE DEF ClaimInv, NoClaim, OneClaim, StoredFirst, Open, Unsealed, SumPending, SumKnown,
       CloserHolds, WholeUntilAbandoned, ClaimStamp, CompleteIsWhole, CloserClaims, SweeperClaims, Uncommitted, Assembling
<1>1. ASSUME NEW mode \in Modes, CloseClaim(c, mode) PROVE ClaimInv'
  <2>1. /\ status = "running" /\ status' = "parsing" /\ abandoned' = (mode = "abandon")
        /\ Unsealed /\ NoClaim
        /\ UNCHANGED <<bundleSha, unsure, stats, object, accept, wpc, wsha, csha, spc>>
    BY <1>1 DEF CloseClaim, ClaimForClose
  <2>2. /\ cpc'[c] \in {"offset", "incomplete"} /\ cmode'[c] = mode
        /\ \A d \in Closers : d # c => cpc'[d] = cpc[d] /\ cmode'[d] = cmode[d]
    BY <1>1 DEF CloseClaim
  <2>3. /\ \A d \in Closers : d # c => ~CloserClaims(d)'
        /\ \A s \in Sweepers : ~SweeperClaims(s)'
    BY <2>1, <2>2
  <2>4. OneClaim' /\ StoredFirst' /\ Open' /\ SumPending' /\ SumKnown' /\ CompleteIsWhole'
    BY <2>1, <2>2, <2>3
  <2>5. CloserHolds' /\ ClaimStamp' /\ WholeUntilAbandoned'
    BY <2>1, <2>2, <2>3
  <2> QED
    BY <2>4, <2>5
<1>2. CASE CloseRefused(c)
  BY <1>2 DEF CloseRefused
<1>3. CASE CloseOffset(c)
  BY <1>3 DEF CloseOffset
<1>4. CASE CloseIncomplete(c)
  BY <1>4 DEF CloseIncomplete, MarkIncomplete, Terminal
<1>5. CASE CloseFinalize(c)
  BY <1>5 DEF CloseFinalize, FinalizeObject
<1>6. CASE CloseRead(c)
  BY <1>6 DEF CloseRead, Contents
<1>7. CASE CloseCut(c)
  BY <1>7 DEF CloseCut
<1>8. CASE CloseRecord(c)
  BY <1>8 DEF CloseRecord, FinalizeLive, StoreSha
<1>9. CASE CloseEnqueue(c)
  BY <1>9 DEF CloseEnqueue
<1>10. CASE CloseError(c)
  BY <1>10 DEF CloseError, CloseCatch, FinalizeObject, Modes
<1>11. CASE CloseRelease(c)
  BY <1>11 DEF CloseRelease, ReleaseClose
<1>12. CASE CloseLost(c)
  BY <1>12 DEF CloseLost
<1>13. CASE CloseUnheard(c)
  <2>1. CASE cpc[c] = "record" /\ FinalizeLive(csha[c], TRUE) /\ UNCHANGED <<status, stale>>
    <3>1. /\ status # "parsing" => UNCHANGED sealV
          /\ status = "parsing" => bundleSha' = csha[c] /\ unsure'
          /\ UNCHANGED <<status, abandoned, stats, object, accept, wpc, wsha, cmode, csha, spc>>
      BY <1>13, <2>1 DEF CloseUnheard, FinalizeLive, StoreSha
    <3>2. /\ cpc'[c] \in {"release", "incomplete", "done"}
          /\ cpc'[c] = "release" => cmode[c] = "close"
          /\ \A d \in Closers : d # c => cpc'[d] = cpc[d]
      BY <1>13, <2>1 DEF CloseUnheard, CloseCatch, Modes
    <3> QED
      BY <2>1, <3>1, <3>2
  <2>2. CASE cpc[c] = "incomplete" /\ MarkIncomplete /\ UNCHANGED sealV
    BY <1>13, <2>2 DEF CloseUnheard, CloseCatch, MarkIncomplete, Terminal, Modes
  <2> QED
    BY <1>13, <2>1, <2>2 DEF CloseUnheard
<1> QED
  BY <1>1, <1>2, <1>3, <1>4, <1>5, <1>6, <1>7, <1>8, <1>9, <1>10, <1>11, <1>12, <1>13 DEF Closer

\* The pipeline keeps it: a transaction needs the checksum that a claimant stored.
LEMMA WorkerClaim == ASSUME TypeOK, ClaimInv, Unborn, NEW w \in Workers, Worker(w) PROVE ClaimInv'
<1> USE DEF TypeOK, row, sealV, workV, closeV, WGoto, WEnd
<1>1. CASE TakeJob(w)
  BY <1>1, ClaimFrame DEF TakeJob
<1>2. CASE TryLock(w)
  BY <1>2, ClaimFrame DEF TryLock
<1>3. CASE LockLost(w)
  BY <1>3, ClaimFrame DEF LockLost
<1>8. CASE IngestMalformed(w)
  BY <1>8, ClaimFrame DEF IngestMalformed
<1>9. CASE IngestTransient(w)
  BY <1>9, ClaimFrame DEF IngestTransient, TransientError
<1>11. CASE IngestDuplicate(w)
  BY <1>11, ClaimFrame DEF IngestDuplicate
<1>15. CASE Publish(w)
  BY <1>15, ClaimFrame DEF Publish
<1>16. CASE Unlock(w)
  BY <1>16, ClaimFrame DEF Unlock
<1>17. CASE Ack(w)
  BY <1>17, ClaimFrame DEF Ack
<1>18. CASE WorkerCrash(w)
  BY <1>18, ClaimFrame DEF WorkerCrash
<1>19. CASE SessionLost(w)
  BY <1>19, ClaimFrame DEF SessionLost
<1> USE DEF ClaimInv, NoClaim, OneClaim, StoredFirst, Open, Unsealed, SumPending, SumKnown,
       CloserHolds, WholeUntilAbandoned, ClaimStamp, CompleteIsWhole, CloserClaims, SweeperClaims, Uncommitted, Assembling
<1>4. CASE ReadRun(w)
  BY <1>4 DEF ReadRun
<1>5. CASE MarkParsing(w)
  BY <1>5 DEF MarkParsing, Unborn
<1>6. CASE ReadOrMarkError(w)
  BY <1>6 DEF ReadOrMarkError, Unborn
<1>7. CASE IngestSource(w)
  BY <1>7 DEF IngestSource
<1>10. CASE IngestCommit(w)
  BY <1>10 DEF IngestCommit, WriteResult
<1>12. CASE IngestUnknown(w)
  BY <1>12 DEF IngestUnknown, WriteResult, TransientError
<1>13. CASE FailWrite(w)
  BY <1>13 DEF FailWrite, FailRun, Unborn
<1>14. CASE FailError(w)
  BY <1>14 DEF FailError, FailRun, Unborn
<1> QED
  BY <1>1, <1>2, <1>3, <1>4, <1>5, <1>6, <1>7, <1>8, <1>9, <1>10, <1>11, <1>12, <1>13,
     <1>14, <1>15, <1>16, <1>17, <1>18, <1>19 DEF Worker

\* The sweeper keeps it.
LEMMA SweeperClaim == ASSUME TypeOK, ClaimInv, NEW s \in Sweepers, Sweeper(s) PROVE ClaimInv'
<1> USE DEF TypeOK, row, sealV, workV, closeV, SGoto
<1> USE DEF ClaimInv, NoClaim, OneClaim, StoredFirst, Open, Unsealed, SumPending, SumKnown,
       CloserHolds, WholeUntilAbandoned, ClaimStamp, CompleteIsWhole, CloserClaims, SweeperClaims, Uncommitted, Assembling
<1>1. CASE SweepStranded(s)
  BY <1>1 DEF SweepStranded
<1>2. CASE SweepReenqueue(s)
  BY <1>2 DEF SweepReenqueue
<1>3. CASE SweepEmpty(s)
  BY <1>3 DEF SweepEmpty, MarkIncomplete, Terminal
<1>4. CASE SweepClaim(s)
  <2>1. /\ status = "running" /\ status' = "parsing" /\ abandoned' /\ spc' = [spc EXCEPT ![s] = "finalize"]
        /\ UNCHANGED <<bundleSha, unsure, stats, object, accept, wpc, wsha, cpc, cmode, csha>>
    BY <1>4 DEF SweepClaim, ClaimForClose
  <2>2. Unsealed /\ NoClaim
    BY <2>1
  <2>3. (OneClaim /\ StoredFirst /\ Open /\ SumPending)'
    BY <2>1, <2>2
  <2>4. (SumKnown /\ CloserHolds /\ WholeUntilAbandoned /\ CompleteIsWhole)'
    BY <2>1, <2>2
  <2>5. ClaimStamp'
    BY <2>1, <2>2
  <2> QED
    BY <2>3, <2>4, <2>5
<1>5. CASE SweepFinalize(s)
  BY <1>5 DEF SweepFinalize, FinalizeObject
<1>6. CASE SweepCut(s)
  BY <1>6 DEF SweepCut
<1>7. CASE SweepRecord(s)
  BY <1>7 DEF SweepRecord, StoreSha
<1>8. CASE SweepRequeue(s)
  BY <1>8 DEF SweepRequeue
<1>9. CASE SweepError(s)
  BY <1>9 DEF SweepError, FinalizeObject
<1>10. CASE SweepIncomplete(s)
  BY <1>10 DEF SweepIncomplete, MarkIncomplete, Terminal
<1>11. CASE SweepLost(s)
  BY <1>11 DEF SweepLost
<1>12. CASE SweepUnheard(s)
  BY <1>12 DEF SweepUnheard, StoreSha
<1> QED
  BY <1>1, <1>2, <1>3, <1>4, <1>5, <1>6, <1>7, <1>8, <1>9, <1>10, <1>11, <1>12 DEF Sweeper

\* Nothing is queued for a row that does not exist.
LEMMA UnbornStep == ASSUME TypeOK, ClaimInv, Unborn, Next PROVE Unborn'
<1> SUFFICES ASSUME status' = "absent" PROVE Unborn'
  BY DEF Unborn
<1> USE DEF row, sealV, workV, closeV
<1>0. ASSUME status = "absent"
      PROVE  /\ NoClaim /\ job.state = "none" /\ accept \in {"idle", "stored"}
             /\ \A w \in Workers : wpc[w] = "idle"
             /\ \A s \in Sweepers : spc[s] # "reenqueue"
  BY <1>0 DEF Unborn, ClaimInv, Open
<1>1. CASE Api
  BY <1>0, <1>1 DEF Api, AcceptPut, AcceptCreate, AcceptEnqueue, AcceptLost, OpenLive, Stream, Unborn
<1>2. CASE Queue \/ Fold \/ Age
  BY <1>0, <1>2 DEF Queue, JobDue, JobStalled, JobRemoved, Fold, FoldDiscover, FoldLock,
                    FoldRelease, Age, Unborn
<1>3. ASSUME NEW c \in Closers, Closer(c) PROVE Unborn'
  <2> USE DEF CGoto, NoClaim, CloserClaims, Uncommitted, Unborn
  <2>1. ASSUME NEW mode \in Modes, CloseClaim(c, mode) PROVE Unborn'
    BY <2>1 DEF CloseClaim, ClaimForClose
  <2>2. CASE CloseRefused(c)
    BY <1>0, <2>2 DEF CloseRefused
  <2>3. CASE CloseOffset(c) \/ CloseFinalize(c) \/ CloseRead(c) \/ CloseCut(c) \/ CloseRecord(c)
             \/ CloseEnqueue(c)
    BY <1>0, <2>3 DEF CloseOffset, CloseFinalize, CloseRead, CloseCut, CloseRecord, CloseEnqueue
  <2>4. CASE CloseIncomplete(c) \/ CloseRelease(c)
    BY <1>0, <2>4 DEF CloseIncomplete, MarkIncomplete, CloseRelease, ReleaseClose, Terminal
  <2>5. CASE CloseError(c) \/ CloseUnheard(c) \/ CloseLost(c)
    BY <1>0, <2>5 DEF CloseError, CloseUnheard, CloseLost, MarkIncomplete, Terminal
  <2> QED
    BY <1>3, <2>1, <2>2, <2>3, <2>4, <2>5 DEF Closer
<1>4. ASSUME NEW w \in Workers, Worker(w) PROVE Unborn'
  <2>1. status = "absent"
    BY <1>4 DEF Worker, TakeJob, TryLock, LockLost, ReadRun, MarkParsing, ReadOrMarkError,
       IngestSource, IngestMalformed, IngestTransient, IngestCommit, IngestDuplicate, IngestUnknown,
       WriteResult, FailWrite, FailError, FailRun, Publish, Unlock, Ack, WorkerCrash, SessionLost
  <2>2. wpc[w] = "idle" /\ job.state = "none"
    BY <1>0, <2>1
  <2>3. SessionLost(w)
    BY <1>4, <2>2 DEF Worker, TakeJob, TryLock, LockLost, ReadRun, MarkParsing, ReadOrMarkError,
       IngestSource, IngestMalformed, IngestTransient, IngestCommit, IngestDuplicate, IngestUnknown,
       FailWrite, FailError, Publish, Unlock, Ack, WorkerCrash
  <2> QED
    BY <1>0, <2>1, <2>3 DEF SessionLost, Unborn
<1>5. ASSUME NEW s \in Sweepers, Sweeper(s) PROVE Unborn'
  <2>1. status = "absent"
    BY <1>5 DEF Sweeper, SweepStranded, SweepReenqueue, SweepEmpty, SweepClaim, SweepFinalize,
       SweepCut, SweepRecord, SweepRequeue, SweepError, SweepUnheard, SweepIncomplete, SweepLost, ClaimForClose,
       MarkIncomplete
  <2>2. spc[s] = "idle"
    BY <1>0, <2>1 DEF NoClaim, SweeperClaims, TypeOK, SweeperPCs
  <2> QED
    BY <1>5, <2>1, <2>2 DEF Sweeper, SweepStranded, SweepReenqueue, SweepEmpty, SweepClaim,
       SweepFinalize, SweepCut, SweepRecord, SweepRequeue, SweepError, SweepUnheard, SweepIncomplete, SweepLost,
       ClaimForClose, Assembling
<1> QED
  BY <1>1, <1>2, <1>3, <1>4, <1>5 DEF Next

\* The invariant holds throughout.
LEMMA ClaimInductive == Spec => [](TypeOK /\ ClaimInv /\ Unborn)
<1>1. Init => ClaimInv /\ Unborn
  BY DEF Init, NoJob, Unborn, ClaimInv, NoClaim, OneClaim, StoredFirst, Open, Unsealed, SumPending, SumKnown,
     CloserHolds, WholeUntilAbandoned, ClaimStamp, CompleteIsWhole, CloserClaims, SweeperClaims,
     Uncommitted, Assembling
<1>2. TypeOK /\ ClaimInv /\ Unborn /\ [Next]_vars => ClaimInv' /\ Unborn'
  <2> SUFFICES ASSUME TypeOK, ClaimInv, Unborn, [Next]_vars PROVE ClaimInv' /\ Unborn'
    OBVIOUS
  <2>1. CASE Next
    <3>1. ClaimInv'
      BY <2>1, ApiClaim, QueueFoldAgeClaim, CloserClaim, WorkerClaim, SweeperClaim DEF Next
    <3> QED
      BY <2>1, <3>1, UnbornStep
  <2>2. CASE UNCHANGED vars
    <3>1. ClaimInv'
      BY <2>2, ClaimFrame DEF vars, row, sealV, workV, closeV
    <3> QED
      BY <2>2, <3>1 DEF vars, row, sealV, workV, Unborn
  <2> QED
    BY <2>1, <2>2
<1> QED
  BY <1>1, <1>2, TypeCorrect, PTL DEF Spec

\* Whatever crashes, stalls or fails, and however many API processes, runners and
\* sweepers try to close the run: at most one of them is between its claim and its
\* end (claimForClose is a compare-and-set that releaseClose alone undoes).
THEOREM ClaimsExclusive == Spec => []SoleClaimant
<1>1. ClaimInv => SoleClaimant
  BY LifecycleAssumption DEF ClaimInv, OneClaim, SoleClaimant, Claims
<1> QED
  BY <1>1, ClaimInductive, PTL

\* A run is complete only with its statistics, with the whole log or bundle at its
\* key, and with the checksum of that object in its row; nothing that happens
\* afterwards changes any of them.
THEOREM CompleteWhole == Spec => []CompleteIsWhole
<1>1. ClaimInv => CompleteIsWhole
  BY DEF ClaimInv
<1> QED
  BY <1>1, ClaimInductive, PTL

-----------------------------------------------------------------------------
(* The advisory lock.  These results need the lock session to live as long *)
(* as its holder: an attempt whose session ended goes on, and may parse a  *)
(* run again that a redelivered job has decided meanwhile.                 *)

Decided == {"complete", "failed"}

\* An attempt between its lock and its unlock holds the lock, and one that has
\* read an undecided row and is about to mark it finds it undecided still.
LockInv ==
    \A w \in Workers :
        /\ wpc[w] \in Critical => lock = w
        /\ wpc[w] = "mark" => status \notin Decided

\* What is not a worker's step neither takes a worker's lock nor decides the run.
LEMMA OthersLock ==
    ASSUME TypeOK, ClaimInv, Unborn, Next, ~\E w \in Workers : Worker(w)
    PROVE  /\ UNCHANGED wpc
           /\ \A w \in Workers : lock = w => lock' = w
           /\ status' \in Decided => status \in Decided
           /\ status \in Decided => status' = status
<1> USE LifecycleAssumption DEF row, sealV, workV, closeV, Decided
<1>1. CASE Api
  BY <1>1 DEF Api, AcceptPut, AcceptCreate, AcceptEnqueue, AcceptLost, OpenLive, Stream,
              ClaimInv, StoredFirst
<1>2. CASE Queue \/ Fold \/ Age
  BY <1>2 DEF Queue, JobDue, JobStalled, JobRemoved, Fold, FoldDiscover, FoldLock,
              FoldRelease, Age, TypeOK
<1>3. ASSUME NEW c \in Closers, Closer(c)
      PROVE  UNCHANGED <<wpc, lock>> /\ (status' \in Decided => status \in Decided)
             /\ (status \in Decided => status' = status)
  BY <1>3 DEF Closer, CloseClaim, CloseRefused, CloseOffset, CloseIncomplete, CloseFinalize,
     CloseRead, CloseCut, CloseRecord, CloseEnqueue, CloseError, CloseUnheard, CloseRelease, CloseLost,
     ClaimForClose, MarkIncomplete, ReleaseClose, Terminal
<1>4. ASSUME NEW s \in Sweepers, Sweeper(s)
      PROVE  UNCHANGED <<wpc, lock>> /\ (status' \in Decided => status \in Decided)
             /\ (status \in Decided => status' = status)
  BY <1>4 DEF Sweeper, SweepStranded, SweepReenqueue, SweepEmpty, SweepClaim, SweepFinalize,
     SweepCut, SweepRecord, SweepRequeue, SweepError, SweepUnheard, SweepIncomplete, SweepLost,
     ClaimForClose, MarkIncomplete, Terminal
<1> QED
  BY <1>1, <1>2, <1>3, <1>4 DEF Next

\* A worker's step keeps the lock with its holder and leaves a decided run alone.
LEMMA WorkerLock ==
    ASSUME "session" \notin FaultKinds, TypeOK, LockInv, NEW w \in Workers, Worker(w)
    PROVE  LockInv' /\ (status \in Decided => status' = status)
<1> USE LifecycleAssumption
    DEF TypeOK, LockInv, Decided, row, sealV, workV, closeV, WGoto, WEnd, Critical
<1>1. CASE TakeJob(w)
  BY <1>1 DEF TakeJob
<1>2. CASE TryLock(w)
  BY <1>2 DEF TryLock
<1>3. CASE LockLost(w)
  BY <1>3 DEF LockLost
<1>4. CASE ReadRun(w)
  BY <1>4 DEF ReadRun
<1>5. CASE MarkParsing(w)
  BY <1>5 DEF MarkParsing
<1>6. CASE ReadOrMarkError(w)
  BY <1>6 DEF ReadOrMarkError
<1>7. CASE IngestSource(w)
  BY <1>7 DEF IngestSource
<1>8. CASE IngestMalformed(w)
  BY <1>8 DEF IngestMalformed
<1>9. CASE IngestTransient(w)
  BY <1>9 DEF IngestTransient, TransientError
<1>10. CASE IngestCommit(w)
  BY <1>10 DEF IngestCommit, WriteResult
<1>11. CASE IngestDuplicate(w)
  BY <1>11 DEF IngestDuplicate
<1>12. CASE IngestUnknown(w)
  BY <1>12 DEF IngestUnknown, WriteResult, TransientError
<1>13. CASE FailWrite(w)
  BY <1>13 DEF FailWrite, FailRun
<1>14. CASE FailError(w)
  BY <1>14 DEF FailError, FailRun
<1>15. CASE Publish(w)
  BY <1>15 DEF Publish
<1>16. CASE Unlock(w)
  BY <1>16 DEF Unlock
<1>17. CASE Ack(w)
  BY <1>17 DEF Ack
<1>18. CASE WorkerCrash(w)
  BY <1>18 DEF WorkerCrash
<1>19. CASE SessionLost(w)
  BY <1>19 DEF SessionLost, Fault
<1> QED
  BY <1>1, <1>2, <1>3, <1>4, <1>5, <1>6, <1>7, <1>8, <1>9, <1>10, <1>11, <1>12, <1>13,
     <1>14, <1>15, <1>16, <1>17, <1>18, <1>19 DEF Worker

\* Every step does.
LEMMA LockStep ==
    ASSUME "session" \notin FaultKinds, TypeOK, ClaimInv, Unborn, LockInv, [Next]_vars
    PROVE  LockInv' /\ (status \in Decided => status' = status)
<1>1. ASSUME NEW w \in Workers, Worker(w) PROVE LockInv' /\ (status \in Decided => status' = status)
  BY <1>1, WorkerLock
<1>2. CASE Next /\ ~\E w \in Workers : Worker(w)
  BY <1>2, OthersLock DEF LockInv
<1>3. CASE UNCHANGED vars
  BY <1>3 DEF vars, row, sealV, workV, LockInv
<1> QED
  BY <1>1, <1>2, <1>3

\* The lock's invariant holds throughout.
LEMMA LockInductive ==
    ASSUME "session" \notin FaultKinds PROVE Spec => [](TypeOK /\ ClaimInv /\ Unborn /\ LockInv)
<1>1. Init => LockInv
  <2>1. Init => \A w \in Workers : wpc[w] = "idle"
    BY DEF Init
  <2> QED
    BY <2>1 DEF LockInv, Critical
<1>2. TypeOK /\ ClaimInv /\ Unborn /\ LockInv /\ [Next]_vars => LockInv'
  BY LockStep
<1> QED
  BY <1>1, <1>2, ClaimInductive, PTL DEF Spec

\* Whatever the queue redelivers or takes from a stalled consumer, two attempts at
\* the run are never at work on it together, nor is one while the fold owner holds
\* it: pg_try_advisory_lock is what PipelineService.process enters through.
THEOREM ProcessorsExclusive ==
    ASSUME "session" \notin FaultKinds PROVE Spec => []OneProcessor
<1>1. TypeOK /\ LockInv => OneProcessor
  BY LifecycleAssumption DEF TypeOK, LockInv, OneProcessor
<1> QED
  BY <1>1, LockInductive, PTL

\* A run that is complete or failed stays so: markParsing, which has no guard of its
\* own, is protected by the status read under the lock, every other writer of the
\* row by its WHERE clause.
THEOREM DecisionFinal == ASSUME "session" \notin FaultKinds PROVE Spec => DecidedIsFinal
<1>1. TypeOK /\ ClaimInv /\ Unborn /\ LockInv /\ [Next]_vars
      => [(status \in {"complete", "failed"}) => (status' = status)]_vars
  BY LockStep DEF Decided
<1> QED
  BY <1>1, LockInductive, PTL DEF Spec, DecidedIsFinal

\* The results of a run that nobody took for abandoned came with its decision.
ResultsDecide == stats /\ ~abandoned => status \in Decided

\* The abandoned stamp is never taken back, and only a transaction makes results.
LEMMA ResultsStep ==
    ASSUME TypeOK, Next
    PROVE  /\ abandoned => abandoned'
           /\ ~stats /\ stats' => WriteResult /\ UNCHANGED abandoned
<1> USE DEF TypeOK, row, sealV, workV, closeV
<1>1. CASE Api
  BY <1>1 DEF Api, AcceptPut, AcceptCreate, AcceptEnqueue, AcceptLost, OpenLive, Stream
<1>2. CASE Queue \/ Fold \/ Age
  BY <1>2 DEF Queue, JobDue, JobStalled, JobRemoved, Fold, FoldDiscover, FoldLock, FoldRelease, Age
<1>3. ASSUME NEW c \in Closers, Closer(c) PROVE UNCHANGED stats /\ (abandoned => abandoned')
  BY <1>3 DEF Closer, CloseClaim, CloseRefused, CloseOffset, CloseIncomplete, CloseFinalize,
     CloseRead, CloseCut, CloseRecord, CloseEnqueue, CloseError, CloseUnheard, CloseRelease,
     CloseLost, ClaimForClose
<1>4. ASSUME NEW s \in Sweepers, Sweeper(s) PROVE UNCHANGED stats /\ (abandoned => abandoned')
  BY <1>4 DEF Sweeper, SweepStranded, SweepReenqueue, SweepEmpty, SweepClaim, SweepFinalize,
     SweepCut, SweepRecord, SweepRequeue, SweepError, SweepUnheard, SweepIncomplete, SweepLost,
     ClaimForClose
<1>5. ASSUME NEW w \in Workers, Worker(w)
      PROVE  UNCHANGED abandoned /\ (UNCHANGED stats \/ WriteResult)
  BY <1>5 DEF Worker, TakeJob, TryLock, LockLost, ReadRun, MarkParsing, ReadOrMarkError,
     IngestSource, IngestMalformed, IngestTransient, IngestCommit, IngestDuplicate, IngestUnknown,
     FailWrite, FailError, Publish, Unlock, Ack, WorkerCrash, SessionLost
<1> QED
  BY <1>1, <1>2, <1>3, <1>4, <1>5 DEF Next

\* A transaction decides the run unless it is abandoned, and a decided run stays so.
LEMMA ResultsKept ==
    ASSUME "session" \notin FaultKinds, TypeOK, ClaimInv, Unborn, LockInv, ResultsDecide, [Next]_vars
    PROVE  ResultsDecide'
<1>1. CASE Next
  <2>1. status \in Decided => status' = status
    BY LockStep
  <2>2. CASE stats
    BY <1>1, <2>1, <2>2, ResultsStep DEF ResultsDecide
  <2>3. CASE ~stats /\ stats'
    BY <1>1, <2>3, ResultsStep DEF ResultsDecide, WriteResult, Decided
  <2>4. CASE ~stats'
    BY <2>4 DEF ResultsDecide
  <2> QED
    BY <2>2, <2>3, <2>4 DEF TypeOK
<1>2. CASE UNCHANGED vars
  BY <1>2 DEF vars, row, ResultsDecide, Decided
<1> QED
  BY <1>1, <1>2

\* So it does throughout.
LEMMA ResultsInductive ==
    ASSUME "session" \notin FaultKinds
    PROVE  Spec => [](TypeOK /\ ClaimInv /\ Unborn /\ LockInv /\ ResultsDecide)
<1>1. Init => ResultsDecide
  BY DEF Init, ResultsDecide
<1>2. TypeOK /\ ClaimInv /\ Unborn /\ LockInv /\ ResultsDecide /\ [Next]_vars => ResultsDecide'
  BY ResultsKept
<1> QED
  BY <1>1, <1>2, LockInductive, PTL DEF Spec

\* A run that accepts bytes has no claimant, no abandoned stamp and no results, and
\* no checksum that anybody knows of: a close releases its claim only before it has
\* the answer of finalizeLive, also when that answer is lost.
THEOREM RunningOpen == ASSUME "session" \notin FaultKinds PROVE Spec => []RunningIsOpen
<1>1. ClaimInv /\ ResultsDecide => RunningIsOpen
  BY DEF ClaimInv, Open, Unsealed, NoClaim, RunningIsOpen, Claims, ResultsDecide, Decided
<1> QED
  BY <1>1, ResultsInductive, PTL

-----------------------------------------------------------------------------
(* RunLifecycle implements RunAbstract: its initial states map to initial  *)
(* states, and every step of every actor maps to a step of RunAbstract or  *)
(* leaves the variables of RunAbstract alone.                              *)

\* What the steps that seal, finish and give up rely on beyond the above: a claimant
\* that assembles has bytes, its run is no upload, a sweeper's is incomplete only with
\* a checksum, and an attempt past markParsing works on an undecided run.
SealInv ==
    /\ \A c \in Closers :
          /\ cpc[c] \in {"finalize", "read", "record"} => streamOffset > 0
          /\ cpc[c] \in Uncommitted => status # "pending"
    /\ \A s \in Sweepers :
          /\ spc[s] \in {"finalize", "cut", "record"} => streamOffset > 0
          /\ spc[s] \in Assembling => status # "pending"
          /\ spc[s] \in Assembling /\ bundleSha = "none" => status # "incomplete"
    /\ \A w \in Workers :
          wpc[w] \in {"ingest", "commit"} => status \notin {"pending", "complete", "failed"}

AllInv == TypeOK /\ ClaimInv /\ Unborn /\ LockInv /\ ResultsDecide /\ SealInv

\* The abstract variables as this module sees them.
Shown == <<status, streamOffset, bundleSha, unsure, stats>>

\* A step that leaves what is shown alone and moves nobody into the places SealInv
\* speaks of.
LEMMA SealFrame ==
    ASSUME SealInv, UNCHANGED Shown,
           \A c \in Closers :
              /\ cpc'[c] \in {"finalize", "read", "record"}
                 => cpc[c] \in {"finalize", "read", "record"} \/ streamOffset > 0
              /\ cpc'[c] \in Uncommitted => cpc[c] \in Uncommitted,
           \A s \in Sweepers :
              /\ spc'[s] \in {"finalize", "cut", "record"} => spc[s] \in {"finalize", "cut", "record"}
              /\ spc'[s] \in Assembling => spc[s] \in Assembling,
           \A w \in Workers : wpc'[w] \in {"ingest", "commit"} => wpc[w] \in {"ingest", "commit"}
    PROVE  SealInv' /\ UNCHANGED Abstract!vars
BY DEF SealInv, Shown, Abstract!vars

\* Upload, open and stream.
LEMMA ApiAbstract ==
    ASSUME AllInv, Api PROVE SealInv' /\ (Abstract!Next \/ UNCHANGED Abstract!vars)
<1> USE DEF AllInv, row, sealV, workV, closeV, Shown
<1>1. CASE AcceptPut \/ AcceptEnqueue \/ AcceptLost
  BY <1>1, SealFrame DEF AcceptPut, AcceptEnqueue, AcceptLost
<1>2. CASE AcceptCreate
  <2>1. status = "absent" /\ status' = "pending" /\ bundleSha = "none" /\ bundleSha' = "raw"
        /\ UNCHANGED <<streamOffset, unsure, stats, cpc, spc, wpc>>
    BY <1>2 DEF AcceptCreate, ClaimInv, StoredFirst, Open
  <2>2. SealInv'
    BY <2>1 DEF SealInv, Unborn, ClaimInv, Open, NoClaim, CloserClaims, SweeperClaims
  <2>3. Abstract!Upload
    BY <2>1 DEF Abstract!Upload
  <2> QED
    BY <2>2, <2>3 DEF Abstract!Next
<1>3. CASE OpenLive
  <2>1. status = "absent" /\ status' = "running" /\ UNCHANGED <<bundleSha, unsure, streamOffset, stats, cpc, spc, wpc>>
    BY <1>3 DEF OpenLive
  <2>2. SealInv'
    BY <2>1 DEF SealInv, Unborn, ClaimInv, Open, NoClaim, CloserClaims, SweeperClaims
  <2>3. Abstract!Open
    BY <2>1 DEF Abstract!Open
  <2> QED
    BY <2>2, <2>3 DEF Abstract!Next
<1>4. CASE Stream
  <2>1. status = "running" /\ Unsealed /\ streamOffset' = streamOffset + 1
        /\ UNCHANGED <<status, bundleSha, unsure, stats, cpc, spc, wpc>>
    BY <1>4 DEF Stream, ClaimInv, Open
  <2>2. streamOffset \in Nat
    BY LifecycleAssumption DEF TypeOK
  <2>3. streamOffset > 0 => streamOffset' > 0
    BY <2>1, <2>2
  <2>4. SealInv'
    BY <2>1, <2>3 DEF SealInv
  <2>5. Abstract!Accept
    BY <2>1 DEF Abstract!Accept, Abstract!MayReopen, Unsealed
  <2> QED
    BY <2>4, <2>5 DEF Abstract!Next
<1> QED
  BY <1>1, <1>2, <1>3, <1>4 DEF Api

\* The queue, the fold owner and the clock show nothing.
LEMMA QueueFoldAgeAbstract ==
    ASSUME AllInv, Queue \/ Fold \/ Age PROVE SealInv' /\ UNCHANGED Abstract!vars
BY SealFrame DEF AllInv, Queue, JobDue, JobStalled, JobRemoved, Fold, FoldDiscover, FoldLock,
                 FoldRelease, Age, row, sealV, workV, closeV, Shown

\* A row marked incomplete by whoever claims it.
LEMMA GiveUpAbstract ==
    ASSUME TypeOK, MarkIncomplete, status \notin {"absent", "pending"}, Unsealed,
           UNCHANGED <<streamOffset, bundleSha, unsure, stats>>
    PROVE  Abstract!Next \/ UNCHANGED Abstract!vars
<1>1. CASE status \in Terminal
  BY <1>1 DEF MarkIncomplete, Abstract!vars
<1>2. CASE status \notin Terminal
  <2>1. status \in {"running", "parsing"}
    BY <1>2 DEF TypeOK, Statuses
  <2>2. Abstract!GiveUp
    BY <1>2, <2>1 DEF MarkIncomplete, Abstract!GiveUp, Abstract!MayReopen, Unsealed
  <2> QED
    BY <2>2 DEF Abstract!Next
<1> QED
  BY <1>1, <1>2

\* A checksum stored for a log that has bytes, whether or not its writer learns of it.
LEMMA SealAbstract ==
    ASSUME NEW sha \in Contents \ {"none"}, NEW lost \in BOOLEAN, StoreSha(sha, lost),
           status \in {"parsing", "failed", "incomplete"}, Unsealed, streamOffset > 0,
           status = "incomplete" => bundleSha # "none",
           UNCHANGED <<status, streamOffset, stats>>
    PROVE  Abstract!Next
<1>1. Abstract!Seal
  BY DEF StoreSha, Unsealed, Abstract!Seal, Abstract!MayReopen
<1> QED
  BY <1>1 DEF Abstract!Next

\* Closing: the claim takes the run, the record seals it, the release reopens it.
LEMMA CloserAbstract ==
    ASSUME AllInv, NEW c \in Closers, Closer(c)
    PROVE  SealInv' /\ (Abstract!Next \/ UNCHANGED Abstract!vars)
<1> USE DEF AllInv, TypeOK, row, sealV, workV, closeV, Shown, CGoto
<1>1. ASSUME NEW mode \in Modes, CloseClaim(c, mode)
      PROVE  SealInv' /\ (Abstract!Next \/ UNCHANGED Abstract!vars)
  <2>1. /\ status = "running" /\ status' = "parsing" /\ NoClaim
        /\ UNCHANGED <<streamOffset, bundleSha, unsure, stats, spc, wpc>>
    BY <1>1 DEF CloseClaim, ClaimForClose, ClaimInv, Open
  <2>2. cpc'[c] \in {"offset", "incomplete"} /\ \A d \in Closers : d # c => cpc'[d] = cpc[d]
    BY <1>1 DEF CloseClaim
  <2>3. SealInv'
    BY <2>1, <2>2 DEF SealInv, NoClaim, CloserClaims, SweeperClaims, Uncommitted, Assembling
  <2>4. Abstract!Take
    BY <2>1 DEF Abstract!Take
  <2> QED
    BY <2>3, <2>4 DEF Abstract!Next
<1>2. CASE CloseRefused(c) \/ CloseFinalize(c) \/ CloseRead(c) \/ CloseCut(c) \/ CloseEnqueue(c)
  BY <1>2, SealFrame DEF CloseRefused, CloseFinalize, CloseRead, CloseCut, CloseEnqueue, Uncommitted
<1>3. CASE CloseOffset(c)
  <2>1. streamOffset \in Nat
    BY LifecycleAssumption
  <2>2. streamOffset # 0 => streamOffset > 0
    BY <2>1
  <2> QED
    BY <1>3, <2>2, SealFrame DEF CloseOffset, Uncommitted
<1>4. ASSUME cpc[c] = "incomplete", MarkIncomplete,
             UNCHANGED <<streamOffset, bundleSha, unsure, stats, spc, wpc>>,
             cpc'[c] \in {"done", "release"}, \A d \in Closers : d # c => cpc'[d] = cpc[d]
      PROVE  SealInv' /\ (Abstract!Next \/ UNCHANGED Abstract!vars)
  <2>1. status \notin {"absent", "pending", "running"} /\ Unsealed
    BY <1>4 DEF SealInv, ClaimInv, SumPending, Open, NoClaim, CloserClaims, Uncommitted
  <2>2. \A s \in Sweepers : spc[s] \notin Assembling
    BY <1>4 DEF ClaimInv, OneClaim, CloserClaims, SweeperClaims, Uncommitted
  <2>3. status' # "pending" /\ (status' \in {"complete", "failed"} => status = status')
    BY <2>1, <1>4 DEF MarkIncomplete, Terminal
  <2>4. SealInv'
    BY <1>4, <2>2, <2>3 DEF SealInv
  <2> QED
    BY <1>4, <2>1, <2>4, GiveUpAbstract
<1>5. CASE CloseIncomplete(c)
  BY <1>4, <1>5 DEF CloseIncomplete
<1>6. ASSUME NEW lost \in BOOLEAN, cpc[c] = "record", FinalizeLive(csha[c], lost),
             UNCHANGED <<status, streamOffset, stats, spc, wpc>>,
             cpc'[c] \in {"enqueue", "release", "incomplete", "done"},
             \A d \in Closers : d # c => cpc'[d] = cpc[d]
      PROVE  SealInv' /\ (Abstract!Next \/ UNCHANGED Abstract!vars)
  <2>1. streamOffset > 0 /\ Unsealed /\ csha[c] \in Contents \ {"none"}
    BY <1>6 DEF SealInv, ClaimInv, SumPending, CloserHolds, Uncommitted
  <2>2. \A s \in Sweepers : spc[s] \notin Assembling
    BY <1>6 DEF ClaimInv, OneClaim, CloserClaims, SweeperClaims, Uncommitted
  <2>3. SealInv'
    BY <1>6, <2>2 DEF SealInv, Uncommitted
  <2>4. CASE status = "parsing"
    <3>1. StoreSha(csha[c], lost)
      BY <1>6, <2>4 DEF FinalizeLive
    <3> QED
      BY <1>6, <2>1, <2>3, <2>4, <3>1, SealAbstract
  <2>5. CASE status # "parsing"
    BY <1>6, <2>3, <2>5 DEF FinalizeLive, Abstract!vars
  <2> QED
    BY <2>4, <2>5
<1>7. CASE CloseRecord(c)
  BY <1>6, <1>7 DEF CloseRecord
<1>8. CASE CloseError(c) \/ CloseLost(c)
  BY <1>8, SealFrame DEF CloseError, CloseCatch, CloseLost, Uncommitted
<1>9. CASE CloseUnheard(c)
  <2>1. /\ cpc'[c] \in {"release", "incomplete", "done"}
        /\ cpc[c] = "incomplete" => cpc'[c] \in {"done", "release"}
        /\ \A d \in Closers : d # c => cpc'[d] = cpc[d]
    BY <1>9 DEF CloseUnheard, CloseCatch
  <2>2. CASE cpc[c] = "record" /\ FinalizeLive(csha[c], TRUE) /\ UNCHANGED <<status, stale>>
    BY <1>6, <1>9, <2>1, <2>2 DEF CloseUnheard
  <2>3. CASE cpc[c] = "incomplete" /\ MarkIncomplete /\ UNCHANGED sealV
    BY <1>4, <1>9, <2>1, <2>3 DEF CloseUnheard
  <2> QED
    BY <1>9, <2>2, <2>3 DEF CloseUnheard
<1>10. CASE CloseRelease(c)
  <2>1. cpc[c] = "release" /\ Unsealed /\ ~abandoned
    BY <1>10 DEF CloseRelease, ClaimInv, SumPending, ClaimStamp, Uncommitted
  <2>2. ReleaseClose /\ UNCHANGED <<streamOffset, bundleSha, unsure, stats, spc, wpc>>
    BY <1>10 DEF CloseRelease
  <2>3. cpc'[c] = "done" /\ \A d \in Closers : d # c => cpc'[d] = cpc[d]
    BY <1>10 DEF CloseRelease
  <2>4. status' \in {"running", status}
    BY <2>2 DEF ReleaseClose
  <2>5. SealInv'
    BY <2>2, <2>3, <2>4 DEF SealInv, Uncommitted
  <2>6. CASE status = "parsing"
    <3>1. ~stats
      BY <2>1, <2>6 DEF ResultsDecide, Decided
    <3>2. Abstract!Reopen
      BY <2>1, <2>2, <2>6, <3>1 DEF ReleaseClose, Abstract!Reopen, Abstract!MayReopen, Unsealed
    <3> QED
      BY <2>5, <3>2 DEF Abstract!Next
  <2>7. CASE status # "parsing"
    BY <2>2, <2>5, <2>7 DEF ReleaseClose, Abstract!vars
  <2> QED
    BY <2>6, <2>7
<1> QED
  BY <1>1, <1>2, <1>3, <1>5, <1>7, <1>8, <1>9, <1>10 DEF Closer

\* The pipeline: markParsing takes the run, the transaction finishes it, fail fails
\* it; under the lock nobody else does.
LEMMA WorkerAbstract ==
    ASSUME AllInv, "session" \notin FaultKinds, NEW w \in Workers, Worker(w)
    PROVE  SealInv' /\ (Abstract!Next \/ UNCHANGED Abstract!vars)
<1> USE DEF AllInv, row, sealV, workV, closeV, Shown, WGoto, WEnd
<1>1. wpc \in [Workers -> WorkerPCs] /\ wpc[w] \in WorkerPCs
  BY DEF TypeOK
<1>2. CASE TakeJob(w) \/ TryLock(w) \/ LockLost(w) \/ ReadRun(w)
           \/ IngestMalformed(w) \/ IngestTransient(w) \/ IngestDuplicate(w)
           \/ Publish(w) \/ Unlock(w) \/ Ack(w) \/ WorkerCrash(w) \/ SessionLost(w)
  BY <1>1, <1>2, SealFrame DEF TakeJob, TryLock, LockLost, ReadRun, IngestMalformed,
     IngestTransient, TransientError, IngestDuplicate, Publish, Unlock, Ack, WorkerCrash, SessionLost
<1>3. ASSUME wpc[w] = "mark", status' = "parsing",
             UNCHANGED <<streamOffset, bundleSha, unsure, stats, cpc, spc>>
      PROVE  SealInv' /\ (Abstract!Next \/ UNCHANGED Abstract!vars)
  <2>1. status \notin {"absent", "complete", "failed"}
    BY <1>3 DEF LockInv, Decided, Unborn
  <2>2. SealInv'
    BY <1>3 DEF SealInv
  <2>3. CASE status = "parsing"
    BY <1>3, <2>2, <2>3 DEF Abstract!vars
  <2>4. CASE status # "parsing"
    <3>1. status \in {"pending", "running", "incomplete"}
      BY <2>1, <2>4 DEF TypeOK, Statuses, Terminal
    <3>2. Abstract!Take
      BY <1>3, <3>1 DEF Abstract!Take
    <3> QED
      BY <2>2, <3>2 DEF Abstract!Next
  <2> QED
    BY <2>3, <2>4
<1>4. CASE IngestSource(w)
  BY <1>1, <1>4, SealFrame DEF IngestSource
<1>9. CASE MarkParsing(w)
  BY <1>3, <1>9 DEF MarkParsing
<1>10. CASE ReadOrMarkError(w)
  <2>1. CASE UNCHANGED <<status, stale>>
    BY <1>1, <1>10, <2>1, SealFrame DEF ReadOrMarkError
  <2>2. CASE wpc[w] = "mark" /\ status' = "parsing"
    BY <1>3, <1>10, <2>2 DEF ReadOrMarkError
  <2> QED
    BY <1>10, <2>1, <2>2 DEF ReadOrMarkError
<1>5. ASSUME WriteResult, wpc[w] = "commit", UNCHANGED <<streamOffset, bundleSha, unsure, cpc, spc>>,
             \A v \in Workers : v # w => wpc'[v] = wpc[v],
             wpc'[w] \in {"publish", "unlock", "fail"}
      PROVE  SealInv' /\ Abstract!Next
  <2>1. bundleSha # "none"
    BY <1>5 DEF ClaimInv, SumKnown
  <2>2. status \in {"running", "parsing", "incomplete"} /\ (status = "running" => unsure)
    BY <1>5, <2>1 DEF SealInv, ClaimInv, Open, Unsealed, TypeOK, Statuses, Terminal
  <2>3. ~stats /\ stats' /\ status' \in {"complete", "incomplete"}
    BY <1>5, <2>2 DEF WriteResult
  <2>4. \A v \in Workers : v # w => wpc[v] \notin {"ingest", "commit"}
    BY <1>5 DEF LockInv, Critical
  <2>5. SealInv'
    BY <1>5, <2>1, <2>3, <2>4 DEF SealInv
  <2>6. Abstract!Finish
    BY <1>5, <2>1, <2>2, <2>3 DEF Abstract!Finish, TypeOK
  <2> QED
    BY <2>5, <2>6 DEF Abstract!Next
<1>6. CASE IngestCommit(w) \/ IngestUnknown(w)
  BY <1>1, <1>5, <1>6 DEF IngestCommit, IngestUnknown, TransientError
<1>7. ASSUME FailRun \/ UNCHANGED <<status, stale>>, wpc[w] = "fail",
             UNCHANGED <<streamOffset, bundleSha, unsure, stats, cpc, spc>>,
             \A v \in Workers : v # w => wpc'[v] = wpc[v], wpc'[w] = "unlock"
      PROVE  SealInv' /\ (Abstract!Next \/ UNCHANGED Abstract!vars)
  <2>1. \A v \in Workers : wpc'[v] \notin {"ingest", "commit"}
    BY <1>7 DEF LockInv, Critical
  <2>2. status' \in {"failed", status}
    BY <1>7 DEF FailRun
  <2>3. SealInv'
    BY <1>7, <2>1, <2>2 DEF SealInv
  <2>4. CASE status' = status
    BY <1>7, <2>3, <2>4 DEF Abstract!vars
  <2>5. CASE status' # status
    <3>1. status \notin {"absent", "complete", "failed"} /\ status' = "failed"
      BY <1>7, <2>5 DEF FailRun, Unborn
    <3>2. Abstract!Fail
      BY <1>7, <3>1 DEF Abstract!Fail
    <3> QED
      BY <2>3, <3>2 DEF Abstract!Next
  <2> QED
    BY <2>4, <2>5
<1>8. CASE FailWrite(w) \/ FailError(w)
  BY <1>1, <1>7, <1>8 DEF FailWrite, FailError
<1> QED
  BY <1>2, <1>4, <1>6, <1>8, <1>9, <1>10 DEF Worker

\* The sweeper: its claim takes the run, its record seals it.
LEMMA SweeperAbstract ==
    ASSUME AllInv, NEW s \in Sweepers, Sweeper(s)
    PROVE  SealInv' /\ (Abstract!Next \/ UNCHANGED Abstract!vars)
<1> USE DEF AllInv, row, sealV, workV, closeV, Shown, SGoto
<1>1. spc \in [Sweepers -> SweeperPCs]
  BY DEF TypeOK
<1>2. CASE SweepStranded(s) \/ SweepReenqueue(s) \/ SweepFinalize(s) \/ SweepCut(s) \/ SweepRequeue(s)
           \/ SweepError(s) \/ SweepLost(s)
  BY <1>1, <1>2, SealFrame DEF SweepStranded, SweepReenqueue, SweepFinalize, SweepCut, SweepRequeue,
     SweepError, SweepLost, Assembling
<1>3. CASE SweepEmpty(s)
  <2>1. status = "running" /\ status' = "incomplete" /\ Unsealed /\ NoClaim
        /\ UNCHANGED <<streamOffset, bundleSha, unsure, stats, cpc, spc, wpc>>
    BY <1>3 DEF SweepEmpty, MarkIncomplete, Terminal, ClaimInv, Open
  <2>2. SealInv'
    BY <2>1 DEF SealInv, NoClaim, CloserClaims, SweeperClaims
  <2>3. Abstract!GiveUp
    BY <2>1 DEF Abstract!GiveUp, Abstract!MayReopen, Unsealed
  <2> QED
    BY <2>2, <2>3 DEF Abstract!Next
<1>4. CASE SweepClaim(s)
  <2>1. /\ status = "running" /\ status' = "parsing" /\ NoClaim /\ streamOffset > 0
        /\ UNCHANGED <<streamOffset, bundleSha, unsure, stats, cpc, wpc>>
    BY <1>4 DEF SweepClaim, ClaimForClose, ClaimInv, Open
  <2>2. spc'[s] = "finalize" /\ \A t \in Sweepers : t # s => spc'[t] = spc[t]
    BY <1>1, <1>4 DEF SweepClaim
  <2>3. SealInv'
    BY <2>1, <2>2 DEF SealInv, NoClaim, CloserClaims, SweeperClaims, Uncommitted, Assembling
  <2>4. Abstract!Take
    BY <2>1 DEF Abstract!Take
  <2> QED
    BY <2>3, <2>4 DEF Abstract!Next
<1>5. ASSUME NEW lost \in BOOLEAN, spc[s] = "record", StoreSha("cut", lost),
             UNCHANGED <<status, streamOffset, stats, cpc, wpc>>,
             spc'[s] \in {"requeue", "incomplete"}, \A t \in Sweepers : t # s => spc'[t] = spc[t]
      PROVE  SealInv' /\ (Abstract!Next \/ UNCHANGED Abstract!vars)
  <2>1. abandoned /\ Unsealed /\ streamOffset > 0 /\ status # "pending"
        /\ (status = "incomplete" => bundleSha # "none")
    BY <1>5 DEF SealInv, ClaimInv, SumPending, ClaimStamp, SweeperClaims, Assembling
  <2>2. status \notin {"absent", "running", "complete"}
    BY <1>5, <2>1 DEF ClaimInv, Open, NoClaim, SweeperClaims, Assembling, CompleteIsWhole
  <2>3. status \in {"parsing", "failed", "incomplete"}
    BY <2>1, <2>2 DEF TypeOK, Statuses, Terminal
  <2>4. bundleSha' = "cut"
    BY <1>5 DEF StoreSha
  <2>5. SealInv'
    BY <1>5, <2>1, <2>4 DEF SealInv
  <2> QED
    BY <1>5, <2>1, <2>3, <2>5, SealAbstract DEF Contents
<1>6. CASE SweepRecord(s)
  BY <1>1, <1>5, <1>6 DEF SweepRecord
<1>7. CASE SweepUnheard(s)
  BY <1>1, <1>5, <1>7 DEF SweepUnheard
<1>8. CASE SweepIncomplete(s)
  <2>1. spc[s] = "incomplete" /\ status \notin {"absent", "pending", "running"} /\ Unsealed
    BY <1>8 DEF SweepIncomplete, SealInv, ClaimInv, SumPending, Open, NoClaim, SweeperClaims, Assembling
  <2>2. MarkIncomplete /\ UNCHANGED <<streamOffset, bundleSha, unsure, stats, cpc, wpc>>
    BY <1>8 DEF SweepIncomplete
  <2>3. spc'[s] = "idle" /\ \A t \in Sweepers : t # s => spc'[t] = spc[t]
    BY <1>1, <1>8 DEF SweepIncomplete
  <2>4. \A t \in Sweepers : t # s => spc[t] \notin Assembling
    BY <2>1 DEF ClaimInv, OneClaim, SweeperClaims, Assembling
  <2>5. status' # "pending" /\ (status' \in {"complete", "failed"} => status = status')
    BY <2>1, <2>2 DEF MarkIncomplete, Terminal
  <2>6. SealInv'
    BY <2>2, <2>3, <2>4, <2>5 DEF SealInv, Assembling
  <2> QED
    BY <2>1, <2>2, <2>6, GiveUpAbstract
<1> QED
  BY <1>2, <1>3, <1>4, <1>6, <1>7, <1>8 DEF Sweeper

\* RunLifecycle implements RunAbstract, for any number of actors and faults: what the
\* API shows of a run never moves in a way RunAbstract does not allow.
THEOREM Refinement == ASSUME "session" \notin FaultKinds PROVE Spec => ImplementsAbstract
<1>1. Init => SealInv /\ Abstract!Init
  BY DEF Init, SealInv, Abstract!Init, Uncommitted, Assembling
<1>2. AllInv /\ [Next]_vars => SealInv' /\ [Abstract!Next]_(Abstract!vars)
  <2> SUFFICES ASSUME AllInv, [Next]_vars
               PROVE  SealInv' /\ (Abstract!Next \/ UNCHANGED Abstract!vars)
    OBVIOUS
  <2>1. CASE Next
    BY <2>1, ApiAbstract, QueueFoldAgeAbstract, CloserAbstract, WorkerAbstract, SweeperAbstract DEF Next
  <2>2. CASE UNCHANGED vars
    BY <2>2, SealFrame DEF vars, row, sealV, workV, closeV, AllInv, Shown
  <2> QED
    BY <2>1, <2>2
<1> QED
  BY <1>1, <1>2, ResultsInductive, PTL DEF Spec, AllInv, ImplementsAbstract, Abstract!Spec
=============================================================================
