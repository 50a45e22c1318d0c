------------------------- MODULE RunEvidenceProofs --------------------------
(***************************************************************************)
(* The evidence of a run and what is said of it: proofs for any number of  *)
(* verifiers, versions, attempts and faults.  The two queues play no part  *)
(* in them: whatever jobs are lost, redelivered or run twice, what a       *)
(* consumer does under the run's lock is enough.                           *)
(***************************************************************************)
EXTENDS RunEvidence, TLAPS

Statuses == {"none", "pending", "unverifiable"} \cup Verdicts
Reasons  == {"none", "not_exact", "raw_log_missing", "raw_log_unreadable", "raw_log_deleted"}
Record   == [status : Statuses, reason : Reasons, version : Nat, epoch : Nat]
RetainPCs == {"idle", "lock", "check", "agent", "bundle", "stamp", "unlock"}

Types ==
    /\ verif \in Record /\ epoch \in Nat /\ version \in Nat
    /\ lock \in Consumers \cup {NoOne, "ingest", "sweeper"}
    /\ pc \in [Consumers -> ConsumerPCs] /\ ver \in [Consumers -> Nat]
    /\ answer \in [Consumers -> Record] /\ res \in [Consumers -> {"ok", "throw", "recomputed"}]
    /\ bundle \in {"stored", "corrupt", "lost", "deleted"} /\ agent \in {"none", "stored", "deleted"}
    /\ spc \in RetainPCs /\ sver \in Nat

\* A consumer, or the retention pass, between the run's lock and its release.
Inside     == {"read", "find", "open", "agent", "write", "fail", "commit", "unlock"}
PassInside == {"check", "agent", "bundle", "stamp", "unlock"}

Exclusive ==
    /\ \A p \in Consumers : pc[p] \in Inside <=> lock = p
    /\ spc \in PassInside <=> lock = "sweeper"

\* What a verification under the lock still knows when it writes its answer.
Verifying ==
    /\ pc[Recomputer] \notin {"find", "agent", "write"}
    /\ \A p \in Verifiers :
         /\ pc[p] \in {"open", "agent", "find"} => exact
         /\ pc[p] \in {"open", "agent"} => ~rawLogDeleted
         /\ pc[p] = "agent" => bundle = "stored"
         /\ pc[p] = "write" =>
              /\ answer[p].status \in Verdicts => exact /\ answer[p].epoch = epoch /\ bundle = "stored"
              /\ answer[p].status \in Verdicts \cup {"unverifiable"}
              /\ answer[p].status = "unverifiable" /\ ~torn => verif.status \notin Verdicts

\* A recompute past its question under the lock has a candidate.
Recomputing == pc[Recomputer] \in {"open", "fail", "commit"} => RecomputeCandidate

\* A retention pass past its question under the lock takes a log that nothing needs, and
\* takes the agent's file first.
Retaining ==
    /\ spc \in {"agent", "bundle", "stamp"} =>
         ~rawLogDeleted /\ ~RecomputeCandidate /\ verif.status # "mismatch"
    /\ spc \in {"bundle", "stamp"} => agent # "stored"
    /\ spc = "stamp" => bundle = "deleted"

\* An object is gone only if the row says so, or the pass has yet to say so, or stopped.
\* A verdict is about figures that are exact, found on a log that could be read.
Settled ==
    /\ EvidenceKept /\ VerdictIsCurrent /\ GoneIsSettled
    /\ bundle = "deleted" => rawLogDeleted \/ torn \/ spc = "stamp"
    /\ agent = "deleted" => rawLogDeleted \/ torn \/ spc \in {"bundle", "stamp"}
    /\ verif.status \in Verdicts => bundle \in {"stored", "deleted"}

EvidenceInv == Types /\ Exclusive /\ Verifying /\ Recomputing /\ Retaining /\ Settled

\* The rows that say a run waits, or cannot be verified.
LEMMA PlainRows ==
    /\ NoRow \in Record /\ Pending \in Record /\ Pending.status = "pending"
    /\ \A reason \in Reasons :
         Unverifiable(reason) \in Record /\ Unverifiable(reason).status = "unverifiable"
BY DEF NoRow, Pending, Unverifiable, Record, Reasons, Statuses

\* The initial states, with a run that was just committed or failed.
LEMMA EvidenceInit == Init => EvidenceInv
BY EvidenceAssumption, PlainRows
   DEF Init, EvidenceInv, Types, Exclusive, Verifying, Recomputing, Retaining, Settled, EvidenceKept,
       VerdictIsCurrent, GoneIsSettled, RecomputeCandidate, NoRow, Verdicts,
       Consumers, ConsumerPCs, Inside, PassInside, RetainPCs

\* The queues, the deployments and the passing of time change nothing that is said here.
LEMMA FrameKeeps ==
    ASSUME EvidenceInv,
           UNCHANGED <<verifiable, exact, epoch, agrees, recomputeError, rawLogDeleted, bundle, agent,
                       verif, lock, pc, ver, answer, res, spc, sver, torn>>,
           version' \in Nat
    PROVE  EvidenceInv'
BY DEF EvidenceInv, Types, Exclusive, Verifying, Recomputing, Retaining, Settled, EvidenceKept,
       VerdictIsCurrent, GoneIsSettled, RecomputeCandidate

\* Whoever asks for a job touches the verification row only where it has no answer, or
\* takes the answer back.
LEMMA AskKeeps ==
    ASSUME EvidenceInv, EnsurePending \/ \E e \in Askers : Ask(e)
    PROVE  EvidenceInv'
<1>1. ASSUME NEW e \in Askers, ScanPage(e) \/ AskLook(e) \/ AskQueue(e) \/ AskLost(e) PROVE EvidenceInv'
  BY <1>1, FrameKeeps DEF ScanPage, AskLook, AskQueue, AskLost, EvidenceInv, Types, runV, blobV, consV, sweepV
<1>2. ASSUME EnsurePending \/ \E e \in Askers : AskPend(e) PROVE EvidenceInv'
  <2>1. /\ verif' \in Record
        /\ verif' = verif \/ (verif'.status = "pending" /\ (rawLogDeleted => verif.status = "none"))
                        \/ (verif'.status = "unverifiable" /\ verif.status \in {"none", "pending"})
    BY <1>2, PlainRows DEF EnsurePending, AskPend, MarkPending, EvidenceInv, Types, Reasons
  <2>2. UNCHANGED <<verifiable, exact, epoch, agrees, recomputeError, rawLogDeleted, bundle, agent,
                    lock, pc, ver, answer, res, spc, sver, torn, version>>
    BY <1>2 DEF EnsurePending, AskPend, runV, blobV, consV, sweepV
  <2>3. verifiable /\ rawLogDeleted => verif'.status \notin {"none", "pending"}
    BY <2>1 DEF EvidenceInv, Settled, GoneIsSettled
  <2>4. QED
    BY <2>1, <2>2, <2>3
       DEF EvidenceInv, Types, Exclusive, Verifying, Recomputing, Retaining, Settled, EvidenceKept,
           VerdictIsCurrent, GoneIsSettled, RecomputeCandidate, Verdicts
<1>3. QED
  BY <1>1, <1>2 DEF Ask

\* The lock is taken and given back; a job's end, an error and a crash.
LEMMA LockKeeps ==
    ASSUME EvidenceInv, NEW p \in Consumers,
           Take(p) \/ TryLock(p) \/ Unlock(p) \/ Ack(p) \/ Throw(p) \/ Crash(p)
    PROVE  EvidenceInv'
<1> USE EvidenceAssumption
    DEF EvidenceInv, Types, Exclusive, Verifying, Recomputing, Retaining, Settled, EvidenceKept,
        VerdictIsCurrent, GoneIsSettled, RecomputeCandidate, Consumers, ConsumerPCs, Inside,
        Goto, Rest, runV, blobV, sweepV
<1>1. CASE Take(p)
  BY <1>1 DEF Take
<1>2. CASE TryLock(p)
  BY <1>2, PlainRows DEF TryLock
<1>3. CASE Unlock(p)
  BY <1>3 DEF Unlock
<1>4. CASE Ack(p)
  BY <1>4, PlainRows DEF Ack
<1>5. CASE Throw(p)
  BY <1>5 DEF Throw
<1>6. CASE Crash(p)
  BY <1>6, PlainRows DEF Crash
<1>7. QED
  BY <1>1, <1>2, <1>3, <1>4, <1>5, <1>6

\* The verification, under the lock from its first read to its write.
LEMMA VerifyKeeps ==
    ASSUME EvidenceInv, NEW p \in Consumers,
           VerifyRead(p) \/ VerifyFind(p) \/ VerifyOpen(p) \/ VerifyCompare(p) \/ VerifyWrite(p)
    PROVE  EvidenceInv'
<1> DEFINE Same == UNCHANGED <<verifiable, exact, epoch, agrees, recomputeError, rawLogDeleted, bundle,
                               agent, lock, ver, res, spc, sver, torn, version>>
<1>1. pc[p] \in Inside /\ lock = p /\ spc \notin PassInside /\ Same
  BY EvidenceAssumption
     DEF EvidenceInv, Types, Exclusive, Inside, Consumers, VerifyRead, VerifyFind, VerifyOpen,
         VerifyCompare, VerifyWrite, runV, blobV, sweepV
<1>2. \A q \in Consumers : q # p => pc[q] \notin Inside
  BY <1>1 DEF EvidenceInv, Exclusive
\* A step that goes on to read, or has nothing to say.
<1>3. ASSUME NEW to \in {"unlock", "find", "open", "agent"}, p \in Verifiers \/ to = "unlock",
             pc' = [pc EXCEPT ![p] = to], UNCHANGED <<answer, verif>>,
             to \in {"open", "agent", "find"} => exact,
             to \in {"open", "agent"} => ~rawLogDeleted, to = "agent" => bundle = "stored"
      PROVE  EvidenceInv'
  BY <1>1, <1>2, <1>3, EvidenceAssumption
     DEF EvidenceInv, Types, Exclusive, Verifying, Recomputing, Retaining, Settled, EvidenceKept,
         VerdictIsCurrent, GoneIsSettled, RecomputeCandidate, Consumers, ConsumerPCs, Inside
\* A step that has found its answer.
<1>4. ASSUME NEW a \in Record, p \in Verifiers, Answer(p, a), UNCHANGED verif,
             a.status \in Verdicts => exact /\ a.epoch = epoch /\ bundle = "stored",
             a.status \in Verdicts \cup {"unverifiable"},
             a.status = "unverifiable" /\ ~torn => verif.status \notin Verdicts
      PROVE  EvidenceInv'
  BY <1>1, <1>2, <1>4, EvidenceAssumption
     DEF Answer, Goto, EvidenceInv, Types, Exclusive, Verifying, Recomputing, Retaining, Settled,
         EvidenceKept, VerdictIsCurrent, GoneIsSettled, RecomputeCandidate, Consumers, ConsumerPCs, Inside
<1>5. CASE VerifyRead(p)
  <2>1. ~exact => verif.status \notin Verdicts
    BY DEF EvidenceInv, Settled, VerdictIsCurrent
  <2>2. CASE Answer(p, Unverifiable("not_exact")) /\ ~exact
    BY <1>4, <1>5, <2>1, <2>2, PlainRows DEF VerifyRead, Reasons, Verdicts
  <2>3. QED
    BY <1>3, <1>5, <2>2 DEF VerifyRead, Goto
<1>6. CASE VerifyFind(p)
  <2>1. p \in Verifiers
    BY <1>6 DEF VerifyFind, EvidenceInv, Verifying, Consumers
  <2>2. CASE verif.status \in {"none", "pending"}
    BY <1>4, <1>6, <2>1, <2>2, PlainRows DEF VerifyFind, Reasons, Verdicts
  <2>3. QED
    BY <1>3, <1>6, <2>2 DEF VerifyFind, Goto
<1>7. CASE VerifyOpen(p)
  <2>1. exact /\ ~rawLogDeleted
    BY <1>7 DEF VerifyOpen, EvidenceInv, Verifying
  <2>2. bundle # "stored" /\ ~torn => verif.status \notin Verdicts
    BY <1>1, <2>1 DEF EvidenceInv, Types, Settled, PassInside
  <2>3. CASE bundle # "stored"
    BY <1>4, <1>7, <2>2, <2>3, PlainRows DEF VerifyOpen, EvidenceInv, Types, Reasons, Verdicts
  <2>4. QED
    BY <1>3, <1>7, <2>1, <2>3 DEF VerifyOpen, Goto
<1>8. CASE VerifyCompare(p)
  <2>1. exact /\ ~rawLogDeleted /\ bundle = "stored"
    BY <1>8 DEF VerifyCompare, EvidenceInv, Verifying
  <2>2. CASE agent = "deleted"
    <3>1. torn
      BY <1>1, <2>1, <2>2 DEF EvidenceInv, Settled, PassInside
    <3>2. QED
      BY <1>4, <1>8, <2>2, <3>1, PlainRows DEF VerifyCompare, Reasons, Verdicts
  <2>3. CASE agent # "deleted"
    <3> DEFINE a == [NoRow EXCEPT !.status = IF agrees THEN "verified" ELSE "mismatch", !.epoch = epoch]
    <3>1. a \in Record /\ a.status \in Verdicts /\ a.epoch = epoch
      BY DEF NoRow, Record, Reasons, Statuses, Verdicts, EvidenceInv, Types
    <3>2. Answer(p, a) /\ p \in Verifiers /\ UNCHANGED verif
      BY <1>8, <2>3 DEF VerifyCompare
    <3>3. QED
      BY <1>4, <2>1, <3>1, <3>2 DEF Verdicts
  <2>4. QED
    BY <2>2, <2>3
<1>9. CASE VerifyWrite(p)
  BY <1>1, <1>2, <1>9, EvidenceAssumption
     DEF VerifyWrite, Goto, EvidenceInv, Types, Exclusive, Verifying, Recomputing, Retaining, Settled,
         EvidenceKept, VerdictIsCurrent, GoneIsSettled, RecomputeCandidate, Consumers, ConsumerPCs,
         Inside, PassInside, Record, Statuses, Verdicts
<1>10. QED
  BY <1>5, <1>6, <1>7, <1>8, <1>9

\* The recompute, which replaces figures that no verdict is about.
LEMMA RecomputeKeeps == ASSUME EvidenceInv, Recompute PROVE EvidenceInv'
<1> USE EvidenceAssumption
    DEF EvidenceInv, Types, Exclusive, Verifying, Recomputing, Retaining, Settled, EvidenceKept,
        VerdictIsCurrent, GoneIsSettled, RecomputeCandidate, Consumers, ConsumerPCs, Inside, PassInside,
        Goto, runV, blobV, sweepV
<1>1. CASE RecomputeRead
  BY <1>1 DEF RecomputeRead
<1>2. CASE RecomputeOpen
  BY <1>2 DEF RecomputeOpen
<1>3. CASE RecomputeFail
  BY <1>3 DEF RecomputeFail
<1>4. CASE RecomputeCommit
  BY <1>4 DEF RecomputeCommit
<1>5. QED
  BY <1>1, <1>2, <1>3, <1>4 DEF Recompute

\* The retention pass, which asks again under the lock before it deletes.
LEMMA RetainKeeps == ASSUME EvidenceInv, Retain PROVE EvidenceInv'
<1> USE EvidenceAssumption
    DEF EvidenceInv, Types, Exclusive, Verifying, Recomputing, Retaining, Settled, EvidenceKept,
        VerdictIsCurrent, GoneIsSettled, RecomputeCandidate, Consumers, Inside, PassInside, RetainPCs,
        SGoto, SRest, runV, blobV, consV
<1>1. CASE RetainPage \/ RetainLock
  BY <1>1 DEF RetainPage, RetainLock
<1>2. CASE RetainCheck
  BY <1>2 DEF RetainCheck, RetentionDue
<1>3. CASE RetainDelete
  BY <1>3 DEF RetainDelete, DeleteAgent, DeleteBundle
<1>4. CASE RetainStamp
  BY <1>4, PlainRows DEF RetainStamp, MarkRawLogDeleted, Reasons, Verdicts
<1>5. CASE RetainError
  BY <1>5 DEF RetainError
<1>6. CASE RetainUnlock
  BY <1>6 DEF RetainUnlock
<1>7. QED
  BY <1>1, <1>2, <1>3, <1>4, <1>5, <1>6 DEF Retain

\* EvidenceInv is inductive.
LEMMA EvidenceInvariant == Spec => []EvidenceInv
<1>1. EvidenceInv /\ [Next]_vars => EvidenceInv'
  <2> SUFFICES ASSUME EvidenceInv, [Next]_vars PROVE EvidenceInv'
    OBVIOUS
  <2>1. CASE \/ \E q \in Queues : JobDue(q) \/ JobStalled(q)
             \/ IngestDrains \/ Expire \/ UNCHANGED vars
    <3>1. UNCHANGED <<verifiable, exact, epoch, agrees, recomputeError, rawLogDeleted, bundle, agent,
                      verif, lock, pc, ver, answer, res, spc, sver, torn, version>>
      BY <2>1 DEF JobDue, JobStalled, IngestDrains, Expire, vars, runV, blobV, consV, sweepV
    <3>2. QED
      BY <3>1, FrameKeeps DEF EvidenceInv, Types
  <2>4. CASE Deploy
    BY <2>4, FrameKeeps DEF Deploy, runV, blobV, consV, sweepV, EvidenceInv, Types
  <2>2. CASE IngestUnlock
    BY <2>2, EvidenceAssumption
       DEF IngestUnlock, EvidenceInv, Types, Exclusive, Verifying, Recomputing, Retaining, Settled,
           EvidenceKept, VerdictIsCurrent, GoneIsSettled, RecomputeCandidate, Consumers, runV, blobV,
           consV, sweepV
  <2>3. QED
    BY <2>1, <2>2, <2>4, AskKeeps, LockKeeps, VerifyKeeps, RecomputeKeeps, RetainKeeps DEF Next, Work
<1>2. QED
  BY EvidenceInit, <1>1, PTL DEF Spec

\* A verdict is about the figures the run has now: a recompute only ever replaces figures
\* that are not exact, which no verdict is about, and a verification writes under the lock
\* it compared under.
THEOREM VerdictsCurrent == Spec => []VerdictIsCurrent
<1>1. EvidenceInv => VerdictIsCurrent
  BY DEF EvidenceInv, Settled
<1>2. QED
  BY <1>1, EvidenceInvariant, PTL

\* Retention never takes the log of a run that is to be recomputed or that disagrees with
\* it, and no row says its log is gone while the object is there.
THEOREM EvidenceIsKept == Spec => []EvidenceKept
<1>1. EvidenceInv => EvidenceKept
  BY DEF EvidenceInv, Settled
<1>2. QED
  BY <1>1, EvidenceInvariant, PTL

\* Nobody is left waiting for a verification whose log is gone, whenever it was asked for.
THEOREM GoneSettled == Spec => []GoneIsSettled
<1>1. EvidenceInv => GoneIsSettled
  BY DEF EvidenceInv, Settled
<1>2. QED
  BY <1>1, EvidenceInvariant, PTL

\* No step replaces a verdict by "cannot be verified", unless a retention pass stopped
\* half-way: a verification that finds no log read the row after the log was gone.
THEOREM AnswersStand == Spec => AnswerStands
<1> DEFINE Stands == verif.status \in Verdicts /\ ~torn => verif'.status # "unverifiable"
<1>1. ASSUME EvidenceInv, [Next]_vars PROVE Stands
  <2>1. CASE UNCHANGED verif
    BY <2>1 DEF Verdicts
  <2>2. CASE MarkPending \/ MarkRawLogDeleted \/ EnsurePending
    BY <2>2 DEF MarkPending, MarkRawLogDeleted, EnsurePending, Pending, NoRow, Verdicts
  <2>3. ASSUME NEW p \in Consumers, VerifyWrite(p) PROVE Stands
    BY <1>1, <2>3 DEF VerifyWrite, EvidenceInv, Types, Verifying, Consumers, Record
  <2>4. QED
    BY <1>1, <2>1, <2>2, <2>3
       DEF Next, Ask, Work, Recompute, Retain, JobDue, JobStalled, AskPend, ScanPage, AskLook, AskQueue,
           AskLost, IngestUnlock, IngestDrains, Take, TryLock, Unlock, Ack, Throw, Crash, VerifyRead,
           VerifyFind, VerifyOpen, VerifyCompare, RecomputeRead, RecomputeOpen, RecomputeFail,
           RecomputeCommit, RetainPage, RetainLock, RetainCheck, RetainDelete, RetainStamp, RetainError,
           RetainUnlock, Expire, Deploy, vars
<1>2. EvidenceInv /\ [Next]_vars => [Stands]_vars
  BY <1>1
<1>3. QED
  BY <1>2, EvidenceInvariant, PTL DEF AnswerStands, Spec
=============================================================================
