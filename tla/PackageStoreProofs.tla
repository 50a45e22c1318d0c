------------------------- MODULE PackageStoreProofs -------------------------
(***************************************************************************)
(* The rows and files of packages: proofs for any number of requests, any  *)
(* contents and any faults.                                                *)
(***************************************************************************)
EXTENDS PackageStore, TLAPS

Steps == {"idle", "find", "file", "byName", "again", "make", "add", "write", "stored", "failed",
          "undone", "read", "insert", "retry", "lock", "count", "remove", "unlink", "done"}
JobStates == {"none", "active", "complete", "failed", "cancelled"}

\* A request before the end of its addVersion; one that has stored a file no row names
\* yet; one that must still remove it, or name it.
Before  == {"idle", "find", "file", "byName", "again", "make", "add", "write"}
Filed   == {"byName", "again", "make", "add", "write"}
Pending == Filed \cup {"failed", "undone"}

Types ==
    /\ live \in 0..MaxPackages /\ made \in 0..MaxPackages
    /\ current \in Reqs \cup {None}
    /\ vpkg \in [Reqs -> (0..MaxPackages) \cup {None}] /\ files \subseteq Reqs
    /\ job \in [Reqs -> JobStates] /\ jobOf \in [Reqs -> Reqs \cup {None}]
    /\ plock \in Reqs \cup {None}
    /\ pc \in [Reqs -> Steps] /\ kind \in [Reqs -> Kinds \cup {None}]
    /\ pkg \in [Reqs -> 0..MaxPackages] /\ ver \in [Reqs -> Reqs \cup {None}]
    /\ picked \subseteq Reqs /\ held \subseteq Reqs
    /\ doomed \in [Reqs \cup {Sweep} -> SUBSET Reqs]

\* What the holder of the package's lock may rely on: nobody deletes the package, moves a
\* version to another one, or queues a job.
Locked ==
    \A q \in Reqs :
      /\ pc[q] \in {"write", "count", "remove"} <=> plock = q
      /\ plock = q => live # 0
      /\ pc[q] = "write" =>
           /\ pkg[q] = live
           /\ ver[q] \in Reqs /\ Content[ver[q]] = Content[q]
           /\ ver[q] # q => vpkg[ver[q]] \in {live, None}
      /\ pc[q] = "remove" => ~\E j \in Reqs : Active(j) /\ vpkg[jobOf[j]] = live

\* A version is in the package there is, in none, or gone, and only its own request makes
\* it.  What is current or runs is in that package.
Versions ==
    /\ \A v \in Reqs :
         /\ vpkg[v] \in {None, 0, live}
         /\ pc[v] \in Before => vpkg[v] = None
    /\ current # None => live # 0 /\ vpkg[current] = live
    /\ \A j \in Reqs :
         /\ job[j] # "none" => jobOf[j] \in Reqs
         /\ Active(j) => live # 0 /\ vpkg[jobOf[j]] = live

\* A file that is to be removed is of a version that is out of its package for good.
Files ==
    /\ \A p \in Reqs \cup {Sweep} : \A v \in doomed[p] :
         vpkg[v] \in {None, 0} /\ pc[v] \notin Before
    /\ \A q \in Reqs : pc[q] \in Filed => q \in files
    /\ ~unsure => \A v \in Reqs :
         /\ live # 0 /\ vpkg[v] = live => v \in files
         /\ pc[v] \in {"failed", "undone"} => vpkg[v] = None

\* The version a request works with has the bytes it uploaded, if it uploaded any.
Uploads ==
    \A q \in Reqs :
      /\ pc[q] = "idle" => job[q] = "none"
      /\ pc[q] = "retry" => kind[q] = "retry"
      /\ pc[q] \in {"read", "insert"} => ver[q] \in Reqs
      /\ kind[q] = "run" /\ pc[q] \in {"read", "insert"} => Content[ver[q]] = Content[q]
      /\ kind[q] = "run" /\ job[q] # "none" => Content[jobOf[q]] = Content[q]

\* Where nothing died, a file without a row has somebody who will remove or name it.
Orphans ==
    ~hurt => \A v \in files : vpkg[v] # None \/ pc[v] \in Pending \/ v \in doomed[Sweep]

StoreInv == Types /\ Locked /\ Versions /\ Files /\ Uploads /\ Orphans

\* Every step keeps the types.
LEMMA TypesKept == ASSUME Types, [Next]_vars PROVE Types'
<1> USE PackageAssumption DEF Types, Steps, JobStates, Goto, End, Sweep, rowV, reqV, sweepV, histV
<1>1. ASSUME NEW q \in Reqs, NEW k \in Kinds, Request(q, k) PROVE Types'
  BY <1>1 DEF Request, FirstStep, Kinds
<1>2. ASSUME NEW q \in Reqs, Find(q) PROVE Types'
  BY <1>2 DEF Find
<1>3. ASSUME NEW q \in Reqs, StoreFile(q) PROVE Types'
  BY <1>3 DEF StoreFile
<1>4. ASSUME NEW q \in Reqs, ByName(q) \/ Make(q) PROVE Types'
  BY <1>4 DEF ByName, Make
<1>5. ASSUME NEW q \in Reqs, AddLock(q) PROVE Types'
  BY <1>5 DEF AddLock, SameBytes
<1>6. ASSUME NEW q \in Reqs, AddWrite(q) PROVE Types'
  BY <1>6 DEF AddWrite, AfterAdd
<1>7. ASSUME NEW q \in Reqs, AddFails(q) PROVE Types'
  BY <1>7 DEF AddFails
<1>8. ASSUME NEW q \in Reqs, Undo(q) PROVE Types'
  BY <1>8 DEF Undo
<1>9. ASSUME NEW q \in Reqs, Cleanup(q) \/ Stored(q) PROVE Types'
  BY <1>9 DEF Cleanup, Stored
<1>10. ASSUME NEW q \in Reqs, QueueRead(q) \/ QueueInsert(q) \/ \E j \in Reqs : Retry(q, j) PROVE Types'
  <2>1. CASE QueueRead(q)
    BY <2>1 DEF QueueRead
  <2>2. CASE QueueInsert(q)
    BY <2>2 DEF QueueInsert
  <2>3. ASSUME NEW j \in Reqs, Retry(q, j) PROVE Types'
    BY <2>3 DEF Retry
  <2>4. QED
    BY <1>10, <2>1, <2>2, <2>3
<1>11. ASSUME NEW q \in Reqs, NEW s \in {"complete", "failed", "cancelled"}, EndJob(q, s) PROVE Types'
  BY <1>11 DEF EndJob
<1>12. ASSUME NEW q \in Reqs, DeleteLock(q) \/ DeleteCount(q) \/ DeletePackage(q) \/ DeleteDone(q)
       PROVE  Types'
  BY <1>12 DEF DeleteLock, DeleteCount, DeletePackage, DeleteDone
<1>13. ASSUME NEW q \in Reqs, CrashApi(q) PROVE Types'
  BY <1>13 DEF CrashApi
<1>14. ASSUME NEW p \in Reqs \cup {Sweep}, NEW v \in Reqs, RemoveFile(p, v) PROVE Types'
  BY <1>14 DEF RemoveFile
<1>15. CASE Age \/ CleanJobs \/ CleanPick \/ CleanLock \/ CleanDelete \/ CrashRunner
  <2>1. CASE Age \/ CleanPick \/ CleanLock
    BY <2>1 DEF Age, CleanPick, CleanLock, Unneeded
  <2>2. CASE CleanJobs
    BY <2>2 DEF CleanJobs
  <2>3. CASE CleanDelete \/ CrashRunner
    BY <2>3 DEF CleanDelete, CrashRunner
  <2>4. QED
    BY <1>15, <2>1, <2>2, <2>3
<1>16. CASE UNCHANGED vars
  BY <1>16 DEF vars
<1> HIDE DEF Types, Goto, End
<1>17. QED
  BY <1>1, <1>2, <1>3, <1>4, <1>5, <1>6, <1>7, <1>8, <1>9, <1>10, <1>11, <1>12, <1>13, <1>14, <1>15,
     <1>16 DEF Next

\* The steps of a request up to its transaction.
LEMMA RequestKeeps ==
    ASSUME StoreInv, Types', NEW q \in Reqs,
           \/ \E k \in Kinds : Request(q, k)
           \/ Find(q) \/ StoreFile(q) \/ ByName(q) \/ Make(q)
    PROVE  StoreInv'
<1> USE PackageAssumption
    DEF StoreInv, Types, Locked, Versions, Files, Uploads, Orphans, Steps, JobStates, Before, Filed,
        Pending, Kinds, Goto, End, Active, Sweep, rowV, sweepV, histV
<1>1. ASSUME NEW k \in Kinds, Request(q, k) PROVE StoreInv'
  BY <1>1 DEF Request, FirstStep
<1>2. CASE Find(q)
  <2>2. Locked'
    BY <1>2 DEF Find
  <2>3. Versions'
    BY <1>2 DEF Find
  <2>4. Files'
    BY <1>2 DEF Find
  <2>5. Uploads'
    BY <1>2 DEF Find
  <2>6. Orphans'
    BY <1>2 DEF Find
  <2>7. QED
    BY <2>2, <2>3, <2>4, <2>5, <2>6 DEF StoreInv
<1>3. CASE StoreFile(q)
  <2>1. Locked'
    BY <1>3 DEF StoreFile
  <2>2. Versions'
    BY <1>3 DEF StoreFile
  <2>3. Files'
    BY <1>3 DEF StoreFile
  <2>4. Uploads'
    BY <1>3 DEF StoreFile
  <2>5. Orphans'
    BY <1>3 DEF StoreFile
  <2>6. QED
    BY <2>1, <2>2, <2>3, <2>4, <2>5 DEF StoreInv
<1>4. CASE ByName(q)
  <2>2. Locked'
    BY <1>4 DEF ByName
  <2>3. Versions'
    BY <1>4 DEF ByName
  <2>4. Files'
    BY <1>4 DEF ByName
  <2>5. Uploads'
    BY <1>4 DEF ByName
  <2>6. Orphans'
    BY <1>4 DEF ByName
  <2>7. QED
    BY <2>2, <2>3, <2>4, <2>5, <2>6 DEF StoreInv
<1>5. CASE Make(q)
  <2>1. Locked'
    BY <1>5 DEF Make
  <2>2. Versions'
    BY <1>5 DEF Make
  <2>3. Files'
    BY <1>5 DEF Make
  <2>4. Uploads'
    BY <1>5 DEF Make
  <2>5. Orphans'
    BY <1>5 DEF Make
  <2>6. QED
    BY <2>1, <2>2, <2>3, <2>4, <2>5 DEF StoreInv
<1>6. QED
  BY <1>1, <1>2, <1>3, <1>4, <1>5

\* addVersion and what follows it.
LEMMA AddKeeps ==
    ASSUME StoreInv, Types', NEW q \in Reqs,
           AddLock(q) \/ AddWrite(q) \/ AddFails(q) \/ Undo(q) \/ Cleanup(q) \/ Stored(q)
    PROVE  StoreInv'
<1> USE PackageAssumption
    DEF StoreInv, Types, Locked, Versions, Files, Uploads, Orphans, Steps, JobStates, Before, Filed,
        Pending, Kinds, Goto, End, Active, Sweep, rowV, sweepV, histV
<1>1. CASE AddLock(q)
  BY <1>1 DEF AddLock, SameBytes
<1>2. CASE AddWrite(q)
  <2>1. Locked'
    BY <1>2 DEF AddWrite, AfterAdd
  <2>2. Versions'
    BY <1>2 DEF AddWrite, AfterAdd
  <2>3. Files'
    BY <1>2 DEF AddWrite, AfterAdd
  <2>4. Uploads'
    BY <1>2 DEF AddWrite, AfterAdd
  <2>5. Orphans'
    BY <1>2 DEF AddWrite, AfterAdd
  <2>6. QED
    BY <2>1, <2>2, <2>3, <2>4, <2>5 DEF StoreInv
<1>3. CASE AddFails(q)
  <2>2. Locked'
    BY <1>3 DEF AddFails, Fault
  <2>3. Versions'
    BY <1>3 DEF AddFails, Fault
  <2>4. Files'
    BY <1>3 DEF AddFails, Fault
  <2>5. Uploads'
    BY <1>3 DEF AddFails, Fault
  <2>6. Orphans'
    BY <1>3 DEF AddFails, Fault
  <2>7. QED
    BY <2>2, <2>3, <2>4, <2>5, <2>6 DEF StoreInv
<1>4. CASE Undo(q)
  BY <1>4 DEF Undo
<1>5. CASE Cleanup(q)
  <2>2. Locked'
    BY <1>5 DEF Cleanup
  <2>3. Versions'
    BY <1>5 DEF Cleanup
  <2>4. Files'
    BY <1>5 DEF Cleanup
  <2>5. Uploads'
    BY <1>5 DEF Cleanup
  <2>6. Orphans'
    BY <1>5 DEF Cleanup
  <2>7. QED
    BY <2>2, <2>3, <2>4, <2>5, <2>6 DEF StoreInv
<1>6. CASE Stored(q)
  BY <1>6 DEF Stored
<1>7. QED
  BY <1>1, <1>2, <1>3, <1>4, <1>5, <1>6

\* createQueued, retry, and the end of a job.
LEMMA QueueKeeps ==
    ASSUME StoreInv, Types', NEW q \in Reqs,
           \/ QueueRead(q) \/ QueueInsert(q) \/ \E j \in Reqs : Retry(q, j)
           \/ \E s \in {"complete", "failed", "cancelled"} : EndJob(q, s)
    PROVE  StoreInv'
<1> USE PackageAssumption
    DEF StoreInv, Types, Locked, Versions, Files, Uploads, Orphans, Steps, JobStates, Before, Filed,
        Pending, Kinds, Goto, End, Active, Sweep, Runnable, rowV, reqV, sweepV, histV
<1>1. CASE QueueRead(q)
  <2>1. Locked'
    BY <1>1 DEF QueueRead
  <2>2. Versions'
    BY <1>1 DEF QueueRead
  <2>3. Files'
    BY <1>1 DEF QueueRead
  <2>4. Uploads'
    BY <1>1 DEF QueueRead
  <2>5. Orphans'
    BY <1>1 DEF QueueRead
  <2>6. QED
    BY <2>1, <2>2, <2>3, <2>4, <2>5 DEF StoreInv
<1>2. CASE QueueInsert(q)
  BY <1>2 DEF QueueInsert
<1>3. ASSUME NEW j \in Reqs, Retry(q, j) PROVE StoreInv'
  <2>2. Locked'
    BY <1>3 DEF Retry
  <2>3. Versions'
    BY <1>3 DEF Retry
  <2>4. Files'
    BY <1>3 DEF Retry
  <2>5. Uploads'
    BY <1>3 DEF Retry
  <2>6. Orphans'
    BY <1>3 DEF Retry
  <2>7. QED
    BY <2>2, <2>3, <2>4, <2>5, <2>6 DEF StoreInv
<1>4. ASSUME NEW s \in {"complete", "failed", "cancelled"}, EndJob(q, s) PROVE StoreInv'
  BY <1>4 DEF EndJob
<1>5. QED
  BY <1>1, <1>2, <1>3, <1>4

\* delete, the removal of files, and the end of the API.
LEMMA DeleteKeeps ==
    ASSUME StoreInv, Types', NEW q \in Reqs,
           DeleteLock(q) \/ DeleteCount(q) \/ DeletePackage(q) \/ DeleteDone(q) \/ CrashApi(q)
    PROVE  StoreInv'
<1> USE PackageAssumption
    DEF StoreInv, Types, Locked, Versions, Files, Uploads, Orphans, Steps, JobStates, Before, Filed,
        Pending, Kinds, Goto, End, Active, Sweep, rowV, reqV, sweepV, histV
<1>1. CASE DeleteLock(q)
  <2>2. Locked'
    BY <1>1 DEF DeleteLock
  <2>3. Versions'
    BY <1>1 DEF DeleteLock
  <2>4. Files'
    BY <1>1 DEF DeleteLock
  <2>5. Uploads'
    BY <1>1 DEF DeleteLock
  <2>6. Orphans'
    BY <1>1 DEF DeleteLock
  <2>7. QED
    BY <2>2, <2>3, <2>4, <2>5, <2>6 DEF StoreInv
<1>2. CASE DeleteCount(q)
  <2>2. Locked'
    BY <1>2 DEF DeleteCount
  <2>3. Versions'
    BY <1>2 DEF DeleteCount
  <2>4. Files'
    BY <1>2 DEF DeleteCount
  <2>5. Uploads'
    BY <1>2 DEF DeleteCount
  <2>6. Orphans'
    BY <1>2 DEF DeleteCount
  <2>7. QED
    BY <2>2, <2>3, <2>4, <2>5, <2>6 DEF StoreInv
<1>3. CASE DeletePackage(q)
  <2>1. Locked'
    BY <1>3 DEF DeletePackage
  <2>2. Versions'
    BY <1>3 DEF DeletePackage
  <2>3. Files'
    <3>1. /\ UNCHANGED <<files, unsure>> /\ pc[q] = "remove" /\ live # 0
          /\ pc' \in {[pc EXCEPT ![q] = "unlink"], [pc EXCEPT ![q] = "done"]}
      BY <1>3 DEF DeletePackage
    <3>2. CASE UNCHANGED <<live, vpkg, doomed>>
      BY <3>1, <3>2
    <3>3. CASE /\ live' = 0 /\ vpkg' = [v \in Reqs |-> IF vpkg[v] = live THEN 0 ELSE vpkg[v]]
               /\ doomed' = [doomed EXCEPT ![q] = {v \in Reqs : vpkg[v] = live}]
      <4>1. ASSUME NEW p \in Reqs \cup {Sweep}, NEW v \in doomed'[p]
            PROVE  v \in Reqs /\ vpkg'[v] \in {None, 0} /\ pc'[v] \notin Before
        BY <3>1, <3>3
      <4>2. \A v \in Reqs : pc'[v] \in Filed => v \in files'
        BY <3>1
      <4>3. ~unsure' => \A v \in Reqs : pc'[v] \in {"failed", "undone"} => vpkg'[v] = None
        BY <3>1, <3>3
      <4>4. QED
        BY <3>3, <4>1, <4>2, <4>3
    <3>4. QED
      BY <1>3, <3>2, <3>3 DEF DeletePackage
  <2>4. Uploads'
    BY <1>3 DEF DeletePackage
  <2>5. Orphans'
    <3>1. doomed'[Sweep] = doomed[Sweep] /\ UNCHANGED <<files, hurt>>
      BY <1>3 DEF DeletePackage
    <3>2. ASSUME NEW v \in Reqs, vpkg[v] # None PROVE vpkg'[v] # None
      BY <1>3, <3>2 DEF DeletePackage
    <3>3. ASSUME NEW v \in Reqs, pc[v] \in Pending PROVE pc'[v] \in Pending
      BY <1>3, <3>3 DEF DeletePackage
    <3>4. QED
      BY <3>1, <3>2, <3>3
  <2>6. QED
    BY <2>1, <2>2, <2>3, <2>4, <2>5 DEF StoreInv
<1>4. CASE DeleteDone(q)
  BY <1>4 DEF DeleteDone
<1>5. CASE CrashApi(q)
  BY <1>5 DEF CrashApi
<1>6. QED
  BY <1>1, <1>2, <1>3, <1>4, <1>5

\* The retention pass and the removal of files.
LEMMA CleanKeeps ==
    ASSUME StoreInv, Types',
           \/ \E p \in Reqs \cup {Sweep}, v \in Reqs : RemoveFile(p, v)
           \/ Age \/ CleanJobs \/ CleanPick \/ CleanLock \/ CleanDelete \/ CrashRunner
           \/ UNCHANGED vars
    PROVE  StoreInv'
<1> USE PackageAssumption
    DEF StoreInv, Types, Locked, Versions, Files, Uploads, Orphans, Steps, JobStates, Before, Filed,
        Pending, Kinds, Active, Sweep, rowV, reqV, sweepV, histV
<1>1. ASSUME NEW p \in Reqs \cup {Sweep}, NEW v \in Reqs, RemoveFile(p, v) PROVE StoreInv'
  <2>2. Locked'
    BY <1>1 DEF RemoveFile
  <2>3. Versions'
    BY <1>1 DEF RemoveFile
  <2>4. Files'
    BY <1>1 DEF RemoveFile
  <2>5. Uploads'
    BY <1>1 DEF RemoveFile
  <2>6. Orphans'
    BY <1>1 DEF RemoveFile
  <2>7. QED
    BY <2>2, <2>3, <2>4, <2>5, <2>6 DEF StoreInv
<1>2. CASE Age
  BY <1>2 DEF Age
<1>3. CASE CleanJobs
  <2>1. Locked'
    <3>1. /\ \A j \in Reqs : job'[j] # "none" => job'[j] = job[j] /\ jobOf'[j] = jobOf[j]
          /\ UNCHANGED <<pc, plock, live, pkg, ver, vpkg>>
      BY <1>3 DEF CleanJobs
    <3>2. QED
      BY <3>1
  <2>2. Versions'
    BY <1>3 DEF CleanJobs
  <2>3. Files'
    BY <1>3 DEF CleanJobs
  <2>4. Uploads'
    BY <1>3 DEF CleanJobs
  <2>5. Orphans'
    BY <1>3 DEF CleanJobs
  <2>6. QED
    BY <2>1, <2>2, <2>3, <2>4, <2>5 DEF StoreInv
<1>4. CASE CleanPick \/ CleanLock
  <2>2. Locked'
    BY <1>4 DEF CleanPick, CleanLock
  <2>3. Versions'
    BY <1>4 DEF CleanPick, CleanLock
  <2>4. Files'
    BY <1>4 DEF CleanPick, CleanLock
  <2>5. Uploads'
    BY <1>4 DEF CleanPick, CleanLock
  <2>6. Orphans'
    BY <1>4 DEF CleanPick, CleanLock
  <2>7. QED
    BY <2>2, <2>3, <2>4, <2>5, <2>6 DEF StoreInv
<1>5. CASE CleanDelete
  <2>1. Locked'
    BY <1>5 DEF CleanDelete, Unneeded, Needed
  <2>2. Versions'
    BY <1>5 DEF CleanDelete, Unneeded, Needed
  <2>3. Files'
    BY <1>5 DEF CleanDelete, Unneeded, Needed
  <2>4. Uploads'
    BY <1>5 DEF CleanDelete, Unneeded, Needed
  <2>5. Orphans'
    BY <1>5 DEF CleanDelete, Unneeded, Needed
  <2>6. QED
    BY <2>1, <2>2, <2>3, <2>4, <2>5 DEF StoreInv
<1>6. CASE CrashRunner
  BY <1>6 DEF CrashRunner
<1>7. CASE UNCHANGED vars
  BY <1>7 DEF vars
<1>8. QED
  BY <1>1, <1>2, <1>3, <1>4, <1>5, <1>6, <1>7

\* StoreInv is inductive.
LEMMA StoreInvariant == Spec => []StoreInv
<1>1. Init => StoreInv
  BY PackageAssumption
     DEF Init, StoreInv, Types, Locked, Versions, Files, Uploads, Orphans, Steps, JobStates, Before,
         Filed, Pending, Kinds, Active, Sweep
<1>2. StoreInv /\ [Next]_vars => StoreInv'
  BY TypesKept, RequestKeeps, AddKeeps, QueueKeeps, DeleteKeeps, CleanKeeps DEF Next, StoreInv
<1>3. QED
  BY <1>1, <1>2, PTL DEF Spec

\* Whatever uploads, runs, deletes and retention passes race: the file and the row of every
\* job that runs are there, and so are those of the version the next run starts from,
\* because whoever would take them holds the package's lock and finds no active job, or
\* finds the version needed (PackageRepository.delete, cleanupExpiredArtifacts).
THEOREM NeededFilesStay == Spec => []NeededHasFile
<1>1. StoreInv => NeededHasFile
  BY PackageAssumption DEF StoreInv, Types, Versions, Files, NeededHasFile, Active
<1>2. QED
  BY <1>1, StoreInvariant, PTL

\* A run started with an upload runs those bytes: what addVersion answers with, and what
\* createQueued then inserts, is the request's own version or one of the same checksum.
THEOREM UploadsRun == Spec => []RunsItsUpload
<1>1. StoreInv => RunsItsUpload
  BY DEF StoreInv, Uploads, RunsItsUpload
<1>2. QED
  BY <1>1, StoreInvariant, PTL

\* Where no process died and no unlink failed, every file at rest is named by a version:
\* each catch removes what its request stored, and each delete what it took.
THEOREM NoFileOrphaned == Spec => []NoOrphanFile
<1>1. StoreInv => NoOrphanFile
  BY DEF StoreInv, Types, Orphans, Pending, Filed, NoOrphanFile
<1>2. QED
  BY <1>1, StoreInvariant, PTL
=============================================================================
