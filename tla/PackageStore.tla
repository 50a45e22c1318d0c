---------------------------- MODULE PackageStore ----------------------------
(***************************************************************************)
(* The packages a runner job is started from: the package row of one name, *)
(* its uploaded versions and their files, the requests that create, fill,  *)
(* run, retry and delete it, and the runner's retention pass.              *)
(*                                                                         *)
(* A version, its file and a job are named by the request that made them.  *)
(* The bytes of a file are told apart by Content, as their SHA-256 does.   *)
(* How a job runs is in RunnerJob: here it is active until it ends.        *)
(***************************************************************************)
EXTENDS Naturals

CONSTANTS
    Reqs,         \* requests; each is one call of one kind
    Content,      \* the bytes each request would upload
    MaxPackages,  \* bound on the packages of this name, one after the other
    FaultKinds,   \* the failures that may happen
    MaxFaults,    \* bound on their number
    None          \* NULL

FaultSet == {"rollback", "answer", "unlink", "crash"}
Kinds == {"create", "upload", "run", "start", "retry", "delete"}

ASSUME PackageAssumption ==
    /\ MaxPackages \in Nat /\ MaxFaults \in Nat
    /\ FaultKinds \subseteq FaultSet
    /\ None \notin Reqs \cup (0..MaxPackages) /\ "sweep" \notin Reqs

VARIABLES
    live, made,      \* the package of this name (0: none), packages so far
    current,         \* its current_artifact_id
    vpkg,            \* version rows: None, 0 (its package was deleted), or the package
    files,           \* versions whose file is on disk
    job, jobOf,      \* job rows: status, and the version each runs
    old,             \* <<"version", q>>, <<"job", q>>: rows past the retention window
    plock,           \* who holds the package row FOR UPDATE
    pc, kind,        \* requests
    pkg, ver,        \* the package and the version a request works with
    rpc, picked,     \* the retention pass and the versions it picked
    held,            \* ... locked
    doomed,          \* files the pass or a delete still has to remove, per process
    unsure,          \* history: an answer was lost after its commit
    hurt,            \* history: a process died or an unlink failed
    faults

rowV   == <<live, made, current, vpkg, job, jobOf, old>>
reqV   == <<pc, kind, pkg, ver>>
sweepV == <<rpc, picked, held>>
histV  == <<unsure, hurt>>
vars   == <<rowV, files, plock, reqV, sweepV, doomed, histV, faults>>

Sweep == "sweep"

Init ==
    /\ live = 0 /\ made = 0 /\ current = None
    /\ vpkg = [q \in Reqs |-> None] /\ files = {}
    /\ job = [q \in Reqs |-> "none"] /\ jobOf = [q \in Reqs |-> None]
    /\ old = {} /\ plock = None
    /\ pc = [q \in Reqs |-> "idle"] /\ kind = [q \in Reqs |-> None]
    /\ pkg = [q \in Reqs |-> 0] /\ ver = [q \in Reqs |-> None]
    /\ rpc = "idle" /\ picked = {} /\ held = {}
    /\ doomed = [p \in Reqs \cup {Sweep} |-> {}]
    /\ unsure = FALSE /\ hurt = FALSE /\ faults = 0

Fault(k) ==
    /\ k \in FaultKinds
    /\ faults < MaxFaults
    /\ faults' = faults + 1

Goto(q, to) == pc' = [pc EXCEPT ![q] = to]

\* The request is over: its locals are gone.
End(q) ==
    /\ Goto(q, "done")
    /\ pkg' = [pkg EXCEPT ![q] = 0] /\ ver' = [ver EXCEPT ![q] = None]

Active(q) == job[q] = "active"
Needed(v) == \E j \in Reqs : job[j] # "none" /\ jobOf[j] = v

-----------------------------------------------------------------------------
(* The requests, up to the transaction each is about. *)

FirstStep(k) ==
    CASE k \in {"create", "run"} -> "file"
      [] k \in {"upload", "start"} -> "find"
      [] k = "retry" -> "retry"
      [] k = "delete" -> "lock"

Request(q, k) ==
    /\ pc[q] = "idle"
    /\ kind' = [kind EXCEPT ![q] = k]
    /\ Goto(q, FirstStep(k))
    /\ UNCHANGED <<rowV, files, plock, pkg, ver, sweepV, doomed, histV, faults>>

\* packages.find: an upload keeps its id, a start also the version that is current.
Find(q) ==
    /\ pc[q] = "find"
    /\ IF live = 0 \/ (kind[q] = "start" /\ current = None)
       THEN End(q)
       ELSE /\ pkg' = [pkg EXCEPT ![q] = live]
            /\ ver' = [ver EXCEPT ![q] = IF kind[q] = "start" THEN current ELSE None]
            /\ Goto(q, IF kind[q] = "start" THEN "read" ELSE "file")
    /\ UNCHANGED <<rowV, files, plock, kind, sweepV, doomed, histV, faults>>

\* The file is on disk under its final name before any row names it; one that is no
\* package of its kind is refused and removed.
StoreFile(q) ==
    /\ pc[q] = "file"
    /\ \/ /\ files' = files \cup {q}
          /\ Goto(q, CASE kind[q] = "upload" -> "add" [] kind[q] = "run" -> "byName"
                       [] OTHER -> "make")
          /\ UNCHANGED <<pkg, ver>>
       \/ End(q) /\ UNCHANGED files
    /\ UNCHANGED <<rowV, plock, kind, sweepV, doomed, histV, faults>>

\* packageForUpload: the package of that name, or a new one; "again" after losing the
\* name to another request.
ByName(q) ==
    /\ pc[q] \in {"byName", "again"}
    /\ IF live # 0 THEN pkg' = [pkg EXCEPT ![q] = live] /\ Goto(q, "add")
       ELSE Goto(q, IF pc[q] = "byName" THEN "make" ELSE "undone") /\ UNCHANGED pkg
    /\ UNCHANGED <<rowV, files, plock, kind, ver, sweepV, doomed, histV, faults>>

\* PackageRepository.create: the name is unique in the project.
Make(q) ==
    /\ pc[q] = "make"
    /\ IF live = 0
       THEN /\ made < MaxPackages
            /\ made' = made + 1 /\ live' = made + 1 /\ current' = None
            /\ pkg' = [pkg EXCEPT ![q] = made + 1]
            /\ Goto(q, "add")
       ELSE Goto(q, IF kind[q] = "run" THEN "again" ELSE "undone")
            /\ UNCHANGED <<live, made, current, pkg>>
    /\ UNCHANGED <<vpkg, job, jobOf, old, files, plock, kind, ver, sweepV, doomed, histV,
                   faults>>

-----------------------------------------------------------------------------
(* PackageRepository.addVersion, one transaction under the package's lock. *)

SameBytes(q) == {v \in Reqs : vpkg[v] = pkg[q] /\ Content[v] = Content[q]}

\* Locks the package and looks for the same bytes; null when the package is gone.
AddLock(q) ==
    /\ pc[q] = "add" /\ plock = None
    /\ IF live = 0 \/ live # pkg[q] THEN Goto(q, "undone") /\ UNCHANGED <<plock, ver>>
       ELSE /\ plock' = q
            /\ \/ SameBytes(q) = {} /\ ver' = [ver EXCEPT ![q] = q]
               \/ \E v \in SameBytes(q) : ver' = [ver EXCEPT ![q] = v]
            /\ Goto(q, "write")
    /\ UNCHANGED <<rowV, files, kind, pkg, sweepV, doomed, histV, faults>>

\* What a request does with its answer: a run goes on to queue its job.
AfterAdd(q) == IF kind[q] = "run" THEN "read" ELSE "stored"

\* The insert, or the row that is there; it becomes current, unless retention removed it
\* while the foreign key waited.  The file just written goes when its bytes were known.
AddWrite(q) ==
    /\ pc[q] = "write" /\ ver[q] \notin held
    /\ plock' = None
    /\ IF ver[q] # q /\ vpkg[ver[q]] = None
       THEN Goto(q, "failed") /\ UNCHANGED <<vpkg, current, files>>
       ELSE /\ vpkg' = [vpkg EXCEPT ![ver[q]] = pkg[q]] /\ current' = ver[q]
            /\ files' = IF ver[q] = q THEN files ELSE files \ {q}
            /\ Goto(q, AfterAdd(q))
    /\ UNCHANGED <<live, made, job, jobOf, old, kind, pkg, ver, sweepV, doomed, histV,
                   faults>>

\* The transaction fails, or commits and its answer is lost: the caller cannot tell.
AddFails(q) ==
    /\ pc[q] = "write" /\ ver[q] \notin held
    /\ plock' = None
    /\ \/ Fault("rollback") /\ UNCHANGED <<vpkg, current, unsure>>
       \/ /\ Fault("answer") /\ unsure' = TRUE
          /\ ver[q] = q \/ vpkg[ver[q]] # None
          /\ vpkg' = [vpkg EXCEPT ![ver[q]] = pkg[q]] /\ current' = ver[q]
    /\ Goto(q, "failed")
    /\ UNCHANGED <<live, made, job, jobOf, old, files, kind, pkg, ver, sweepV, doomed, hurt>>

\* create also takes back the package it made, unless a job of it is active by now.
Undo(q) ==
    /\ pc[q] = "failed"
    /\ kind[q] = "create" => plock = None
    /\ IF kind[q] = "create" /\ live = pkg[q]
          /\ ~\E j \in Reqs : Active(j) /\ vpkg[jobOf[j]] = live
       THEN /\ live' = 0 /\ current' = None
            /\ vpkg' = [v \in Reqs |-> IF vpkg[v] = live THEN 0 ELSE vpkg[v]]
       ELSE UNCHANGED <<live, current, vpkg>>
    /\ Goto(q, "undone")
    /\ UNCHANGED <<made, job, jobOf, old, files, plock, kind, pkg, ver, sweepV, doomed,
                   histV, faults>>

\* Mutated Cleanup: the upload's file is left behind.
CleanupForgets(q) ==
    /\ pc[q] = "undone"
    /\ End(q)
    /\ UNCHANGED <<rowV, files, plock, kind, sweepV, doomed, histV, faults>>

\* The catch: the file of this request is removed.
Cleanup(q) ==
    /\ pc[q] = "undone"
    /\ \/ files' = files \ {q} /\ UNCHANGED <<hurt, faults>>
       \/ Fault("unlink") /\ hurt' = TRUE /\ UNCHANGED files
    /\ End(q)
    /\ UNCHANGED <<rowV, plock, kind, sweepV, doomed, unsure>>

Stored(q) ==
    /\ pc[q] = "stored"
    /\ End(q)
    /\ UNCHANGED <<rowV, files, plock, kind, sweepV, doomed, histV, faults>>

-----------------------------------------------------------------------------
(* RunnerRepository.createQueued and retry. *)

Runnable(v) == vpkg[v] \notin {None, 0}

\* The first read: null when the version or its package is gone.
QueueRead(q) ==
    /\ pc[q] = "read"
    /\ IF Runnable(ver[q]) THEN Goto(q, "insert") /\ UNCHANGED <<pkg, ver>> ELSE End(q)
    /\ UNCHANGED <<rowV, files, plock, kind, sweepV, doomed, histV, faults>>

\* Mutated QueueInsert: the package is not locked.
QueueInsertUnlocked(q) ==
    /\ pc[q] = "insert" /\ ver[q] \notin held
    /\ IF Runnable(ver[q])
       THEN job' = [job EXCEPT ![q] = "active"] /\ jobOf' = [jobOf EXCEPT ![q] = ver[q]]
       ELSE UNCHANGED <<job, jobOf>>
    /\ End(q)
    /\ UNCHANGED <<live, made, current, vpkg, old, files, plock, kind, sweepV, doomed,
                   histV, faults>>

\* Mutated QueueInsert: the job runs whatever is current by now.
QueueInsertCurrent(q) ==
    /\ pc[q] = "insert" /\ plock = None /\ ver[q] \notin held
    /\ IF Runnable(ver[q]) /\ current # None
       THEN job' = [job EXCEPT ![q] = "active"] /\ jobOf' = [jobOf EXCEPT ![q] = current]
       ELSE UNCHANGED <<job, jobOf>>
    /\ End(q)
    /\ UNCHANGED <<live, made, current, vpkg, old, files, plock, kind, sweepV, doomed,
                   histV, faults>>

\* FOR SHARE OF the package, which waits for a delete; the job's foreign key waits for
\* retention.  Nothing is queued on a version that is gone by then.
QueueInsert(q) ==
    /\ pc[q] = "insert" /\ plock = None /\ ver[q] \notin held
    /\ IF Runnable(ver[q])
       THEN job' = [job EXCEPT ![q] = "active"] /\ jobOf' = [jobOf EXCEPT ![q] = ver[q]]
       ELSE UNCHANGED <<job, jobOf>>
    /\ End(q)
    /\ UNCHANGED <<live, made, current, vpkg, old, files, plock, kind, sweepV, doomed,
                   histV, faults>>

\* A failed or cancelled job runs again on its own version, in createQueued's statement.
Retry(q, j) ==
    /\ pc[q] = "retry" /\ job[j] \in {"failed", "cancelled"}
    /\ plock = None /\ jobOf[j] \notin held
    /\ IF Runnable(jobOf[j])
       THEN job' = [job EXCEPT ![q] = "active"] /\ jobOf' = [jobOf EXCEPT ![q] = jobOf[j]]
       ELSE UNCHANGED <<job, jobOf>>
    /\ End(q)
    /\ UNCHANGED <<live, made, current, vpkg, old, files, plock, kind, sweepV, doomed,
                   histV, faults>>

\* The runner ends a job, or a request cancels it.
EndJob(q, status) ==
    /\ Active(q)
    /\ job' = [job EXCEPT ![q] = status]
    /\ UNCHANGED <<live, made, current, vpkg, jobOf, old, files, plock, reqV, sweepV, doomed,
                   histV, faults>>

-----------------------------------------------------------------------------
(* PackageRepository.delete and the handler around it. *)

DeleteLock(q) ==
    /\ pc[q] = "lock" /\ plock = None
    /\ IF live = 0 THEN End(q) /\ UNCHANGED plock
       ELSE plock' = q /\ Goto(q, "count") /\ UNCHANGED <<pkg, ver>>
    /\ UNCHANGED <<rowV, files, kind, sweepV, doomed, histV, faults>>

\* The active jobs of its versions, counted under the lock.
DeleteCount(q) ==
    /\ pc[q] = "count"
    /\ IF \E j \in Reqs : Active(j) /\ vpkg[jobOf[j]] = live
       THEN End(q) /\ plock' = None
       ELSE Goto(q, "remove") /\ UNCHANGED <<plock, pkg, ver>>
    /\ UNCHANGED <<rowV, files, kind, sweepV, doomed, histV, faults>>

\* The version rows stay, without their package; their files are handed back.
DeletePackage(q) ==
    /\ pc[q] = "remove"
    /\ \/ /\ live' = 0 /\ current' = None /\ plock' = None
          /\ vpkg' = [v \in Reqs |-> IF vpkg[v] = live THEN 0 ELSE vpkg[v]]
          /\ doomed' = [doomed EXCEPT ![q] = {v \in Reqs : vpkg[v] = live}]
          /\ Goto(q, "unlink")
          /\ UNCHANGED <<pkg, ver, faults>>
       \/ Fault("rollback") /\ plock' = None /\ End(q)
          /\ UNCHANGED <<live, current, vpkg, doomed>>
    /\ UNCHANGED <<made, job, jobOf, old, files, kind, sweepV, histV>>

\* removeIfUnder, one file at a time; a failure is logged.
RemoveFile(p, v) ==
    /\ v \in doomed[p]
    /\ doomed' = [doomed EXCEPT ![p] = @ \ {v}]
    /\ \/ files' = files \ {v} /\ UNCHANGED <<hurt, faults>>
       \/ Fault("unlink") /\ hurt' = TRUE /\ UNCHANGED files
    /\ UNCHANGED <<rowV, plock, reqV, sweepV, unsure>>

DeleteDone(q) ==
    /\ pc[q] = "unlink" /\ doomed[q] = {}
    /\ End(q)
    /\ UNCHANGED <<rowV, files, plock, kind, sweepV, doomed, histV, faults>>

-----------------------------------------------------------------------------
(* cleanupExpiredArtifacts: terminal jobs past the window, then versions. *)

\* The window is days: no request spans it.
Age ==
    /\ \A q \in Reqs : pc[q] \in {"idle", "done"}
    /\ rpc = "idle"
    /\ LET now == {<<"version", v>> : v \in {x \in Reqs : vpkg[x] # None}}
                    \cup {<<"job", j>> : j \in {x \in Reqs : job[x] # "none" /\ ~Active(x)}}
       IN old # now /\ old' = now
    /\ UNCHANGED <<live, made, current, vpkg, job, jobOf, files, plock, reqV, sweepV, doomed,
                   histV, faults>>

CleanJobs ==
    /\ rpc = "idle"
    /\ \E q \in Reqs : <<"version", q>> \in old \/ <<"job", q>> \in old
    /\ job' = [q \in Reqs |-> IF <<"job", q>> \in old THEN "none" ELSE job[q]]
    /\ jobOf' = [q \in Reqs |-> IF <<"job", q>> \in old THEN None ELSE jobOf[q]]
    /\ old' = {o \in old : o[1] # "job"}
    /\ rpc' = "pick"
    /\ UNCHANGED <<live, made, current, vpkg, files, plock, reqV, picked, held, doomed,
                   histV, faults>>

Unneeded(v) == vpkg[v] # None /\ current # v /\ ~Needed(v)

\* Statement 1: its snapshot, then the row locks.
CleanPick ==
    /\ rpc = "pick"
    /\ picked' = {v \in Reqs : Unneeded(v) /\ <<"version", v>> \in old}
    /\ rpc' = IF picked' = {} THEN "idle" ELSE "lock"
    /\ UNCHANGED <<rowV, files, plock, reqV, held, doomed, histV, faults>>

CleanLock ==
    /\ rpc = "lock"
    /\ held' = picked
    /\ rpc' = "delete"
    /\ UNCHANGED <<rowV, files, plock, reqV, picked, doomed, histV, faults>>

\* Statement 2: what is still not needed goes, and its file after it.
CleanDelete ==
    /\ rpc = "delete"
    /\ LET gone == {v \in held : Unneeded(v)} IN
       /\ vpkg' = [v \in Reqs |-> IF v \in gone THEN None ELSE vpkg[v]]
       /\ old' = old \ {<<"version", v>> : v \in gone}
       /\ doomed' = [doomed EXCEPT ![Sweep] = @ \cup gone]
    /\ rpc' = "idle" /\ picked' = {} /\ held' = {}
    /\ UNCHANGED <<live, made, current, job, jobOf, files, plock, reqV, histV, faults>>

\* The API or the runner dies: transactions roll back, what was to follow does not.
CrashApi(q) ==
    /\ pc[q] \notin {"idle", "done"}
    /\ Fault("crash") /\ hurt' = TRUE
    /\ plock' = IF plock = q THEN None ELSE plock
    /\ doomed' = [doomed EXCEPT ![q] = {}]
    /\ End(q)
    /\ UNCHANGED <<rowV, files, kind, sweepV, unsure>>

CrashRunner ==
    /\ rpc # "idle" \/ doomed[Sweep] # {}
    /\ Fault("crash") /\ hurt' = TRUE
    /\ doomed' = [doomed EXCEPT ![Sweep] = {}]
    /\ rpc' = "idle" /\ picked' = {} /\ held' = {}
    /\ UNCHANGED <<rowV, files, plock, reqV, unsure>>

-----------------------------------------------------------------------------
Next ==
    \/ \E q \in Reqs :
         \/ \E k \in Kinds : Request(q, k)
         \/ Find(q) \/ StoreFile(q) \/ ByName(q) \/ Make(q)
         \/ AddLock(q) \/ AddWrite(q) \/ AddFails(q) \/ Undo(q) \/ Cleanup(q) \/ Stored(q)
         \/ QueueRead(q) \/ QueueInsert(q) \/ \E j \in Reqs : Retry(q, j)
         \/ \E s \in {"complete", "failed", "cancelled"} : EndJob(q, s)
         \/ DeleteLock(q) \/ DeleteCount(q) \/ DeletePackage(q) \/ DeleteDone(q)
         \/ CrashApi(q)
    \/ \E p \in Reqs \cup {Sweep}, v \in Reqs : RemoveFile(p, v)
    \/ Age \/ CleanJobs \/ CleanPick \/ CleanLock \/ CleanDelete \/ CrashRunner

Spec == Init /\ [][Next]_vars

-----------------------------------------------------------------------------
(* Properties. *)

\* Every variable holds a value of its type; a version's package is the one there is.
TypeOK ==
    /\ live \in 0..MaxPackages /\ made \in 0..MaxPackages
    /\ current \in Reqs \cup {None}
    /\ vpkg \in [Reqs -> {0, live} \cup {None}]
    /\ files \subseteq Reqs
    /\ job \in [Reqs -> {"none", "active", "complete", "failed", "cancelled"}]
    /\ jobOf \in [Reqs -> Reqs \cup {None}]
    /\ old \subseteq {"version", "job"} \X Reqs
    /\ plock \in Reqs \cup {None}
    /\ pc \in [Reqs -> {"idle", "find", "file", "byName", "again", "make", "add", "write", "stored",
                        "failed", "undone", "read", "insert", "retry", "lock", "count",
                        "remove", "unlink", "done"}]
    /\ kind \in [Reqs -> Kinds \cup {None}]
    /\ pkg \in [Reqs -> 0..MaxPackages] /\ ver \in [Reqs -> Reqs \cup {None}]
    /\ rpc \in {"idle", "pick", "lock", "delete"}
    /\ picked \subseteq Reqs /\ held \subseteq Reqs
    /\ doomed \in [Reqs \cup {Sweep} -> SUBSET Reqs]
    /\ unsure \in BOOLEAN /\ hurt \in BOOLEAN /\ faults \in 0..MaxFaults

\* The version and the file of every active job are there, and so are those the next run
\* would start from, through deletes, uploads and retention that race -- unless the
\* answer to an upload's commit was lost.
NeededHasFile ==
    ~unsure =>
      /\ \A j \in Reqs : Active(j) => jobOf[j] \in files /\ vpkg[jobOf[j]] # None
      /\ current # None => live # 0 /\ vpkg[current] = live /\ current \in files

\* A run started with an upload runs those bytes, whoever uploads at the same time.
RunsItsUpload ==
    \A q \in Reqs : job[q] # "none" /\ kind[q] = "run" => Content[jobOf[q]] = Content[q]

\* When nothing died and no unlink failed, no file stays that no version row names.
NoOrphanFile ==
    ~hurt /\ (\A q \in Reqs : pc[q] \in {"idle", "done"}) /\ doomed[Sweep] = {}
        => \A v \in files : vpkg[v] # None
=============================================================================
