---------------------------- MODULE UploadRequest ---------------------------
(***************************************************************************)
(* POST /v1/runs: a bundle is stored, its run row created, its job added,  *)
(* and the answer waits for the run to end.  Requests that carry the same  *)
(* idempotency key race; each may fail at every step, and the API may die. *)
(* The waiting is TerminalWaiter's; the worker and the sweeper are reduced *)
(* to what a request sees of them (RunLifecycle has the rest).             *)
(***************************************************************************)
EXTENDS TerminalWaiter

CONSTANTS
    Key,    \* each request's idempotency key
    NoKey   \* the request carries none

FaultSet == {"blob", "db", "queue", "crash", "publish", "session", "stop"}

ASSUME UploadAssumption ==
    /\ MaxFaults \in Nat
    /\ FaultKinds \subseteq FaultSet
    /\ NoRun \notin Reqs
    /\ DOMAIN Key = Reqs

VARIABLES
    pc,      \* where each request is
    got,     \* the run it answers with
    bundle,  \* requests whose object is stored
    jobs,    \* runs with a job in the queue
    late,    \* history: requests that waited for a run already announced
    hurt     \* history: a store, the database or the process failed

reqV == <<pc, got, bundle, jobs, late, hurt>>
vars == <<waiterV, reqV>>

Init ==
    /\ WaiterInit
    /\ pc = [q \in Reqs |-> "start"] /\ got = Idle
    /\ bundle = {} /\ jobs = {} /\ late = {} /\ hurt = FALSE

Goto(q, to) == pc' = [pc EXCEPT ![q] = to]

Hurts(kind) == Fault(kind) /\ hurt' = TRUE
NoFault == UNCHANGED <<faults, hurt>>

ByKey(q) == {r \in Reqs : row[r] # "none" /\ Key[q] # NoKey /\ Key[r] = Key[q]}

\* The request answers with r, after waiting for it.
Accepted(q, r) == Goto(q, "wait") /\ got' = [got EXCEPT ![q] = r]

-----------------------------------------------------------------------------
(* IngestService.accept *)

FindByIdempotencyKey(q) ==
    /\ pc[q] = "start"
    /\ IF ByKey(q) = {} THEN Goto(q, "put") /\ UNCHANGED got
       ELSE \E r \in ByKey(q) : Accepted(q, r)
    /\ UNCHANGED <<row, waits, connV, unheard, bundle, jobs, late>> /\ NoFault

PutStream(q) ==
    /\ pc[q] = "put"
    /\ \/ bundle' = bundle \cup {q} /\ Goto(q, "create") /\ NoFault
       \/ Hurts("blob") /\ Goto(q, "failed") /\ UNCHANGED bundle
    /\ UNCHANGED <<row, waits, connV, unheard, got, jobs, late>>

\* The unique index on (project, key) decides.
Create(q) ==
    /\ pc[q] = "create"
    /\ IF ByKey(q) = {} THEN row' = [row EXCEPT ![q] = "pending"] /\ Goto(q, "add")
       ELSE Goto(q, "collided") /\ UNCHANGED row
    /\ UNCHANGED <<waits, connV, unheard, got, bundle, jobs, late>> /\ NoFault

\* Not a collision: it propagates.  The row may be there all the same.
CreateFails(q) ==
    /\ pc[q] = "create" /\ ByKey(q) = {}
    /\ Hurts("db")
    /\ \/ row' = [row EXCEPT ![q] = "pending"]
       \/ UNCHANGED row
    /\ Goto(q, "failed")
    /\ UNCHANGED <<waits, connV, unheard, got, bundle, jobs, late>>

\* The loser reads the winner's run.
FindWinner(q) ==
    /\ pc[q] = "collided"
    /\ \/ /\ \E r \in ByKey(q) : got' = [got EXCEPT ![q] = r]
          /\ Goto(q, "orphan") /\ NoFault
       \/ Hurts("db") /\ Goto(q, "failed") /\ UNCHANGED got
    /\ UNCHANGED <<row, waits, connV, unheard, bundle, jobs, late>>

\* Mutated DeleteOrphanedBundle: the key deleted is the winner's.
DeleteWinnersBundle(q) ==
    /\ pc[q] = "orphan"
    /\ bundle' = bundle \ {got[q]} /\ NoFault
    /\ Goto(q, "wait")
    /\ UNCHANGED <<row, waits, connV, unheard, got, jobs, late>>

\* Mutated DeleteOrphanedBundle: nothing is deleted.
KeepOrphanedBundle(q) ==
    /\ pc[q] = "orphan"
    /\ Goto(q, "wait")
    /\ UNCHANGED <<row, waits, connV, unheard, got, bundle, jobs, late>> /\ NoFault

\* ... and deletes its own object; a failure to is only logged.
DeleteOrphanedBundle(q) ==
    /\ pc[q] = "orphan"
    /\ \/ bundle' = bundle \ {q} /\ NoFault
       \/ Hurts("blob") /\ UNCHANGED bundle
    /\ Goto(q, "wait")
    /\ UNCHANGED <<row, waits, connV, unheard, got, jobs, late>>

QueueAdd(q) ==
    /\ pc[q] = "add"
    /\ \/ jobs' = jobs \cup {q} /\ Accepted(q, q) /\ NoFault
       \/ Hurts("queue") /\ Goto(q, "failed") /\ UNCHANGED <<jobs, got>>
    /\ UNCHANGED <<row, waits, connV, unheard, bundle, late>>

-----------------------------------------------------------------------------
(* IngestController.post: wait, read the row again, answer. *)

Wait(q) ==
    /\ pc[q] = "wait"
    /\ WaitFor(q, got[q])
    /\ late' = IF row[got[q]] = "ended" THEN late \cup {q} ELSE late
    /\ Goto(q, "waiting")
    /\ UNCHANGED <<row, connV, unheard, got, bundle, jobs>> /\ NoFault

\* Woken, timed out, or asked not to wait (waitMs = 0).
Respond(q) ==
    /\ \/ pc[q] = "waiting" /\ waits[q] = NoRun
       \/ pc[q] = "wait"
    /\ Goto(q, "answered")
    /\ UNCHANGED <<waiterV, got, bundle, jobs, late, hurt>>

\* The API dies and starts again; its requests are lost.
Crash ==
    /\ Hurts("crash")
    /\ pc' = [q \in Reqs |-> IF pc[q] \in {"start", "answered"} THEN pc[q] ELSE "failed"]
    /\ waits' = Idle
    /\ session' = "listening" /\ attempt' = "none" /\ rpc' = "none"
    /\ recheck' = NoRun /\ inbox' = {} /\ closed' = FALSE
    /\ UNCHANGED <<row, unheard, got, bundle, jobs, late>>

-----------------------------------------------------------------------------
(* The worker and its sweeper. *)

\* The job's transaction commits the run's terminal status.
EndRun(r) ==
    /\ r \in jobs /\ row[r] = "pending"
    /\ row' = [row EXCEPT ![r] = "committed"]
    /\ jobs' = jobs \ {r}
    /\ UNCHANGED <<waits, connV, unheard, pc, got, bundle, late>> /\ NoFault

\* A pending run without a job is queued again.
Sweep(r) ==
    /\ row[r] = "pending" /\ r \notin jobs /\ pc[r] # "add"
    /\ jobs' = jobs \cup {r}
    /\ UNCHANGED <<row, waits, connV, unheard, pc, got, bundle, late>> /\ NoFault

Next ==
    \/ WaiterNext /\ UNCHANGED reqV
    \/ \E q \in Reqs :
         \/ FindByIdempotencyKey(q) \/ PutStream(q) \/ Create(q) \/ CreateFails(q)
         \/ FindWinner(q) \/ DeleteOrphanedBundle(q) \/ QueueAdd(q)
         \/ Wait(q) \/ Respond(q) \/ EndRun(q) \/ Sweep(q)
    \/ Crash

Spec == Init /\ [][Next]_vars
FairSpec ==
    /\ Spec
    /\ WaiterFairness
    /\ \A q \in Reqs : WF_vars(EndRun(q)) /\ WF_vars(Sweep(q))

-----------------------------------------------------------------------------
(* Properties. *)

\* Every variable holds a value of its type, and one client listens at a time.
TypeOK ==
    /\ row \in [Reqs -> {"none", "pending", "committed", "ended"}]
    /\ waits \in [Reqs -> Reqs \cup {NoRun}]
    /\ session \in {"none", "listening", "lost"}
    /\ attempt \in {"none", "listening", "lost", "dead"}
    /\ session = "none" \/ (attempt = "none" /\ rpc = "none")
    /\ rpc \in {"none", "timer", "listen", "install"}
    /\ recheck = NoRun \/ recheck \subseteq Reqs
    /\ inbox \subseteq Reqs /\ unheard \subseteq Reqs
    /\ closed \in BOOLEAN /\ hurt \in BOOLEAN
    /\ pc \in [Reqs -> {"start", "put", "create", "collided", "orphan", "add", "wait",
                        "waiting", "answered", "failed"}]
    /\ got \in [Reqs -> Reqs \cup {NoRun}]
    /\ bundle \subseteq Reqs /\ jobs \subseteq Reqs /\ late \subseteq Reqs
    /\ faults \in 0..MaxFaults

\* The object behind a run is there: the loser of a race deletes its own and no other.
RunHasBundle ==
    \A r \in Reqs : row[r] # "none" => r \in bundle

\* Without a failure no object is left that no row names.
NoOrphanBundle ==
    ~hurt /\ (\A q \in Reqs : pc[q] \in {"start", "answered"})
        => \A q \in bundle : row[q] # "none"

\* A request that waited for a run before its end was announced is woken by that end,
\* without its timeout, even if the listening session was lost meanwhile: only a re-check
\* or an announcement that fails leaves it to the timeout.
WokenByTheEnd ==
    \A q \in Reqs : \A r \in Reqs :
      (waits[q] = r /\ q \notin late /\ row[r] = "ended") ~> 
         (waits[q] # r \/ r \in unheard \/ closed)

\* After onModuleDestroy no session stays open, whatever reconnect was under way.
ClosedLetsGo ==
    closed ~> (~closed \/ [](session = "none" /\ attempt = "none" /\ rpc = "none"))
=============================================================================
