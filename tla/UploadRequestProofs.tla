------------------------ MODULE UploadRequestProofs -------------------------
(* Uploads that race and fail: proofs for any requests and any keys. *)
EXTENDS UploadRequest, TLAPS

RowStates == {"none", "pending", "committed", "ended"}
Steps == {"start", "put", "create", "collided", "orphan", "add", "wait", "waiting", "answered", "failed"}

\* Where a request's object has been stored and its row is not there yet, or never will be.
Unfiled == {"create", "collided", "orphan"}
Filing  == {"start", "put", "create", "collided", "orphan"}

\* What the steps of a request do not tell by themselves: a request that is to create its
\* row, or lost the race for it, has none, and one that is to create it has its object.
BundleInv ==
    /\ row \in [Reqs -> RowStates] /\ pc \in [Reqs -> Steps]
    /\ bundle \subseteq Reqs /\ hurt \in BOOLEAN
    /\ RunHasBundle
    /\ \A q \in Reqs : pc[q] \in Filing => row[q] = "none"
    /\ \A q \in Reqs : pc[q] = "create" => q \in bundle
    /\ \A q \in Reqs : pc[q] = "add" => row[q] # "none"
    /\ ~hurt => \A q \in bundle : row[q] = "none" => pc[q] \in Unfiled

\* The waiter announces the end of a run and touches nothing else of a request.
LEMMA WaiterKeeps ==
    ASSUME BundleInv, WaiterNext, UNCHANGED reqV PROVE BundleInv'
<1> USE DEF BundleInv, reqV, RowStates, Steps, RunHasBundle, Unfiled, Filing
<1>1. ASSUME NEW q \in Reqs, Publish(q) \/ PublishLost(q) PROVE BundleInv'
  BY <1>1 DEF Publish, PublishLost
<1>2. ASSUME UNCHANGED row PROVE BundleInv'
  BY <1>2
<1>3. QED
  BY <1>1, <1>2 DEF WaiterNext, Timeout, Deliver, SessionEnds,
     OnLost, AttemptErrors, Timer, Listen, ListenFails,
     Install, Recheck, RecheckFails, Destroy

\* One case per step of a request, of the worker and of the API's end.
LEMMA RequestKeeps ==
    ASSUME BundleInv, NEW q \in Reqs,
           \/ FindByIdempotencyKey(q) \/ PutStream(q) \/ Create(q)
           \/ CreateFails(q) \/ FindWinner(q) \/ DeleteOrphanedBundle(q) \/ QueueAdd(q)
           \/ Wait(q) \/ Respond(q) \/ EndRun(q) \/ Sweep(q)
    PROVE  BundleInv'
<1> USE DEF BundleInv, RowStates, Steps, RunHasBundle, Unfiled, Filing, Goto,
    Hurts, NoFault
<1>1. CASE FindByIdempotencyKey(q)
  BY <1>1 DEF FindByIdempotencyKey, Accepted
<1>2. CASE PutStream(q)
  BY <1>2 DEF PutStream
<1>3. CASE Create(q)
  BY <1>3 DEF Create
<1>4. CASE CreateFails(q)
  BY <1>4 DEF CreateFails
<1>5. CASE FindWinner(q)
  BY <1>5 DEF FindWinner
<1>6. CASE DeleteOrphanedBundle(q)
  BY <1>6 DEF DeleteOrphanedBundle
<1>7. CASE QueueAdd(q)
  BY <1>7 DEF QueueAdd, Accepted
<1>8. CASE Wait(q) \/ Respond(q)
  BY <1>8 DEF Wait, Respond, waiterV
<1>9. CASE EndRun(q) \/ Sweep(q)
  BY <1>9 DEF EndRun, Sweep
<1>10. QED
  BY <1>1, <1>2, <1>3, <1>4, <1>5, <1>6, <1>7, <1>8, <1>9

\* BundleInv is inductive.
LEMMA BundlesKept == Spec => []BundleInv
<1>1. Init => BundleInv
  BY DEF Init, WaiterInit, BundleInv, RowStates, Steps, RunHasBundle, Unfiled, Filing
<1>2. BundleInv /\ [Next]_vars => BundleInv'
  <2> SUFFICES ASSUME BundleInv, [Next]_vars PROVE BundleInv'
    OBVIOUS
  <2>1. CASE Crash
    BY <2>1 DEF Crash, Hurts, BundleInv, RowStates, Steps, RunHasBundle, Unfiled,
       Filing
  <2>2. CASE UNCHANGED vars
    BY <2>2 DEF vars, waiterV, reqV, BundleInv, RunHasBundle
  <2>3. QED
    BY <2>1, <2>2, WaiterKeeps, RequestKeeps DEF Next
<1>3. QED
  BY <1>1, <1>2, PTL DEF Spec

\* Whatever requests race for one key, fail or die, the object behind every run row is
\* there: accept deletes an object only after the unique index refused its row.
THEOREM RunsHaveBundles == Spec => []RunHasBundle
<1>1. BundleInv => RunHasBundle
  BY DEF BundleInv
<1>2. QED
  BY <1>1, BundlesKept, PTL

\* Where no store, no statement and no process failed, a request that is over leaves no
\* object without a row.
THEOREM NoBundleOrphaned == Spec => []NoOrphanBundle
<1>1. BundleInv => NoOrphanBundle
  BY DEF BundleInv, NoOrphanBundle, Unfiled
<1>2. QED
  BY <1>1, BundlesKept, PTL
=============================================================================
