---------------------------- MODULE TestIdentity ----------------------------
(***************************************************************************)
(* Which test a run belongs to and which number it takes there: the        *)
(* resolver that finds or creates the test row, the two statements that    *)
(* write a run's test and number (the fold owner's attach, the pipeline's  *)
(* finalize) and the delete of a test, with the row locks they take.       *)
(*                                                                         *)
(* run and tests hold what is committed.  A transaction keeps its writes   *)
(* in mine until it commits.  Locks are granted to whoever is compatible   *)
(* with the holders, without Postgres' queue behind a waiter: a waiter     *)
(* that would queue waits for the same holder, so no cycle is lost.        *)
(*                                                                         *)
(* All the class-derived slugs share one base: slug 1 is the base itself   *)
(* and slug n is base-n.                                                   *)
(***************************************************************************)
EXTENDS Naturals, Sequences

CONSTANTS
    Runs,        \* runs of one project
    LiveRuns,    \* those streamed live, which a fold owner attaches
    ClassOf,     \* the simulation class in each run's log header
    Declared,    \* the slug each run's caller declared, or 0
    Removers,    \* requests that delete a test
    Slugs,       \* slugs tried for one base (50 in the code)
    MaxTests,    \* bound on the tests ever created
    FaultKinds,  \* the failures that may happen
    MaxFaults,   \* bound on their number
    Null         \* SQL's NULL, and "nobody"

FaultSet == {"db", "abort", "redeliver", "legacy"}

\* Run rows, as far as they matter here.
Rows == [test : (1..MaxTests) \cup {Null}, num : Nat \cup {Null}]

ASSUME IdentityAssumption ==
    /\ LiveRuns \subseteq Runs
    /\ Declared \in [Runs -> 0..Slugs]
    /\ Slugs \in Nat /\ MaxTests \in Nat /\ MaxFaults \in Nat
    /\ FaultKinds \subseteq FaultSet
    /\ Null \notin Nat \cup Rows \cup Removers \cup ({"fold", "finalize"} \X Runs)
    /\ Removers \cap ({"fold", "finalize"} \X Runs) = {}

Folder(r)    == <<"fold", r>>
Finalizer(r) == <<"finalize", r>>
Writers == {Folder(r) : r \in LiveRuns} \cup {Finalizer(r) : r \in Runs}
Procs   == Writers \cup Removers
RunOf(w) == w[2]
Classes == {ClassOf[r] : r \in Runs}

VARIABLES
    tests,     \* rows by id (ids in order of created_at): slug, class, next, live
    run,       \* run rows: test, num
    status,    \* "parsing" or terminal
    pc,        \* where each process is
    found,     \* what the resolver answered, or the test a remover addresses
    slot,      \* the slug an insert is about to use
    mine,      \* uncommitted run rows of each process
    share,     \* run rows: holders of FOR KEY SHARE
    excl,      \* run rows: holder of FOR UPDATE
    tlock,     \* test rows: holder of a lock that excludes the others
    todo,      \* runs the ungrouping statement of each remover has still to visit
    issued,    \* history: <<test, number, run>> for every number a run has carried
    legacy,    \* history: runs an older worker attached without a number
    late,      \* history: ... while their test was being removed
    faults

rowV   == <<tests, run, status>>
procV  == <<pc, found, slot, todo>>
lockV  == <<mine, share, excl, tlock>>
histV  == <<issued, legacy, late>>
vars   == <<rowV, procV, lockV, histV, faults>>

NoWrite == [r \in Runs |-> Null]
Live    == {t \in DOMAIN tests : tests[t].live}
Free    == 1..Slugs \ {tests[t].slug : t \in Live}
Oldest(S) == IF S = {} THEN Null ELSE CHOOSE t \in S : \A u \in S : t <= u
BySlug(s)  == Oldest({t \in Live : tests[t].slug = s})
ByClass(c) == Oldest({t \in Live : tests[t].class = c})

Init ==
    /\ tests = <<>>
    /\ run = [r \in Runs |-> [test |-> Null, num |-> Null]]
    /\ status = [r \in Runs |-> "parsing"]
    /\ pc = [p \in Procs |-> "idle"] /\ found = [p \in Procs |-> Null]
    /\ slot = [p \in Procs |-> 0] /\ todo = [d \in Removers |-> {}]
    /\ mine = [p \in Procs |-> NoWrite]
    /\ share = [r \in Runs |-> {}] /\ excl = [r \in Runs |-> Null]
    /\ tlock = [t \in 1..MaxTests |-> Null]
    /\ issued = {} /\ legacy = {} /\ late = FALSE /\ faults = 0

Fault(kind) ==
    /\ kind \in FaultKinds
    /\ faults < MaxFaults
    /\ faults' = faults + 1

Goto(p, to) == pc' = [pc EXCEPT ![p] = to]

\* p is through, or starts over: its locals are gone.
End(p, to) ==
    /\ Goto(p, to)
    /\ found' = [found EXCEPT ![p] = Null]
    /\ slot' = [slot EXCEPT ![p] = 0]
    /\ todo' = [d \in Removers |-> IF d = p THEN {} ELSE todo[d]]

-----------------------------------------------------------------------------
(* resolveTestId: each statement commits by itself and holds no lock. *)

\* The first statement of the transaction that uses the answer.
Joining(w, t) ==
    IF w[1] = "finalize" THEN "begin" ELSE IF t = Null THEN "done" ELSE "lockRun"

Resolved(w, t) ==
    /\ found' = [found EXCEPT ![w] = t]
    /\ slot' = [slot EXCEPT ![w] = 0]
    /\ Goto(w, Joining(w, t))

Lookup(w) ==
    IF Declared[RunOf(w)] # 0 THEN BySlug(Declared[RunOf(w)]) ELSE ByClass(ClassOf[RunOf(w)])

\* A declared slug wins; a run that says neither slug nor class has no test.
Look(w) ==
    /\ pc[w] = "idle"
    /\ w[1] = "fold" => status[RunOf(w)] = "parsing"
    /\ IF Declared[RunOf(w)] = 0 /\ ClassOf[RunOf(w)] = Null THEN Resolved(w, Null)
       ELSE IF Lookup(w) # Null THEN Resolved(w, Lookup(w))
       ELSE Goto(w, "pick") /\ UNCHANGED <<found, slot>>
    /\ UNCHANGED <<rowV, todo, lockV, histV, faults>>

\* The snapshot of the INSERT: the first free slug of the base, or the one declared.
Pick(w) ==
    /\ pc[w] = "pick"
    /\ IF Declared[RunOf(w)] = 0 /\ Free = {} THEN Goto(w, "reread") /\ UNCHANGED slot
       ELSE /\ Goto(w, "insert")
            /\ slot' = [slot EXCEPT ![w] = IF Declared[RunOf(w)] # 0 THEN Declared[RunOf(w)]
                                           ELSE Oldest(Free)]
    /\ UNCHANGED <<rowV, found, todo, lockV, histV, faults>>

\* ON CONFLICT (project_id, slug) DO UPDATE: whoever has the slug by now is the answer.
Insert(w) ==
    /\ pc[w] = "insert"
    /\ LET holder == BySlug(slot[w]) IN
       IF holder # Null
       THEN tlock[holder] = Null /\ Resolved(w, holder) /\ UNCHANGED tests
       ELSE /\ Len(tests) < MaxTests
            /\ tests' = Append(tests, [slug |-> slot[w], class |-> ClassOf[RunOf(w)],
                                       next |-> 1, live |-> TRUE])
            /\ Resolved(w, Len(tests) + 1)
    /\ UNCHANGED <<run, status, todo, lockV, histV, faults>>

\* Every slug of the base was taken: one more read.
Reread(w) ==
    /\ pc[w] = "reread"
    /\ Resolved(w, ByClass(ClassOf[RunOf(w)]))
    /\ UNCHANGED <<rowV, todo, lockV, histV, faults>>

\* A statement of the resolver fails: the run stays ungrouped.
ResolveFails(w) ==
    /\ pc[w] \in {"idle", "pick", "insert", "reread"}
    /\ w[1] = "fold" => status[RunOf(w)] = "parsing"
    /\ Fault("db")
    /\ Resolved(w, Null)
    /\ UNCHANGED <<rowV, todo, lockV, histV>>

-----------------------------------------------------------------------------
(* Row locks. *)

Lockable(p, r) == excl[r] \in {Null, p} /\ share[r] \subseteq {p}
LockRun(p, r)  == excl' = [excl EXCEPT ![r] = p]

Release(p) ==
    /\ mine'  = [mine EXCEPT ![p] = NoWrite]
    /\ share' = [r \in Runs |-> share[r] \ {p}]
    /\ excl'  = [r \in Runs |-> IF excl[r] = p THEN Null ELSE excl[r]]
    /\ tlock' = [t \in 1..MaxTests |-> IF tlock[t] = p THEN Null ELSE tlock[t]]

Write(p, r, row) == mine' = [mine EXCEPT ![p][r] = row]

\* The rows of p's transaction, over what is committed.
Committed(p) == [r \in Runs |-> IF mine[p][r] = Null THEN run[r] ELSE mine[p][r]]
Numbers(rows) == {<<rows[r].test, rows[r].num, r>> : r \in {x \in Runs : rows[x].num # Null}}

-----------------------------------------------------------------------------
(* numberRunForTest and attachLiveRunToTest. *)

\* The run_assertion inserts: their foreign key shares the run row.
Begin(w) ==
    /\ pc[w] = "begin" /\ w[1] = "finalize"
    /\ \/ excl[RunOf(w)] = Null /\ share' = [share EXCEPT ![RunOf(w)] = @ \cup {w}]
       \/ UNCHANGED share
    /\ Goto(w, "lockRun")
    /\ UNCHANGED <<rowV, found, slot, todo, mine, excl, tlock, histV, faults>>

\* Mutated AttachLock: a run that has a test already takes another number.
AttachLockAgain(w) ==
    /\ pc[w] = "lockRun" /\ w[1] = "fold"
    /\ Lockable(w, RunOf(w))
    /\ LockRun(w, RunOf(w)) /\ Goto(w, "lockTest")
    /\ UNCHANGED <<rowV, found, slot, todo, mine, share, tlock, histV, faults>>

\* "target": only a run with no test takes one here.
AttachLock(w) ==
    /\ pc[w] = "lockRun" /\ w[1] = "fold"
    /\ Lockable(w, RunOf(w))
    /\ IF run[RunOf(w)].test # Null THEN End(w, "done") /\ UNCHANGED excl
       ELSE LockRun(w, RunOf(w)) /\ Goto(w, "lockTest") /\ UNCHANGED <<found, slot, todo>>
    /\ UNCHANGED <<rowV, mine, share, tlock, histV, faults>>

Moves(w) ==
    \/ run[RunOf(w)].test # found[w]
    \/ run[RunOf(w)].num = Null

\* Mutated NumberLock: the keep arm rewrites the row, so its key is checked again.
NumberLockRewrites(w) ==
    /\ pc[w] = "lockRun" /\ w[1] = "finalize"
    /\ Lockable(w, RunOf(w))
    /\ IF status[RunOf(w)] # "parsing" THEN Goto(w, "commit") /\ UNCHANGED <<excl, mine>>
       ELSE /\ LockRun(w, RunOf(w))
            /\ IF found[w] # Null THEN Goto(w, "lockTest") /\ UNCHANGED mine
               ELSE Goto(w, "commit") /\ Write(w, RunOf(w), [test |-> Null, num |-> Null])
    /\ UNCHANGED <<rowV, found, slot, todo, share, tlock, histV, faults>>

\* "cur" and "moves": a terminal run is left alone, a number it has is kept.
NumberLock(w) ==
    /\ pc[w] = "lockRun" /\ w[1] = "finalize"
    /\ Lockable(w, RunOf(w))
    /\ IF status[RunOf(w)] # "parsing" THEN Goto(w, "commit") /\ UNCHANGED <<excl, mine>>
       ELSE /\ LockRun(w, RunOf(w))
            /\ IF ~Moves(w) THEN Goto(w, "commit") /\ UNCHANGED mine
               ELSE IF found[w] # Null THEN Goto(w, "lockTest") /\ UNCHANGED mine
               ELSE Goto(w, "commit") /\ Write(w, RunOf(w), [test |-> Null, num |-> Null])
    /\ UNCHANGED <<rowV, found, slot, todo, share, tlock, histV, faults>>

\* Mutated NextNumber: one more than the largest number in the test.
LargestPlusOne(t) ==
    LET used == {run[r].num : r \in {x \in Runs : run[x].test = t /\ run[x].num # Null}} IN
    IF used = {} THEN 1 ELSE 1 + CHOOSE n \in used : \A m \in used : m <= n

NextNumber(t) == tests[t].next

\* "allocated" and the write of test and number together.
Allocate(w) ==
    /\ pc[w] = "lockTest"
    /\ found[w] \in Live /\ tlock[found[w]] = Null
    /\ tlock' = [tlock EXCEPT ![found[w]] = w]
    /\ Write(w, RunOf(w), [test |-> found[w], num |-> NextNumber(found[w])])
    /\ Goto(w, "commit")
    /\ UNCHANGED <<rowV, found, slot, todo, share, excl, histV, faults>>

\* The test is gone: the foreign key refuses the row and the transaction aborts.
\* The fold goes on without a test; a finalize fails its run.
Refused(w) ==
    /\ pc[w] = "lockTest"
    /\ found[w] \notin Live
    /\ Release(w)
    /\ End(w, "done")
    /\ status' = IF w[1] = "finalize" THEN [status EXCEPT ![RunOf(w)] = "failed"] ELSE status
    /\ UNCHANGED <<tests, run, histV, faults>>

\* The terminal UPDATE, whose guard is NumberLock's, and COMMIT.
Commit(w) ==
    /\ pc[w] = "commit" /\ w \in Writers
    /\ run' = Committed(w)
    /\ issued' = issued \cup Numbers(Committed(w))
    /\ tests' = [t \in DOMAIN tests |->
                    IF mine[w][RunOf(w)] # Null /\ mine[w][RunOf(w)].test = t
                    THEN [tests[t] EXCEPT !.next = @ + 1] ELSE tests[t]]
    /\ status' = IF w[1] = "finalize" /\ status[RunOf(w)] = "parsing"
                 THEN [status EXCEPT ![RunOf(w)] = "complete"] ELSE status
    /\ Release(w)
    /\ End(w, "done")
    /\ UNCHANGED <<legacy, late, faults>>

\* A transaction ends without committing; the queue retries a finalize.
Abort(w) ==
    /\ pc[w] \in {"lockRun", "lockTest", "commit"} /\ w \in Writers
    /\ Fault("abort")
    /\ Release(w)
    /\ End(w, IF w[1] = "finalize" THEN "idle" ELSE "done")
    /\ UNCHANGED <<rowV, histV>>

\* A stalled job is delivered again, or a fold claimed again reads the header again.
Redeliver(w) ==
    /\ pc[w] = "done" /\ w \in Writers
    /\ Fault("redeliver")
    /\ Goto(w, "idle")
    /\ UNCHANGED <<rowV, found, slot, todo, lockV, histV>>

\* A worker that predates numbering attaches a run: no counter, only the key check.
LegacyAttach(r) ==
    /\ Fault("legacy")
    /\ status[r] = "parsing" /\ run[r].test = Null
    /\ excl[r] = Null /\ share[r] = {}
    /\ LET t == Lookup(Folder(r)) IN
       /\ t # Null
       /\ tlock[t] \notin Removers
       /\ run' = [run EXCEPT ![r].test = t]
       /\ late' = (late \/ \E d \in Removers : pc[d] \in {"ungroup", "cascade", "clear"}
                                                /\ found[d] = t)
    /\ legacy' = legacy \cup {r}
    /\ UNCHANGED <<tests, status, procV, lockV, issued>>

-----------------------------------------------------------------------------
(* TestRepository.remove: one transaction of three statements. *)

In(t) == {r \in Runs : run[r].test = t}

\* (1) begins: the runs its snapshot shows in the test.
Remove(d) ==
    /\ pc[d] = "idle"
    /\ \E s \in 1..Slugs :
         /\ BySlug(s) # Null
         /\ slot' = [slot EXCEPT ![d] = s]
         /\ found' = [found EXCEPT ![d] = BySlug(s)]
         /\ todo' = [todo EXCEPT ![d] = In(BySlug(s))]
    /\ Goto(d, "ungroup")
    /\ UNCHANGED <<rowV, lockV, histV, faults>>

\* (1) visits a run, once nobody else holds it; it may have left the test by then.
Ungroup(d, r) ==
    /\ pc[d] = "ungroup" /\ r \in todo[d]
    /\ Lockable(d, r)
    /\ IF run[r].test = found[d]
       THEN LockRun(d, r) /\ Write(d, r, [test |-> Null, num |-> Null])
       ELSE UNCHANGED <<excl, mine>>
    /\ todo' = [todo EXCEPT ![d] = @ \ {r}]
    /\ UNCHANGED <<rowV, pc, found, slot, share, tlock, histV, faults>>

\* (2) locks the test, named by its slug once more.
DeleteTest(d) ==
    /\ pc[d] = "ungroup" /\ todo[d] = {}
    /\ LET t == BySlug(slot[d]) IN
       IF t = Null THEN Goto(d, "clear") /\ UNCHANGED <<tlock, found>>
       ELSE /\ tlock[t] = Null
            /\ tlock' = [tlock EXCEPT ![t] = d]
            /\ found' = [found EXCEPT ![d] = t]
            /\ Goto(d, "cascade")
    /\ UNCHANGED <<rowV, slot, todo, mine, share, excl, histV, faults>>

Joined(d) == {r \in In(found[d]) : mine[d][r] = Null}

\* (2) ON DELETE SET NULL: test_id of every run that joined meanwhile, not its number.
Cascade(d, r) ==
    /\ pc[d] = "cascade" /\ r \in Joined(d)
    /\ Lockable(d, r)
    /\ LockRun(d, r)
    /\ Write(d, r, [test |-> Null, num |-> run[r].num])
    /\ UNCHANGED <<rowV, procV, share, tlock, histV, faults>>

CascadeDone(d) ==
    /\ pc[d] = "cascade" /\ Joined(d) = {}
    /\ Goto(d, "clear")
    /\ UNCHANGED <<rowV, found, slot, todo, lockV, histV, faults>>

\* Mutated Stranded: (3) finds nothing to clear.
StrandedNever(d) == {}

Stranded(d) == {r \in Runs : Committed(d)[r].test = Null /\ Committed(d)[r].num # Null}

\* (3) clears the number of an ungrouped run.
Clear(d, r) ==
    /\ pc[d] = "clear" /\ r \in Stranded(d)
    /\ Lockable(d, r)
    /\ LockRun(d, r)
    /\ Write(d, r, [test |-> Null, num |-> Null])
    /\ UNCHANGED <<rowV, procV, share, tlock, histV, faults>>

CommitRemove(d) ==
    /\ pc[d] = "clear" /\ Stranded(d) = {}
    /\ run' = Committed(d)
    /\ tests' = [t \in DOMAIN tests |->
                    IF tlock[t] = d THEN [tests[t] EXCEPT !.live = FALSE] ELSE tests[t]]
    /\ Release(d)
    /\ End(d, "done")
    /\ UNCHANGED <<status, histV, faults>>

AbortRemove(d) ==
    /\ pc[d] \in {"ungroup", "cascade", "clear"}
    /\ Fault("abort")
    /\ Release(d)
    /\ End(d, "done")
    /\ UNCHANGED <<rowV, histV>>

-----------------------------------------------------------------------------
Next ==
    \/ \E w \in Writers :
         \/ Look(w) \/ Pick(w) \/ Insert(w) \/ Reread(w) \/ ResolveFails(w)
         \/ Begin(w) \/ AttachLock(w) \/ NumberLock(w) \/ Allocate(w) \/ Refused(w)
         \/ Commit(w) \/ Abort(w) \/ Redeliver(w)
    \/ \E r \in LiveRuns : LegacyAttach(r)
    \/ \E d \in Removers :
         \/ Remove(d) \/ DeleteTest(d) \/ CascadeDone(d) \/ CommitRemove(d) \/ AbortRemove(d)
         \/ \E r \in Runs : Ungroup(d, r) \/ Cascade(d, r) \/ Clear(d, r)

Spec == Init /\ [][Next]_vars

-----------------------------------------------------------------------------
(* Properties. *)

\* Every variable holds a value of its type.
TypeOK ==
    /\ tests \in Seq([slug : 1..Slugs, class : Classes, next : Nat \ {0}, live : BOOLEAN])
    /\ Len(tests) <= MaxTests
    /\ run \in [Runs -> Rows]
    /\ status \in [Runs -> {"parsing", "complete", "failed"}]
    /\ pc \in [Procs -> {"idle", "pick", "insert", "reread", "begin", "lockRun", "lockTest",
                         "commit", "ungroup", "cascade", "clear", "done"}]
    /\ found \in [Procs -> (1..MaxTests) \cup {Null}]
    /\ slot \in [Procs -> 0..Slugs]
    /\ todo \in [Removers -> SUBSET Runs]
    /\ mine \in [Procs -> [Runs -> Rows \cup {Null}]]
    /\ share \in [Runs -> SUBSET Procs]
    /\ excl \in [Runs -> Procs \cup {Null}]
    /\ tlock \in [1..MaxTests -> Procs \cup {Null}]
    /\ legacy \subseteq Runs
    /\ late \in BOOLEAN
    /\ faults \in 0..MaxFaults

\* A number of a test has named one run only, ever: a gap that a moved run leaves behind
\* is not refilled and two runs that join at once do not share a number.
NumberNamesOneRun ==
    \A x, y \in issued : x[1] = y[1] /\ x[2] = y[2] => x[3] = y[3]

\* A run with a number is in a test, and a run in a test has a number unless an older
\* worker attached it: through joins, moves, finalizes and deletes that race.
NumberedIffGrouped ==
    \A r \in Runs :
      /\ run[r].test = Null => run[r].num = Null
      /\ run[r].test # Null /\ r \notin legacy => run[r].num # Null

\* A run keeps its number for as long as it stays in its test, whoever claims, redelivers
\* or finalizes it again.
NumberIsKept ==
    [][\A r \in Runs : run[r].num # Null /\ run'[r].num # run[r].num
                          => run'[r].test # run[r].test]_vars

\* Who p may be waiting for.
Blockers(p, r) == (share[r] \cup {excl[r]}) \ {p, Null}

WaitsFor(p) ==
    CASE pc[p] = "lockRun"  -> Blockers(p, RunOf(p))
      [] pc[p] = "lockTest" -> {tlock[found[p]]} \ {Null}
      [] pc[p] = "ungroup"  -> IF todo[p] # {} THEN UNION {Blockers(p, r) : r \in todo[p]}
                               ELSE IF BySlug(slot[p]) = Null THEN {}
                               ELSE {tlock[BySlug(slot[p])]} \ {Null}
      [] pc[p] = "cascade"  -> UNION {Blockers(p, r) : r \in Joined(p)}
      [] pc[p] = "clear"    -> UNION {Blockers(p, r) : r \in Stranded(p)}
      [] OTHER              -> {}

\* A delete, the attaches and the finalizes never wait for each other in a circle, but in
\* the one window the code names: an older worker attached a run while its test was
\* being deleted.
NoWaitCycle ==
    ~late => \A S \in SUBSET Procs : S # {} => \E p \in S : WaitsFor(p) \cap S = {}

\* Two first runs of one simulation, at once, get one test of that class.
OneTestPerClass ==
    \A t, u \in Live : tests[t].class = tests[u].class => t = u
=============================================================================
