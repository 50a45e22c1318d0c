------------------------- MODULE TestIdentityProofs -------------------------
(***************************************************************************)
(* The numbers of runs, and the locks of the statements that write them:   *)
(* proofs for any number of runs, tests, deletes and faults.  That nobody  *)
(* waits in a circle is proved for one delete at a time.                   *)
(***************************************************************************)
EXTENDS TestIdentity, SequenceTheorems, WellFoundedInduction, TLAPS

TestRows == [slug : 0..Slugs, class : Classes, next : Nat, live : BOOLEAN]
Steps == {"idle", "pick", "insert", "reread", "begin", "lockRun", "lockTest", "commit",
          "ungroup", "cascade", "clear", "done"}

Types ==
    /\ tests \in Seq(TestRows) /\ Len(tests) <= MaxTests
    /\ run \in [Runs -> Rows]
    /\ pc \in [Procs -> Steps]
    /\ found \in [Procs -> (1..MaxTests) \cup {Null}]
    /\ slot \in [Procs -> 0..Slugs]
    /\ todo \in [Removers -> SUBSET Runs]
    /\ mine \in [Procs -> [Runs -> Rows \cup {Null}]]
    /\ share \in [Runs -> SUBSET Procs]
    /\ excl \in [Runs -> Procs \cup {Null}]
    /\ tlock \in [1..MaxTests -> Procs \cup {Null}]

\* Who has written a row that is not committed has the row's lock; who is about to number
\* a run has it too, and the run still needs the number.
Locked ==
    /\ \A p \in Procs, r \in Runs : mine[p][r] # Null => excl[r] = p
    /\ \A w \in Writers : pc[w] = "lockTest" =>
         excl[RunOf(w)] = w /\ found[w] # Null /\ Moves(w)
    /\ \A w \in Writers : pc[w] = "lockRun" /\ w[1] = "fold" => found[w] # Null

\* A number that is not committed is its test's next one, under the test's lock, for a run
\* that has no number in that test.
Allocated ==
    \A w \in Writers : \A r \in Runs : mine[w][r] # Null =>
      /\ r = RunOf(w) /\ pc[w] = "commit"
      /\ mine[w][r].test # run[r].test \/ run[r].num = Null
      /\ mine[w][r].test = Null => mine[w][r].num = Null
      /\ mine[w][r].test # Null =>
           /\ tlock[mine[w][r].test] = w
           /\ mine[w][r].test \in DOMAIN tests
           /\ mine[w][r].num = tests[mine[w][r].test].next

\* A delete only takes runs out of their test.
Ungrouped == \A d \in Removers : \A r \in Runs : mine[d][r] # Null => mine[d][r].test = Null

\* A number a run has is on record, and all on record are below the test's next one.
Issued ==
    /\ \A r \in Runs : run[r].num # Null => <<run[r].test, run[r].num, r>> \in issued
    /\ issued \subseteq (1..MaxTests) \X Nat \X Runs
    /\ \A x \in issued : x[1] \in DOMAIN tests /\ x[2] < tests[x[1]].next

NumberInv ==
    Types /\ Locked /\ Allocated /\ Ungrouped /\ Issued /\ NumberNamesOneRun /\ NumberedIffGrouped

-----------------------------------------------------------------------------
(* Waiting. *)

\* Where a writer is when it holds a lock.  A finalize that shares its run row finds it free.
WriterHolds(w) ==
    /\ pc[w] \notin {"ungroup", "cascade", "clear"}
    /\ \A t \in 1..MaxTests : tlock[t] = w => pc[w] = "commit"
    /\ \A r \in Runs : excl[r] = w => r = RunOf(w) /\ pc[w] \in {"lockTest", "commit"}
    /\ \A r \in Runs : w \in share[r] =>
         w = Finalizer(r) /\ pc[w] \in {"lockRun", "lockTest", "commit"} /\ excl[r] \in {Null, w}
    /\ pc[w] = "lockTest" /\ w[1] = "fold" => run[RunOf(w)].test = Null

RemoverHolds(d) ==
    /\ pc[d] \notin {"lockRun", "lockTest"}
    /\ \A t \in 1..MaxTests : tlock[t] = d => pc[d] \in {"cascade", "clear"} /\ found[d] = t
    /\ \A r \in Runs : excl[r] = d => mine[d][r] # Null /\ pc[d] \in {"ungroup", "cascade", "clear"}
    /\ \A r \in Runs : d \notin share[r]

Holders == (\A w \in Writers : WriterHolds(w)) /\ (\A d \in Removers : RemoverHolds(d))

\* The delete's test stays the one of its slug, and a run without a number in that test is
\* one that the delete has ungrouped or has still to visit.
Deleting ==
    /\ \A t, u \in Live : tests[t].slug = tests[u].slug => t = u
    /\ \A d \in Removers : pc[d] \in {"ungroup", "cascade"} =>
         /\ found[d] \in Live /\ tests[found[d]].slug = slot[d]
         /\ ~late => \A r \in In(found[d]) :
              run[r].num # Null \/ mine[d][r] # Null \/ (pc[d] = "ungroup" /\ r \in todo[d])

WaitInv == NumberInv /\ Holders /\ Deleting

-----------------------------------------------------------------------------
(* Processes, rows and the tests' sequence. *)

\* Every set of numbers has a least one.
LEMMA LeastExists == ASSUME NEW S, S \subseteq Nat, S # {} PROVE \E t \in S : \A u \in S : t <= u
<1> DEFINE Less == OpToRel(<, Nat)
<1>1. IsWellFoundedOn(Less, Nat)
  BY NatLessThanWellFounded, Zenon
<1>2. \A t, u \in Nat : u < t => <<u, t>> \in Less
  BY DEF OpToRel
<1> HIDE DEF Less
<1>3. PICK t \in S : \A u \in S : ~(<<u, t>> \in Less)
  BY <1>1, WFMin
<1>4. ASSUME NEW u \in S PROVE t <= u
  <2>1. t \in Nat /\ u \in Nat /\ ~(u < t)
    BY <1>2, <1>3
  <2>2. QED
    BY <2>1
<1>5. QED
  BY <1>4

\* Oldest answers a member of the set, or Null for the empty one.
LEMMA OldestIn ==
    ASSUME NEW S, S \subseteq Nat
    PROVE  /\ Oldest(S) \in S \cup {Null}
           /\ Oldest(S) = Null <=> S = {}
<1>1. CASE S = {}
  BY <1>1 DEF Oldest
<1>2. CASE S # {}
  <2>1. Oldest(S) \in S
    BY <1>2, LeastExists DEF Oldest
  <2>2. QED
    BY <1>2, <2>1, IdentityAssumption
<1>3. QED
  BY <1>1, <1>2

\* A writer writes for one run, and is neither a delete nor Null.
LEMMA WriterIs ==
    ASSUME NEW w \in Writers
    PROVE  /\ w \in Procs /\ RunOf(w) \in Runs /\ w[1] \in {"fold", "finalize"}
           /\ w \notin Removers /\ w # Null
           /\ w[1] = "finalize" => w = Finalizer(RunOf(w))
           /\ w[1] = "fold" => w = Folder(RunOf(w)) /\ RunOf(w) \in LiveRuns
<1>1. w \in {"fold", "finalize"} \X Runs
  BY IdentityAssumption DEF Writers, Folder, Finalizer
<1>2. QED
  BY <1>1, IdentityAssumption DEF Writers, Folder, Finalizer, Procs, RunOf

\* A process is not Null.
LEMMA ProcIs == ASSUME NEW p \in Procs PROVE p # Null /\ (p \in Writers \/ p \in Removers)
BY WriterIs, IdentityAssumption DEF Procs

\* A function on 1..n is a sequence of length n.
LEMMA AsSequence ==
    ASSUME NEW S, NEW n \in Nat, NEW f \in [1..n -> S]
    PROVE  f \in Seq(S) /\ Len(f) = n
OBVIOUS

\* The tests, as a function.
LEMMA TestsAre ==
    ASSUME Types
    PROVE  /\ Len(tests) \in Nat /\ DOMAIN tests = 1..Len(tests) /\ DOMAIN tests \subseteq 1..MaxTests
           /\ \A t \in DOMAIN tests : tests[t] \in TestRows /\ tests[t].next \in Nat
           /\ Live \subseteq DOMAIN tests
<1>1. Len(tests) \in Nat /\ DOMAIN tests = 1..Len(tests) /\ tests \in [1..Len(tests) -> TestRows]
  BY LenProperties DEF Types
<1>2. \A t \in DOMAIN tests : tests[t] \in TestRows
  BY <1>1
<1>3. QED
  BY <1>1, <1>2, IdentityAssumption DEF Types, TestRows, Live

\* What a lookup answers.
LEMMA LookupIs ==
    ASSUME Types
    PROVE  /\ \A s : BySlug(s) \in Live \cup {Null}
           /\ \A s : BySlug(s) = Null <=> ~\E t \in Live : tests[t].slug = s
           /\ \A s : BySlug(s) # Null => tests[BySlug(s)].slug = s
           /\ \A c : ByClass(c) \in Live \cup {Null}
<1>1. Live \subseteq Nat
  BY TestsAre
<1>2. ASSUME NEW s
      PROVE  /\ BySlug(s) \in Live \cup {Null}
             /\ BySlug(s) = Null <=> ~\E t \in Live : tests[t].slug = s
             /\ BySlug(s) # Null => tests[BySlug(s)].slug = s
  <2> DEFINE S == {t \in Live : tests[t].slug = s}
  <2>1. S \subseteq Nat /\ S \subseteq Live
    BY <1>1
  <2>2. BySlug(s) \in S \cup {Null} /\ (BySlug(s) = Null <=> S = {})
    BY <2>1, OldestIn DEF BySlug
  <2>3. QED
    BY <2>1, <2>2
<1>3. ASSUME NEW c PROVE ByClass(c) \in Live \cup {Null}
  <2> DEFINE S == {t \in Live : tests[t].class = c}
  <2>1. S \subseteq Nat /\ S \subseteq Live
    BY <1>1
  <2>2. ByClass(c) \in S \cup {Null}
    BY <2>1, OldestIn DEF ByClass
  <2>3. QED
    BY <2>1, <2>2
<1>4. QED
  BY <1>2, <1>3

\* The row a new test takes.
LEMMA AppendTest ==
    ASSUME Types, NEW row \in TestRows, Len(tests) < MaxTests, tests' = Append(tests, row)
    PROVE  /\ tests' \in Seq(TestRows) /\ Len(tests') = Len(tests) + 1 /\ Len(tests') <= MaxTests
           /\ Len(tests) + 1 \in 1..MaxTests
           /\ DOMAIN tests' = 1..(Len(tests) + 1)
           /\ \A t \in DOMAIN tests : t \in DOMAIN tests' /\ tests'[t] = tests[t]
           /\ tests'[Len(tests) + 1] = row
<1>1. tests' \in Seq(TestRows) /\ Len(tests') = Len(tests) + 1
      /\ (\A i \in 1..Len(tests) : tests'[i] = tests[i]) /\ tests'[Len(tests) + 1] = row
  BY AppendProperties DEF Types
<1>2. DOMAIN tests' = 1..(Len(tests) + 1)
  BY <1>1, LenProperties
<1>3. QED
  BY <1>1, <1>2, TestsAre, IdentityAssumption

-----------------------------------------------------------------------------
(* Types. *)

\* Everything that is not a row of a run or a test.
Scratch ==
    /\ pc \in [Procs -> Steps]
    /\ found \in [Procs -> (1..MaxTests) \cup {Null}]
    /\ slot \in [Procs -> 0..Slugs]
    /\ todo \in [Removers -> SUBSET Runs]

Held ==
    /\ mine \in [Procs -> [Runs -> Rows \cup {Null}]]
    /\ share \in [Runs -> SUBSET Procs]
    /\ excl \in [Runs -> Procs \cup {Null}]
    /\ tlock \in [1..MaxTests -> Procs \cup {Null}]

\* The answers of the resolver and the ends of transactions keep them.
LEMMA ScratchKept ==
    ASSUME Scratch, NEW p \in Procs,
           \/ UNCHANGED procV
           \/ UNCHANGED <<found, slot, todo>> /\ \E s \in Steps : Goto(p, s)
           \/ \E s \in {"idle", "done"} : End(p, s)
           \/ UNCHANGED todo /\ p \in Writers /\ \E t \in (1..MaxTests) \cup {Null} : Resolved(p, t)
    PROVE  Scratch'
<1>1. CASE UNCHANGED procV
  BY <1>1 DEF Scratch, procV
<1>2. CASE UNCHANGED <<found, slot, todo>> /\ \E s \in Steps : Goto(p, s)
  BY <1>2 DEF Scratch, Goto
<1>3. CASE \E s \in {"idle", "done"} : End(p, s)
  BY <1>3, IdentityAssumption DEF Scratch, End, Goto, Steps
<1>4. CASE UNCHANGED todo /\ p \in Writers /\ \E t \in (1..MaxTests) \cup {Null} : Resolved(p, t)
  BY <1>4, IdentityAssumption DEF Scratch, Resolved, Joining, Goto, Steps
<1>5. QED
  BY <1>1, <1>2, <1>3, <1>4

LEMMA HeldKept ==
    ASSUME Held, NEW p \in Procs,
           \/ UNCHANGED lockV
           \/ Release(p)
    PROVE  Held'
BY DEF Held, lockV, Release, NoWrite, Rows

\* Rows of a transaction are rows.
LEMMA CommittedRows == ASSUME Types, NEW p \in Procs PROVE Committed(p) \in [Runs -> Rows]
BY DEF Types, Committed

LEMMA PlainRow == [test |-> Null, num |-> Null] \in Rows
BY DEF Rows

\* Every step keeps the types.
LEMMA TypesKept == ASSUME Types, [Next]_vars PROVE Types'
<1> USE DEF rowV, procV, lockV, histV
<1>1. Scratch /\ Held
  BY DEF Types, Scratch, Held
<1>2. ASSUME UNCHANGED <<tests, run>>, Scratch', Held' PROVE Types'
  BY <1>2 DEF Types, Scratch, Held
<1>3. Live \cup {Null} \subseteq (1..MaxTests) \cup {Null}
  BY TestsAre
<1>4. ASSUME NEW w \in Writers,
             Look(w) \/ Pick(w) \/ Insert(w) \/ Reread(w) \/ ResolveFails(w)
      PROVE  Types'
  <2>1. w \in Procs /\ RunOf(w) \in Runs
    BY WriterIs
  <2>2. CASE Look(w)
    BY <1>1, <1>2, <1>3, <2>1, <2>2, LookupIs, ScratchKept, HeldKept DEF Look, Lookup, Steps
  <2>3. CASE Pick(w)
    <3>1. CASE Declared[RunOf(w)] = 0 /\ Free = {}
      BY <1>1, <1>2, <2>1, <2>3, <3>1, ScratchKept, HeldKept DEF Pick, Steps
    <3>2. CASE ~(Declared[RunOf(w)] = 0 /\ Free = {})
      <4>1. Free \subseteq 1..Slugs /\ Free \subseteq Nat
        BY DEF Free
      <4>2. Declared[RunOf(w)] = 0 => Oldest(Free) \in 0..Slugs
        <5>1. Oldest(Free) \in Free \cup {Null} /\ (Oldest(Free) = Null <=> Free = {})
          BY <4>1, OldestIn
        <5>2. 1..Slugs \subseteq 0..Slugs
          BY IdentityAssumption
        <5>3. QED
          BY <3>2, <4>1, <5>1, <5>2, Zenon
      <4>3. Declared[RunOf(w)] \in 0..Slugs
        BY <2>1, IdentityAssumption
      <4>4. PICK s \in 0..Slugs : slot' = [slot EXCEPT ![w] = s]
        BY <2>3, <3>2, <4>2, <4>3 DEF Pick
      <4>5. Scratch'
        BY <1>1, <2>1, <2>3, <3>2, <4>4 DEF Pick, Scratch, Goto, Steps
      <4>6. QED
        BY <1>1, <1>2, <2>1, <2>3, <4>5, HeldKept DEF Pick
    <3>3. QED
      BY <3>1, <3>2
  <2>4. CASE Insert(w)
    <3>1. CASE BySlug(slot[w]) # Null
      BY <1>1, <1>2, <1>3, <2>1, <2>4, <3>1, LookupIs, ScratchKept, HeldKept DEF Insert
    <3>2. CASE BySlug(slot[w]) = Null
      <4> DEFINE new == [slug |-> slot[w], class |-> ClassOf[RunOf(w)], next |-> 1, live |-> TRUE]
      <4>1. new \in TestRows
        BY <1>1, <2>1 DEF TestRows, Classes, Scratch
      <4>2. Len(tests) < MaxTests /\ tests' = Append(tests, new) /\ Resolved(w, Len(tests) + 1)
            /\ UNCHANGED <<run, status, todo, lockV, histV, faults>>
        BY <2>4, <3>2 DEF Insert
      <4> HIDE DEF new
      <4>3. tests' \in Seq(TestRows) /\ Len(tests') <= MaxTests /\ Len(tests) + 1 \in 1..MaxTests
        BY <4>1, <4>2, AppendTest
      <4>4. Scratch' /\ Held'
        BY <1>1, <2>1, <4>2, <4>3, ScratchKept, HeldKept
      <4>5. QED
        BY <4>2, <4>3, <4>4 DEF Types, Scratch, Held
    <3>3. QED
      BY <3>1, <3>2
  <2>5. CASE Reread(w) \/ ResolveFails(w)
    BY <1>1, <1>2, <1>3, <2>1, <2>5, LookupIs, ScratchKept, HeldKept DEF Reread, ResolveFails
  <2>6. QED
    BY <1>4, <2>2, <2>3, <2>4, <2>5
<1>5. ASSUME NEW w \in Writers, Begin(w) \/ AttachLock(w) \/ NumberLock(w) \/ Allocate(w) PROVE Types'
  <2>1. w \in Procs /\ RunOf(w) \in Runs
    BY WriterIs
  <2>2. CASE Begin(w)
    BY <1>1, <1>2, <2>1, <2>2, ScratchKept DEF Begin, Held, Steps
  <2>3. CASE AttachLock(w)
    <3>1. Scratch'
      BY <1>1, <2>1, <2>3, ScratchKept DEF AttachLock, Steps
    <3>2. Held'
      BY <1>1, <2>1, <2>3 DEF AttachLock, Held, LockRun
    <3>3. QED
      BY <1>2, <2>3, <3>1, <3>2 DEF AttachLock
  <2>4. CASE NumberLock(w)
    <3>1. Scratch'
      BY <1>1, <2>1, <2>4, ScratchKept DEF NumberLock, Steps
    <3>2. Held'
      <4>1. UNCHANGED <<share, tlock>>
            /\ (UNCHANGED excl \/ LockRun(w, RunOf(w)))
            /\ (UNCHANGED mine \/ Write(w, RunOf(w), [test |-> Null, num |-> Null]))
        BY <2>4 DEF NumberLock
      <4>2. excl' \in [Runs -> Procs \cup {Null}]
        BY <1>1, <2>1, <4>1 DEF Held, LockRun
      <4>3. mine' \in [Procs -> [Runs -> Rows \cup {Null}]]
        BY <1>1, <2>1, <4>1, PlainRow DEF Held, Write
      <4>4. QED
        BY <1>1, <4>1, <4>2, <4>3 DEF Held
    <3>3. QED
      BY <1>2, <2>4, <3>1, <3>2 DEF NumberLock
  <2>5. CASE Allocate(w)
    <3>1. Scratch'
      BY <1>1, <2>1, <2>5, ScratchKept DEF Allocate, Steps
    <3>2. found[w] \in 1..MaxTests /\ tests[found[w]].next \in Nat
      BY <2>5, TestsAre DEF Allocate
    <3>3. [test |-> found[w], num |-> NextNumber(found[w])] \in Rows
      BY <3>2 DEF Rows, NextNumber
    <3>4. Held'
      BY <1>1, <2>1, <2>5, <3>2, <3>3 DEF Allocate, Held, Write
    <3>5. QED
      BY <1>2, <2>5, <3>1, <3>4 DEF Allocate
  <2>6. QED
    BY <1>5, <2>2, <2>3, <2>4, <2>5
<1>6. ASSUME NEW w \in Writers, Refused(w) \/ Abort(w) \/ Redeliver(w) PROVE Types'
  BY <1>1, <1>2, <1>6, WriterIs, ScratchKept, HeldKept DEF Refused, Abort, Redeliver, Steps
<1>7. ASSUME NEW w \in Writers, Commit(w) PROVE Types'
  <2>1. w \in Procs /\ RunOf(w) \in Runs
    BY WriterIs
  <2>2. Scratch' /\ Held'
    BY <1>1, <1>7, <2>1, ScratchKept, HeldKept DEF Commit
  <2>3. tests' \in [1..Len(tests) -> TestRows]
    BY <1>7, TestsAre DEF Commit, TestRows
  <2>4. tests' \in Seq(TestRows) /\ Len(tests') = Len(tests)
    BY <2>3, TestsAre, AsSequence
  <2>5. run' \in [Runs -> Rows]
    BY <1>7, <2>1, CommittedRows DEF Commit
  <2>6. QED
    BY <2>2, <2>4, <2>5 DEF Types, Scratch, Held
<1>8. ASSUME NEW r \in LiveRuns, LegacyAttach(r) PROVE Types'
  <2>1. r \in Runs
    BY IdentityAssumption
  <2>2. PICK t \in 1..MaxTests : run' = [run EXCEPT ![r].test = t]
    BY <1>3, <1>8, LookupIs DEF LegacyAttach, Lookup
  <2>3. run' \in [Runs -> Rows]
    BY <2>1, <2>2 DEF Types, Rows
  <2>4. UNCHANGED <<tests, procV, lockV>>
    BY <1>8 DEF LegacyAttach
  <2>5. QED
    BY <2>3, <2>4 DEF Types
<1>9. ASSUME NEW d \in Removers,
             Remove(d) \/ DeleteTest(d) \/ CascadeDone(d) \/ CommitRemove(d) \/ AbortRemove(d)
      PROVE  Types'
  <2>1. d \in Procs
    BY DEF Procs
  <2>2. CASE Remove(d)
    <3>1. PICK s \in 1..Slugs : /\ BySlug(s) # Null
                                /\ slot' = [slot EXCEPT ![d] = s]
                                /\ found' = [found EXCEPT ![d] = BySlug(s)]
                                /\ todo' = [todo EXCEPT ![d] = In(BySlug(s))]
      BY <2>2 DEF Remove
    <3>2. BySlug(s) \in 1..MaxTests /\ s \in 0..Slugs /\ In(BySlug(s)) \subseteq Runs
      BY <1>3, <3>1, LookupIs DEF In
    <3>3. Scratch'
      BY <1>1, <2>1, <2>2, <3>1, <3>2 DEF Remove, Scratch, Goto, Steps
    <3>4. QED
      BY <1>1, <1>2, <2>1, <2>2, <3>3, HeldKept DEF Remove
  <2>3. CASE DeleteTest(d)
    <3>1. BySlug(slot[d]) # Null => BySlug(slot[d]) \in 1..MaxTests
      BY <1>3, LookupIs
    <3>2. Scratch'
      BY <1>1, <2>1, <2>3, <3>1 DEF DeleteTest, Scratch, Goto, Steps
    <3>3. Held'
      BY <1>1, <2>1, <2>3, <3>1 DEF DeleteTest, Held
    <3>4. QED
      BY <1>2, <2>3, <3>2, <3>3 DEF DeleteTest
  <2>4. CASE CascadeDone(d) \/ AbortRemove(d)
    BY <1>1, <1>2, <2>1, <2>4, ScratchKept, HeldKept DEF CascadeDone, AbortRemove, Steps
  <2>5. CASE CommitRemove(d)
    <3>1. Scratch' /\ Held'
      BY <1>1, <2>1, <2>5, ScratchKept, HeldKept DEF CommitRemove
    <3>2. tests' \in [1..Len(tests) -> TestRows]
      BY <2>5, TestsAre DEF CommitRemove, TestRows
    <3>3. tests' \in Seq(TestRows) /\ Len(tests') = Len(tests)
      BY <3>2, TestsAre, AsSequence
    <3>4. run' \in [Runs -> Rows]
      BY <2>1, <2>5, CommittedRows DEF CommitRemove
    <3>5. QED
      BY <3>1, <3>3, <3>4 DEF Types, Scratch, Held
  <2>6. QED
    BY <1>9, <2>2, <2>3, <2>4, <2>5
<1>10. ASSUME NEW d \in Removers, NEW r \in Runs, Ungroup(d, r) \/ Cascade(d, r) \/ Clear(d, r)
       PROVE  Types'
  <2>1. d \in Procs
    BY DEF Procs
  <2>2. run[r].num \in Nat \cup {Null}
    BY DEF Types, Rows
  <2>3. [test |-> Null, num |-> run[r].num] \in Rows
    BY <2>2 DEF Rows
  <2>4. Held'
    BY <1>1, <1>10, <2>1, <2>3, PlainRow DEF Ungroup, Cascade, Clear, Held, LockRun, Write
  <2>5. Scratch'
    BY <1>1, <1>10 DEF Ungroup, Cascade, Clear, Scratch
  <2>6. QED
    BY <1>2, <1>10, <2>4, <2>5 DEF Ungroup, Cascade, Clear
<1>11. CASE UNCHANGED vars
  BY <1>11 DEF vars, Types
<1>12. QED
  BY <1>4, <1>5, <1>6, <1>7, <1>8, <1>9, <1>10, <1>11 DEF Next

-----------------------------------------------------------------------------
(* Numbers. *)

\* A step that writes no run, and takes no run's lock.
LEMMA QuietKeeps ==
    ASSUME NumberInv, Types', UNCHANGED <<run, mine, excl, issued, legacy>>,
           \A t \in DOMAIN tests : t \in DOMAIN tests' /\ tests'[t].next = tests[t].next,
           \A t \in 1..MaxTests : tlock[t] # Null => tlock'[t] = tlock[t],
           \A w \in Writers :
             /\ pc'[w] = "lockTest" => pc[w] = "lockTest" /\ found'[w] = found[w]
             /\ pc[w] = "commit" => pc'[w] = "commit"
             /\ pc'[w] = "lockRun" /\ w[1] = "fold" => found'[w] # Null
    PROVE  NumberInv'
<1>1. Locked'
  BY DEF NumberInv, Locked, Moves
<1>2. Allocated'
  <2> SUFFICES ASSUME NEW w \in Writers, NEW r \in Runs, mine[w][r] # Null
               PROVE  /\ r = RunOf(w) /\ pc'[w] = "commit"
                      /\ mine[w][r].test # run[r].test \/ run[r].num = Null
                      /\ mine[w][r].test = Null => mine[w][r].num = Null
                      /\ mine[w][r].test # Null =>
                           /\ tlock'[mine[w][r].test] = w
                           /\ mine[w][r].test \in DOMAIN tests'
                           /\ mine[w][r].num = tests'[mine[w][r].test].next
    BY DEF Allocated
  <2>1. w # Null /\ DOMAIN tests \subseteq 1..MaxTests
    BY WriterIs, TestsAre DEF NumberInv
  <2>2. QED
    BY <2>1 DEF NumberInv, Allocated
<1>3. Ungrouped' /\ NumberNamesOneRun' /\ NumberedIffGrouped'
  BY DEF NumberInv, Ungrouped, NumberNamesOneRun, NumberedIffGrouped
<1>4. Issued'
  BY DEF NumberInv, Issued
<1>5. QED
  BY <1>1, <1>2, <1>3, <1>4 DEF NumberInv

\* A transaction that ends without its writes.
LEMMA ReleaseKeeps ==
    ASSUME NumberInv, Types', NEW p \in Procs, Release(p), UNCHANGED <<tests, run, issued, legacy>>,
           NEW s \in {"idle", "done"}, End(p, s)
    PROVE  NumberInv'
<1>1. /\ \A q \in Procs : q # p => mine'[q] = mine[q] /\ pc'[q] = pc[q] /\ found'[q] = found[q]
      /\ \A r \in Runs : mine'[p][r] = Null
      /\ pc'[p] = s
      /\ \A r \in Runs : excl[r] # p => excl'[r] = excl[r]
      /\ \A t \in 1..MaxTests : tlock[t] # p => tlock'[t] = tlock[t]
  BY DEF Release, End, Goto, NoWrite, NumberInv, Types
<1>2. Locked'
  <2>1. \A q \in Procs, r \in Runs : mine'[q][r] # Null => excl'[r] = q
    BY <1>1 DEF NumberInv, Locked
  <2>2. ASSUME NEW w \in Writers, pc'[w] = "lockTest"
        PROVE  excl'[RunOf(w)] = w /\ found'[w] # Null /\ Moves(w)'
    <3>1. w # p /\ w \in Procs /\ RunOf(w) \in Runs
      BY <1>1, <2>2, WriterIs
    <3>2. QED
      BY <1>1, <2>2, <3>1 DEF NumberInv, Locked, Moves
  <2>3. \A w \in Writers : pc'[w] = "lockRun" /\ w[1] = "fold" => found'[w] # Null
    BY <1>1, WriterIs DEF NumberInv, Locked
  <2>4. QED
    BY <2>1, <2>2, <2>3 DEF Locked
<1>3. Allocated'
  <2>1. ASSUME NEW w \in Writers, NEW r \in Runs, mine'[w][r] # Null PROVE w # p /\ w \in Procs
    BY <1>1, <2>1, WriterIs
  <2>2. DOMAIN tests \subseteq 1..MaxTests
    BY TestsAre DEF NumberInv
  <2>3. QED
    BY <1>1, <2>1, <2>2 DEF NumberInv, Allocated
<1>4. Ungrouped'
  BY <1>1 DEF NumberInv, Ungrouped, Procs
<1>5. Issued' /\ NumberNamesOneRun' /\ NumberedIffGrouped'
  BY DEF NumberInv, Issued, NumberNamesOneRun, NumberedIffGrouped
<1>6. QED
  BY <1>2, <1>3, <1>4, <1>5 DEF NumberInv

\* The resolver, and the steps of a transaction that only read.
LEMMA ResolveKeeps ==
    ASSUME NumberInv, Types', NEW w \in Writers,
           Look(w) \/ Pick(w) \/ Insert(w) \/ Reread(w) \/ ResolveFails(w) \/ Begin(w) \/ Redeliver(w)
    PROVE  NumberInv'
<1> USE DEF rowV, lockV, histV
<1>1. UNCHANGED <<run, mine, excl, tlock, issued, legacy>>
  BY DEF Look, Pick, Insert, Reread, ResolveFails, Begin, Redeliver
<1>2. /\ pc[w] # "commit" /\ pc'[w] # "lockTest"
      /\ pc'[w] = "lockRun" /\ w[1] = "fold" => found'[w] # Null
      /\ \A v \in Writers : v # w => pc'[v] = pc[v] /\ found'[v] = found[v]
  BY WriterIs DEF Look, Pick, Insert, Reread, ResolveFails, Begin, Redeliver, Resolved, Joining, Goto,
                  NumberInv, Types
<1>3. \A t \in DOMAIN tests : t \in DOMAIN tests' /\ tests'[t].next = tests[t].next
  <2>1. CASE UNCHANGED tests
    BY <2>1
  <2>2. CASE tests' # tests
    <3> DEFINE new == [slug |-> slot[w], class |-> ClassOf[RunOf(w)], next |-> 1, live |-> TRUE]
    <3>1. Len(tests) < MaxTests /\ tests' = Append(tests, new)
      BY <2>2 DEF Look, Pick, Insert, Reread, ResolveFails, Begin, Redeliver
    <3>2. new \in TestRows
      BY WriterIs DEF TestRows, Classes, NumberInv, Types
    <3> HIDE DEF new
    <3>3. QED
      BY <3>1, <3>2, AppendTest DEF NumberInv
  <2>3. QED
    BY <2>1, <2>2
<1>4. \A v \in Writers : pc'[v] = "lockRun" /\ v[1] = "fold" => found'[v] # Null
  BY <1>2 DEF NumberInv, Locked
<1>5. QED
  BY <1>1, <1>2, <1>3, <1>4, QuietKeeps

\* The locks of the run's row.
LEMMA LockKeeps ==
    ASSUME NumberInv, Types', NEW w \in Writers, AttachLock(w) \/ NumberLock(w)
    PROVE  NumberInv'
<1> USE DEF rowV, lockV, histV
<1>1. w \in Procs /\ RunOf(w) \in Runs
  BY WriterIs
<1>2. /\ UNCHANGED <<tests, run, share, tlock, issued, legacy>>
      /\ excl[RunOf(w)] \in {Null, w}
      /\ pc[w] = "lockRun"
      /\ \A v \in Writers : v # w => pc'[v] = pc[v] /\ found'[v] = found[v]
      /\ pc'[w] # "lockRun"
  <2>1. UNCHANGED <<tests, run, share, tlock, issued, legacy>> /\ Lockable(w, RunOf(w)) /\ pc[w] = "lockRun"
    BY DEF AttachLock, NumberLock
  <2>2. \E s \in {"done", "commit", "lockTest"} : Goto(w, s)
    BY DEF AttachLock, NumberLock, End
  <2>3. UNCHANGED found \/ found' = [found EXCEPT ![w] = Null]
    BY DEF AttachLock, NumberLock, End
  <2>4. QED
    BY <1>1, <2>1, <2>2, <2>3, WriterIs DEF Lockable, Goto, NumberInv, Types
<1>3. CASE AttachLock(w) /\ run[RunOf(w)].test # Null
  <2>1. UNCHANGED <<mine, excl>> /\ pc'[w] = "done"
    BY <1>1, <1>3 DEF AttachLock, End, Goto, NumberInv, Types
  <2>2. QED
    BY <1>2, <2>1, QuietKeeps DEF NumberInv, Locked
<1>4. CASE NumberLock(w) /\ status[RunOf(w)] # "parsing"
  <2>1. UNCHANGED <<mine, excl>> /\ pc'[w] = "commit"
    BY <1>1, <1>4 DEF NumberLock, Goto, NumberInv, Types
  <2>2. QED
    BY <1>2, <2>1, QuietKeeps DEF NumberInv, Locked
<1>5. ASSUME LockRun(w, RunOf(w)), pc'[w] \in {"lockTest", "commit"},
             pc'[w] = "lockTest" => UNCHANGED found /\ found[w] # Null /\ Moves(w) /\ UNCHANGED mine,
             \/ UNCHANGED mine
             \/ Write(w, RunOf(w), [test |-> Null, num |-> Null])
                /\ (run[RunOf(w)].test # Null \/ run[RunOf(w)].num = Null)
      PROVE  NumberInv'
  <2>1. /\ excl'[RunOf(w)] = w
        /\ \A r \in Runs : r # RunOf(w) => excl'[r] = excl[r]
    BY <1>1, <1>5 DEF LockRun, NumberInv, Types
  <2>2. \A p \in Procs : p # w => mine[p][RunOf(w)] = Null
    BY <1>1, <1>2, ProcIs DEF NumberInv, Locked
  <2>3. /\ \A p \in Procs : p # w => mine'[p] = mine[p]
        /\ \A r \in Runs : r # RunOf(w) => mine'[w][r] = mine[w][r]
        /\ \/ UNCHANGED mine
           \/ mine'[w][RunOf(w)] = [test |-> Null, num |-> Null]
              /\ (run[RunOf(w)].test # Null \/ run[RunOf(w)].num = Null)
    BY <1>1, <1>5 DEF Write, NumberInv, Types
  <2>4. \A r \in Runs : mine[w][r] = Null
    BY <1>2 DEF NumberInv, Allocated
  <2>5. Locked'
    <3>1. \A p \in Procs, r \in Runs : mine'[p][r] # Null => excl'[r] = p
      BY <1>1, <2>1, <2>2, <2>3, <2>4 DEF NumberInv, Locked
    <3>2. ASSUME NEW v \in Writers, pc'[v] = "lockTest"
          PROVE  excl'[RunOf(v)] = v /\ found'[v] # Null /\ Moves(v)'
      <4>1. CASE v = w
        BY <1>2, <1>5, <2>1, <3>2, <4>1 DEF Moves
      <4>2. CASE v # w
        <5>1. excl[RunOf(v)] = v /\ found'[v] = found[v] /\ found[v] # Null /\ Moves(v)
          BY <1>2, <3>2, <4>2 DEF NumberInv, Locked
        <5>2. RunOf(v) # RunOf(w)
          BY <1>2, <4>2, <5>1, WriterIs
        <5>3. QED
          BY <1>2, <2>1, <5>1, <5>2, WriterIs DEF Moves
      <4>3. QED
        BY <4>1, <4>2
    <3>3. \A v \in Writers : pc'[v] = "lockRun" /\ v[1] = "fold" => found'[v] # Null
      BY <1>2, <1>5 DEF NumberInv, Locked
    <3>4. QED
      BY <3>1, <3>2, <3>3 DEF Locked
  <2>6. Allocated'
    <3>1. ASSUME NEW v \in Writers, NEW r \in Runs, v # w, mine'[v][r] # Null
          PROVE  mine'[v] = mine[v] /\ pc'[v] = pc[v]
      BY <1>2, <2>3, <3>1, WriterIs
    <3>2. ASSUME NEW r \in Runs, mine'[w][r] # Null
          PROVE  /\ r = RunOf(w) /\ mine'[w][r] = [test |-> Null, num |-> Null]
                 /\ (run[r].test # Null \/ run[r].num = Null)
                 /\ pc'[w] = "commit"
      BY <1>5, <2>3, <2>4, <3>2
    <3>3. QED
      BY <1>2, <3>1, <3>2 DEF NumberInv, Allocated
  <2>7. Ungrouped'
    BY <2>3, WriterIs DEF NumberInv, Ungrouped, Procs
  <2>8. Issued' /\ NumberNamesOneRun' /\ NumberedIffGrouped'
    BY <1>2 DEF NumberInv, Issued, NumberNamesOneRun, NumberedIffGrouped
  <2>9. QED
    BY <2>5, <2>6, <2>7, <2>8 DEF NumberInv
<1>6. CASE AttachLock(w) /\ run[RunOf(w)].test = Null
  <2>1. found[w] # Null
    BY <1>6 DEF AttachLock, NumberInv, Locked
  <2>2. QED
    BY <1>1, <1>5, <1>6, <2>1 DEF AttachLock, Goto, Moves, NumberInv, Types
<1>7. CASE NumberLock(w) /\ status[RunOf(w)] = "parsing"
  BY <1>1, <1>5, <1>7 DEF NumberLock, Goto, Moves, NumberInv, Types
<1>8. QED
  BY <1>3, <1>4, <1>6, <1>7

\* The number: the test's lock is new, so nobody else has a number of this test in hand.
LEMMA AllocateKeeps ==
    ASSUME NumberInv, Types', NEW w \in Writers, Allocate(w)
    PROVE  NumberInv'
<1> USE DEF rowV, lockV, histV
<1> DEFINE r0 == RunOf(w)
           t0 == found[w]
<1>1. w \in Procs /\ r0 \in Runs /\ w # Null
  BY WriterIs
<1>2. /\ UNCHANGED <<tests, run, excl, found, issued, legacy>>
      /\ t0 \in Live /\ tlock[t0] = Null /\ pc[w] = "lockTest"
      /\ Write(w, r0, [test |-> t0, num |-> tests[t0].next])
      /\ tlock' = [tlock EXCEPT ![t0] = w] /\ Goto(w, "commit")
  BY DEF Allocate, NextNumber
<1>3. t0 \in DOMAIN tests /\ t0 \in 1..MaxTests /\ t0 # Null
  BY <1>2, TestsAre, IdentityAssumption DEF NumberInv
<1>4. /\ pc'[w] = "commit" /\ \A v \in Procs : v # w => pc'[v] = pc[v] /\ mine'[v] = mine[v]
      /\ mine'[w][r0] = [test |-> t0, num |-> tests[t0].next]
      /\ \A r \in Runs : r # r0 => mine'[w][r] = mine[w][r]
      /\ tlock'[t0] = w /\ \A t \in 1..MaxTests : t # t0 => tlock'[t] = tlock[t]
  BY <1>1, <1>2, <1>3 DEF Write, Goto, NumberInv, Types
<1>5. excl[r0] = w /\ Moves(w)
  BY <1>2 DEF NumberInv, Locked
<1>6. Locked'
  <2>1. \A p \in Procs, r \in Runs : mine'[p][r] # Null => excl'[r] = p
    BY <1>1, <1>2, <1>4, <1>5 DEF NumberInv, Locked
  <2>2. QED
    BY <1>2, <1>4, <2>1, WriterIs DEF NumberInv, Locked, Moves
<1>7. Allocated'
  <2>1. ASSUME NEW v \in Writers, NEW r \in Runs, mine'[v][r] # Null
        PROVE  /\ r = RunOf(v) /\ pc'[v] = "commit"
               /\ mine'[v][r].test # run'[r].test \/ run'[r].num = Null
               /\ mine'[v][r].test = Null => mine'[v][r].num = Null
               /\ mine'[v][r].test # Null =>
                    /\ tlock'[mine'[v][r].test] = v
                    /\ mine'[v][r].test \in DOMAIN tests'
                    /\ mine'[v][r].num = tests'[mine'[v][r].test].next
    <3>1. CASE v = w
      <4>1. r = r0
        BY <1>2, <1>4, <2>1, <3>1 DEF NumberInv, Allocated
      <4>2. mine'[v][r].test = t0 /\ mine'[v][r].num = tests[t0].next
        BY <1>4, <3>1, <4>1
      <4>3. QED
        BY <1>2, <1>3, <1>4, <1>5, <3>1, <4>1, <4>2 DEF Moves
    <3>2. CASE v # w
      <4>1. v \in Procs /\ v # Null /\ mine'[v][r] = mine[v][r] /\ pc'[v] = pc[v]
        BY <1>4, <3>2, WriterIs
      <4>2. QED
        BY <1>2, <1>4, <2>1, <4>1, TestsAre DEF NumberInv, Allocated
    <3>3. QED
      BY <3>1, <3>2
  <2>2. QED
    BY <2>1 DEF Allocated
<1>8. Ungrouped'
  BY <1>4, WriterIs DEF NumberInv, Ungrouped, Procs
<1>9. Issued' /\ NumberNamesOneRun' /\ NumberedIffGrouped'
  BY <1>2 DEF NumberInv, Issued, NumberNamesOneRun, NumberedIffGrouped
<1>10. QED
  BY <1>6, <1>7, <1>8, <1>9 DEF NumberInv

\* What the commit of a writer changes: its own run, if it wrote one, and the counter of the
\* test it took a number from.
LEMMA CommitIs ==
    ASSUME NumberInv, NEW w \in Writers, Commit(w)
    PROVE  LET row == mine[w][RunOf(w)]
               took == row # Null /\ row.test # Null
           IN  /\ \A r \in Runs : r # RunOf(w) => run'[r] = run[r]
               /\ run'[RunOf(w)] = IF row = Null THEN run[RunOf(w)] ELSE row
               /\ issued \subseteq issued'
               /\ took => <<row.test, row.num, RunOf(w)>> \in issued' /\ row.num \in Nat
               /\ \A x \in issued' : x \in issued \/ (took /\ x = <<row.test, row.num, RunOf(w)>>)
               /\ DOMAIN tests' = DOMAIN tests
               /\ \A t \in DOMAIN tests :
                    tests'[t].next = IF took /\ row.test = t THEN tests[t].next + 1 ELSE tests[t].next
<1> DEFINE r0 == RunOf(w)
           row == mine[w][r0]
           took == row # Null /\ row.test # Null
<1>1. w \in Procs /\ r0 \in Runs
  BY WriterIs
<1>2. \A r \in Runs : r # r0 => mine[w][r] = Null
  BY DEF NumberInv, Allocated
<1>3. run' = Committed(w) /\ issued' = issued \cup Numbers(run')
  BY DEF Commit
<1>4. (\A r \in Runs : r # r0 => run'[r] = run[r]) /\ run'[r0] = IF row = Null THEN run[r0] ELSE row
  BY <1>1, <1>2, <1>3 DEF Committed
<1>5. row # Null => row \in Rows /\ (row.test = Null => row.num = Null)
  BY <1>1 DEF NumberInv, Types, Allocated
<1>6. took => row.num \in Nat /\ row.num # Null
  <2>1. took => row.test \in DOMAIN tests /\ row.num = tests[row.test].next
    BY <1>1 DEF NumberInv, Allocated
  <2>2. QED
    BY <2>1, TestsAre, IdentityAssumption DEF NumberInv
<1>7. took => <<row.test, row.num, r0>> \in issued'
  BY <1>1, <1>3, <1>4, <1>6 DEF Numbers
<1>8. ASSUME NEW x \in issued', x \notin issued PROVE took /\ x = <<row.test, row.num, r0>>
  <2>1. PICK r \in Runs : run'[r].num # Null /\ x = <<run'[r].test, run'[r].num, r>>
    BY <1>3, <1>8 DEF Numbers
  <2>2. run'[r] # run[r]
    BY <1>8, <2>1 DEF NumberInv, Issued
  <2>3. r = r0 /\ row # Null /\ run'[r] = row
    BY <1>4, <2>2
  <2>4. QED
    BY <1>5, <2>1, <2>3
<1>9. DOMAIN tests' = DOMAIN tests
      /\ \A t \in DOMAIN tests :
           tests'[t].next = IF took /\ row.test = t THEN tests[t].next + 1 ELSE tests[t].next
  <2>1. \A t \in DOMAIN tests : t # Null /\ tests[t] \in TestRows
    BY TestsAre, IdentityAssumption DEF NumberInv
  <2>2. tests' = [t \in DOMAIN tests |-> IF row # Null /\ row.test = t
                                         THEN [tests[t] EXCEPT !.next = @ + 1] ELSE tests[t]]
    BY DEF Commit
  <2>3. QED
    BY <2>1, <2>2 DEF TestRows
<1>10. QED
  BY <1>3, <1>4, <1>6, <1>7, <1>8, <1>9

\* The commit of a number.
LEMMA CommitKeeps ==
    ASSUME NumberInv, Types', NEW w \in Writers, Commit(w)
    PROVE  NumberInv'
<1> DEFINE r0 == RunOf(w)
           row == mine[w][r0]
           took == row # Null /\ row.test # Null
<1>1. w \in Procs /\ r0 \in Runs /\ w # Null
  BY WriterIs
<1>2. /\ \A r \in Runs : r # r0 => run'[r] = run[r]
      /\ run'[r0] = IF row = Null THEN run[r0] ELSE row
      /\ issued \subseteq issued'
      /\ took => <<row.test, row.num, r0>> \in issued' /\ row.num \in Nat
      /\ \A x \in issued' : x \in issued \/ (took /\ x = <<row.test, row.num, r0>>)
      /\ DOMAIN tests' = DOMAIN tests
      /\ \A t \in DOMAIN tests :
           tests'[t].next = IF took /\ row.test = t THEN tests[t].next + 1 ELSE tests[t].next
  BY CommitIs
<1>3. /\ \A q \in Procs : q # w => mine'[q] = mine[q] /\ pc'[q] = pc[q] /\ found'[q] = found[q]
      /\ \A r \in Runs : mine'[w][r] = Null
      /\ pc'[w] = "done"
      /\ \A r \in Runs : excl[r] # w => excl'[r] = excl[r]
      /\ \A t \in 1..MaxTests : tlock[t] # w => tlock'[t] = tlock[t]
      /\ UNCHANGED legacy
  BY <1>1 DEF Commit, Release, End, Goto, NoWrite, NumberInv, Types
<1>4. row # Null => /\ excl[r0] = w
                    /\ row.test = Null => row.num = Null
  BY <1>1 DEF NumberInv, Locked, Allocated
<1>5. took => /\ tlock[row.test] = w /\ row.test \in DOMAIN tests /\ row.num = tests[row.test].next
              /\ row.num \in Nat /\ row.num # Null
  BY <1>1, <1>2, IdentityAssumption DEF NumberInv, Allocated
<1> HIDE DEF row, took
<1>6. Locked'
  <2>1. \A p \in Procs, r \in Runs : mine'[p][r] # Null => excl'[r] = p
    BY <1>3 DEF NumberInv, Locked
  <2>2. ASSUME NEW v \in Writers, pc'[v] = "lockTest"
        PROVE  excl'[RunOf(v)] = v /\ found'[v] # Null /\ Moves(v)'
    <3>1. v # w /\ v \in Procs /\ RunOf(v) \in Runs /\ pc[v] = "lockTest" /\ found'[v] = found[v]
      BY <1>3, <2>2, WriterIs
    <3>2. excl[RunOf(v)] = v /\ found[v] # Null /\ Moves(v)
      BY <3>1 DEF NumberInv, Locked
    <3>3. run'[RunOf(v)] = run[RunOf(v)]
      BY <1>2, <1>4, <3>1, <3>2
    <3>4. QED
      BY <1>3, <3>1, <3>2, <3>3 DEF Moves
  <2>3. \A v \in Writers : pc'[v] = "lockRun" /\ v[1] = "fold" => found'[v] # Null
    BY <1>3, WriterIs DEF NumberInv, Locked
  <2>4. QED
    BY <2>1, <2>2, <2>3 DEF Locked
<1>7. Allocated'
  <2>1. ASSUME NEW v \in Writers, NEW r \in Runs, mine'[v][r] # Null
        PROVE  /\ r = RunOf(v) /\ pc'[v] = "commit"
               /\ mine'[v][r].test # run'[r].test \/ run'[r].num = Null
               /\ mine'[v][r].test = Null => mine'[v][r].num = Null
               /\ mine'[v][r].test # Null =>
                    /\ tlock'[mine'[v][r].test] = v
                    /\ mine'[v][r].test \in DOMAIN tests'
                    /\ mine'[v][r].num = tests'[mine'[v][r].test].next
    <3>1. v # w /\ v \in Procs /\ mine'[v] = mine[v] /\ pc'[v] = pc[v]
      BY <1>3, <2>1, WriterIs
    <3>2. excl[r] = v
      BY <2>1, <3>1 DEF NumberInv, Locked
    <3>3. run'[r] = run[r]
      BY <1>2, <1>4, <3>1, <3>2
    <3>4. /\ r = RunOf(v) /\ pc[v] = "commit"
          /\ mine[v][r].test # run[r].test \/ run[r].num = Null
          /\ mine[v][r].test = Null => mine[v][r].num = Null
          /\ mine[v][r].test # Null =>
               /\ tlock[mine[v][r].test] = v
               /\ mine[v][r].test \in DOMAIN tests
               /\ mine[v][r].num = tests[mine[v][r].test].next
      BY <2>1, <3>1 DEF NumberInv, Allocated
    <3>5. mine[v][r].test # Null =>
            tests'[mine[v][r].test].next = tests[mine[v][r].test].next /\ mine[v][r].test \in 1..MaxTests
      BY <1>2, <1>5, <3>1, <3>4, TestsAre DEF NumberInv
    <3>6. QED
      BY <1>2, <1>3, <3>1, <3>3, <3>4, <3>5
  <2>2. QED
    BY <2>1 DEF Allocated
<1>8. Ungrouped'
  BY <1>3, WriterIs DEF NumberInv, Ungrouped, Procs
<1>9. Issued'
  <2>1. ASSUME NEW r \in Runs, run'[r].num # Null PROVE <<run'[r].test, run'[r].num, r>> \in issued'
    <3>1. CASE run'[r] = run[r]
      BY <1>2, <2>1, <3>1 DEF NumberInv, Issued
    <3>2. CASE run'[r] # run[r]
      <4>1. r = r0 /\ row # Null /\ run'[r] = row
        BY <1>2, <3>2
      <4>2. took
        BY <1>4, <2>1, <4>1 DEF took
      <4>3. QED
        BY <1>2, <4>1, <4>2
    <3>3. QED
      BY <3>1, <3>2
  <2>2. ASSUME NEW x \in issued'
        PROVE  x \in (1..MaxTests) \X Nat \X Runs /\ x[1] \in DOMAIN tests' /\ x[2] < tests'[x[1]].next
    <3>1. CASE x \in issued
      <4>1. x \in (1..MaxTests) \X Nat \X Runs /\ x[1] \in DOMAIN tests /\ x[2] < tests[x[1]].next
        BY <3>1 DEF NumberInv, Issued
      <4>2. tests[x[1]].next \in Nat /\ x[2] \in Nat
        BY <4>1, TestsAre DEF NumberInv
      <4>3. QED
        BY <1>2, <4>1, <4>2
    <3>2. CASE x \notin issued
      <4>1. took /\ x = <<row.test, row.num, r0>>
        BY <1>2, <3>2
      <4>2. row.test \in 1..MaxTests
        BY <1>5, <4>1, TestsAre DEF NumberInv
      <4>3. QED
        BY <1>1, <1>2, <1>5, <4>1, <4>2
    <3>3. QED
      BY <3>1, <3>2
  <2>3. QED
    BY <2>1, <2>2 DEF Issued
<1>10. NumberNamesOneRun'
  <2>1. ASSUME NEW x \in issued', NEW y \in issued', x[1] = y[1], x[2] = y[2] PROVE x[3] = y[3]
    <3>1. ASSUME NEW z \in issued, took, z[1] = row.test, z[2] = row.num PROVE FALSE
      <4>1. z[2] < tests[z[1]].next /\ z[2] \in Nat
        BY <3>1 DEF NumberInv, Issued
      <4>2. QED
        BY <1>5, <3>1, <4>1
    <3>2. CASE x \in issued /\ y \in issued
      BY <2>1, <3>2 DEF NumberInv, NumberNamesOneRun
    <3>3. QED
      BY <1>2, <2>1, <3>1, <3>2
  <2>2. QED
    BY <2>1 DEF NumberNamesOneRun
<1>11. NumberedIffGrouped'
  <2>1. ASSUME NEW r \in Runs
        PROVE  /\ run'[r].test = Null => run'[r].num = Null
               /\ run'[r].test # Null /\ r \notin legacy => run'[r].num # Null
    <3>1. CASE run'[r] = run[r]
      BY <3>1 DEF NumberInv, NumberedIffGrouped
    <3>2. CASE run'[r] # run[r]
      <4>1. row # Null /\ run'[r] = row
        BY <1>2, <3>2
      <4>2. QED
        BY <1>4, <1>5, <4>1 DEF took
    <3>3. QED
      BY <3>1, <3>2
  <2>2. QED
    BY <1>3, <2>1 DEF NumberedIffGrouped
<1>12. QED
  BY <1>6, <1>7, <1>8, <1>9, <1>10, <1>11 DEF NumberInv

\* An older worker attaches a run that nobody has locked.
LEMMA LegacyKeeps ==
    ASSUME NumberInv, Types', NEW r0 \in LiveRuns, LegacyAttach(r0)
    PROVE  NumberInv'
<1> USE DEF lockV, procV
<1>1. r0 \in Runs
  BY IdentityAssumption
<1>2. PICK t : run' = [run EXCEPT ![r0].test = t]
  BY DEF LegacyAttach
<1>3. /\ UNCHANGED <<tests, pc, found, mine, excl, tlock, issued>>
      /\ legacy' = legacy \cup {r0} /\ excl[r0] = Null /\ run[r0].test = Null
  BY DEF LegacyAttach
<1>4. run[r0].num = Null
  BY <1>1, <1>3 DEF NumberInv, NumberedIffGrouped
<1>5. run'[r0].num = Null /\ \A r \in Runs : r # r0 => run'[r] = run[r]
  BY <1>1, <1>2, <1>4 DEF NumberInv, Types, Rows
<1>6. Locked'
  <2>1. ASSUME NEW w \in Writers, pc[w] = "lockTest" PROVE run'[RunOf(w)] = run[RunOf(w)]
    BY <1>3, <1>5, <2>1, WriterIs DEF NumberInv, Locked
  <2>2. QED
    BY <1>3, <2>1 DEF NumberInv, Locked, Moves
<1>7. Allocated'
  <2>1. ASSUME NEW w \in Writers, NEW r \in Runs, mine[w][r] # Null PROVE run'[r] = run[r]
    BY <1>3, <1>5, <2>1, WriterIs DEF NumberInv, Locked
  <2>2. QED
    BY <1>3, <2>1 DEF NumberInv, Allocated
<1>8. Ungrouped' /\ NumberNamesOneRun'
  BY <1>3 DEF NumberInv, Ungrouped, NumberNamesOneRun
<1>9. Issued' /\ NumberedIffGrouped'
  BY <1>3, <1>5 DEF NumberInv, Issued, NumberedIffGrouped
<1>10. QED
  BY <1>6, <1>7, <1>8, <1>9 DEF NumberInv

\* The three statements of a delete.
LEMMA DeleteKeeps ==
    ASSUME NumberInv, Types', NEW d \in Removers,
           \/ Remove(d) \/ DeleteTest(d) \/ CascadeDone(d)
           \/ \E r \in Runs : Ungroup(d, r) \/ Cascade(d, r) \/ Clear(d, r)
    PROVE  NumberInv'
<1> USE DEF rowV, procV, lockV, histV
<1>1. d \in Procs /\ d \notin Writers /\ d # Null
  BY WriterIs, ProcIs DEF Procs
<1>2. ASSUME NEW w \in Writers PROVE pc'[w] = pc[w] /\ found'[w] = found[w]
  BY <1>1, WriterIs DEF Remove, DeleteTest, CascadeDone, Ungroup, Cascade, Clear, Goto, NumberInv, Types
<1>3. UNCHANGED <<tests, run, issued, legacy>>
  BY DEF Remove, DeleteTest, CascadeDone, Ungroup, Cascade, Clear
<1>4. CASE Remove(d) \/ DeleteTest(d) \/ CascadeDone(d)
  <2>1. UNCHANGED <<mine, excl>> /\ \A t \in 1..MaxTests : tlock[t] # Null => tlock'[t] = tlock[t]
    BY <1>4 DEF Remove, DeleteTest, CascadeDone, NumberInv, Types
  <2>2. QED
    BY <1>2, <1>3, <2>1, QuietKeeps DEF NumberInv, Locked
<1>5. ASSUME NEW r \in Runs, Ungroup(d, r) \/ Cascade(d, r) \/ Clear(d, r) PROVE NumberInv'
  <2>1. UNCHANGED tlock
    BY <1>5 DEF Ungroup, Cascade, Clear
  <2>2. CASE UNCHANGED <<mine, excl>>
    BY <1>2, <1>3, <2>1, <2>2, QuietKeeps DEF NumberInv, Locked
  <2>3. CASE ~UNCHANGED <<mine, excl>>
    <3>1. excl[r] \in {Null, d} /\ LockRun(d, r)
          /\ \E n : Write(d, r, [test |-> Null, num |-> n])
      BY <1>5, <2>3 DEF Ungroup, Cascade, Clear, Lockable
    <3>2. /\ excl'[r] = d /\ \A x \in Runs : x # r => excl'[x] = excl[x]
          /\ \A p \in Procs : p # d => mine'[p] = mine[p]
          /\ \A x \in Runs : x # r => mine'[d][x] = mine[d][x]
          /\ mine'[d][r].test = Null
      BY <1>1, <3>1 DEF LockRun, Write, NumberInv, Types
    <3>3. \A p \in Procs : p # d => mine[p][r] = Null
      BY <3>1, ProcIs DEF NumberInv, Locked
    <3>4. Locked'
      <4>1. \A p \in Procs, x \in Runs : mine'[p][x] # Null => excl'[x] = p
        BY <3>2, <3>3 DEF NumberInv, Locked
      <4>2. ASSUME NEW w \in Writers, pc[w] = "lockTest" PROVE excl'[RunOf(w)] = w
        BY <1>1, <3>1, <3>2, <4>2, WriterIs DEF NumberInv, Locked
      <4>3. QED
        BY <1>2, <1>3, <4>1, <4>2 DEF NumberInv, Locked, Moves
    <3>5. Allocated'
      BY <1>1, <1>2, <1>3, <2>1, <3>2, WriterIs DEF NumberInv, Allocated
    <3>6. Ungrouped'
      BY <3>2 DEF NumberInv, Ungrouped, Procs
    <3>7. Issued' /\ NumberNamesOneRun' /\ NumberedIffGrouped'
      BY <1>3 DEF NumberInv, Issued, NumberNamesOneRun, NumberedIffGrouped
    <3>8. QED
      BY <3>4, <3>5, <3>6, <3>7 DEF NumberInv
  <2>4. QED
    BY <2>2, <2>3
<1>6. QED
  BY <1>4, <1>5

\* The commit of a delete: statement (3) has left no number without a test.
LEMMA CommitRemoveKeeps ==
    ASSUME NumberInv, Types', NEW d \in Removers, CommitRemove(d)
    PROVE  NumberInv'
<1> USE DEF histV
<1>1. d \in Procs /\ d \notin Writers /\ d # Null
  BY WriterIs, ProcIs DEF Procs
<1>2. \A r \in Runs : run'[r] = IF mine[d][r] = Null THEN run[r] ELSE mine[d][r]
  BY DEF CommitRemove, Committed
<1>3. \A r \in Runs : run'[r] # run[r] => /\ excl[r] = d
                                          /\ run'[r].test = Null /\ run'[r].num = Null
  <2>1. ASSUME NEW r \in Runs, run'[r] # run[r] PROVE mine[d][r] # Null /\ run'[r] = mine[d][r]
    BY <1>2, <2>1
  <2>2. ASSUME NEW r \in Runs, run'[r].test = Null PROVE run'[r].num = Null
    BY <2>2 DEF CommitRemove, Stranded
  <2>3. QED
    BY <1>1, <2>1, <2>2 DEF NumberInv, Locked, Ungrouped
<1>4. /\ \A q \in Procs : q # d => mine'[q] = mine[q] /\ pc'[q] = pc[q] /\ found'[q] = found[q]
      /\ \A r \in Runs : mine'[d][r] = Null
      /\ \A r \in Runs : excl[r] # d => excl'[r] = excl[r]
      /\ \A t \in 1..MaxTests : tlock[t] # d => tlock'[t] = tlock[t]
      /\ UNCHANGED <<issued, legacy>>
  BY <1>1 DEF CommitRemove, Release, End, Goto, NoWrite, NumberInv, Types
<1>5. DOMAIN tests' = DOMAIN tests /\ \A t \in DOMAIN tests : tests'[t].next = tests[t].next
  <2>1. tests' = [t \in DOMAIN tests |->
                    IF tlock[t] = d THEN [tests[t] EXCEPT !.live = FALSE] ELSE tests[t]]
    BY DEF CommitRemove
  <2>2. \A t \in DOMAIN tests : tests[t] \in TestRows
    BY TestsAre DEF NumberInv
  <2>3. QED
    BY <2>1, <2>2 DEF TestRows
<1>6. ASSUME NEW w \in Writers
      PROVE  w \in Procs /\ w # d /\ w # Null /\ mine'[w] = mine[w] /\ pc'[w] = pc[w] /\ found'[w] = found[w]
  BY <1>1, <1>4, WriterIs
<1>7. Locked'
  <2>1. \A p \in Procs, r \in Runs : mine'[p][r] # Null => excl'[r] = p
    BY <1>4 DEF NumberInv, Locked
  <2>2. ASSUME NEW w \in Writers, pc'[w] = "lockTest"
        PROVE  excl'[RunOf(w)] = w /\ found'[w] # Null /\ Moves(w)'
    <3>1. excl[RunOf(w)] = w /\ found[w] # Null /\ Moves(w) /\ RunOf(w) \in Runs
      BY <1>6, <2>2, WriterIs DEF NumberInv, Locked
    <3>2. run'[RunOf(w)] = run[RunOf(w)] /\ excl'[RunOf(w)] = w
      BY <1>3, <1>4, <1>6, <3>1
    <3>3. QED
      BY <1>6, <3>1, <3>2 DEF Moves
  <2>3. QED
    BY <1>6, <2>1, <2>2 DEF NumberInv, Locked
<1>8. Allocated'
  <2>1. ASSUME NEW w \in Writers, NEW r \in Runs, mine'[w][r] # Null
        PROVE  run'[r] = run[r] /\ mine[w][r] # Null
    BY <1>3, <1>6, <2>1 DEF NumberInv, Locked
  <2>2. ASSUME NEW w \in Writers, NEW t \in DOMAIN tests, tlock[t] = w PROVE tlock'[t] = w
    BY <1>4, <1>6, <2>2, TestsAre DEF NumberInv
  <2>3. QED
    BY <1>5, <1>6, <2>1, <2>2 DEF NumberInv, Allocated
<1>9. Ungrouped'
  BY <1>1, <1>4 DEF NumberInv, Ungrouped, Procs
<1>10. Issued' /\ NumberNamesOneRun' /\ NumberedIffGrouped'
  BY <1>3, <1>4, <1>5 DEF NumberInv, Issued, NumberNamesOneRun, NumberedIffGrouped
<1>11. QED
  BY <1>7, <1>8, <1>9, <1>10 DEF NumberInv

\* The invariant holds at first.
LEMMA NumberInit == Init => NumberInv
<1> SUFFICES ASSUME Init PROVE NumberInv
  OBVIOUS
<1>1. tests \in Seq(TestRows) /\ Len(tests) = 0 /\ run = [r \in Runs |-> [test |-> Null, num |-> Null]]
  BY EmptySeq DEF Init
<1>2. Types
  BY <1>1, PlainRow, IdentityAssumption DEF Init, Types, Steps, NoWrite
<1>3. Locked /\ Allocated /\ Ungrouped
  BY WriterIs DEF Init, Locked, Allocated, Ungrouped, NoWrite, Procs
<1>4. Issued /\ NumberNamesOneRun /\ NumberedIffGrouped
  BY <1>1 DEF Init, Issued, NumberNamesOneRun, NumberedIffGrouped
<1>5. QED
  BY <1>2, <1>3, <1>4 DEF NumberInv

\* Every step keeps it.
LEMMA NumberNext == NumberInv /\ [Next]_vars => NumberInv'
<1> SUFFICES ASSUME NumberInv, [Next]_vars PROVE NumberInv'
  OBVIOUS
<1>1. Types'
  BY TypesKept DEF NumberInv
<1>2. ASSUME NEW w \in Writers, Refused(w) \/ Abort(w) PROVE NumberInv'
  <2>1. /\ Release(w) /\ (End(w, "done") \/ End(w, "idle"))
        /\ UNCHANGED <<tests, run, issued, legacy>>
    BY <1>2 DEF Refused, Abort, rowV, histV
  <2>2. QED
    BY <1>1, <2>1, WriterIs, ReleaseKeeps
<1>3. ASSUME NEW d \in Removers, AbortRemove(d) PROVE NumberInv'
  BY <1>1, <1>3, ReleaseKeeps DEF AbortRemove, rowV, histV, Procs
<1>4. CASE UNCHANGED vars
  BY <1>1, <1>4, QuietKeeps DEF vars, rowV, procV, lockV, histV, NumberInv, Locked
<1>5. QED
  BY <1>1, <1>2, <1>3, <1>4, ResolveKeeps, LockKeeps, AllocateKeeps, CommitKeeps, LegacyKeeps, DeleteKeeps,
     CommitRemoveKeeps DEF Next

LEMMA NumberInvariant == Spec => []NumberInv
BY NumberInit, NumberNext, PTL DEF Spec

\* A number of a test names one run, ever: whatever runs join the test at once, leave it, are
\* redelivered or attached by an older worker, and whichever tests are deleted meanwhile.
THEOREM NumbersAreUnique == Spec => []NumberNamesOneRun
BY NumberInvariant, PTL DEF NumberInv

\* A run has a number exactly while it is in a test, except one that an older worker attached.
THEOREM NumbersFollowTests == Spec => []NumberedIffGrouped
BY NumberInvariant, PTL DEF NumberInv

\* While a run stays in its test its number does not change.
THEOREM NumbersStay == Spec => NumberIsKept
<1> DEFINE Keeps == \A r \in Runs : run[r].num # Null /\ run'[r].num # run[r].num
                                      => run'[r].test # run[r].test
<1>1. NumberInv /\ [Next]_vars => [Keeps]_vars
  <2> SUFFICES ASSUME NumberInv, Next PROVE Keeps
    BY DEF Keeps
  <2>1. ASSUME NEW w \in Writers, Commit(w) PROVE Keeps
    <3>1. mine[w][RunOf(w)] # Null => \/ mine[w][RunOf(w)].test # run[RunOf(w)].test
                                      \/ run[RunOf(w)].num = Null
      BY WriterIs DEF NumberInv, Allocated
    <3>2. /\ \A r \in Runs : r # RunOf(w) => run'[r] = run[r]
          /\ run'[RunOf(w)] = IF mine[w][RunOf(w)] = Null THEN run[RunOf(w)] ELSE mine[w][RunOf(w)]
      BY <2>1, CommitIs
    <3>3. QED
      BY <3>1, <3>2
  <2>2. ASSUME NEW r \in LiveRuns, LegacyAttach(r) PROVE Keeps
    BY <2>2 DEF LegacyAttach, NumberInv, NumberedIffGrouped, Types
  <2>3. ASSUME NEW d \in Removers, CommitRemove(d) PROVE Keeps
    <3>1. ASSUME NEW r \in Runs, mine[d][r] # Null PROVE run'[r].test = Null
      BY <2>3, <3>1 DEF CommitRemove, Committed, NumberInv, Ungrouped
    <3>2. \A r \in Runs : mine[d][r] = Null => run'[r] = run[r]
      BY <2>3 DEF CommitRemove, Committed
    <3>3. QED
      BY <3>1, <3>2 DEF NumberInv, NumberedIffGrouped
  <2>4. CASE UNCHANGED run
    BY <2>4
  <2> HIDE DEF Keeps
  <2>5. QED
    BY <2>1, <2>2, <2>3, <2>4 DEF Next, Look, Pick, Insert, Reread, ResolveFails, Begin, AttachLock,
       NumberLock, Allocate, Refused, Abort, Redeliver, Remove, DeleteTest, CascadeDone, AbortRemove,
       Ungroup, Cascade, Clear, rowV
<1>2. QED
  BY <1>1, NumberInvariant, PTL DEF Spec, NumberIsKept

-----------------------------------------------------------------------------
(* Waiting. *)

\* A step of p leaves the others where they are, takes only what is free, and leaves p
\* where the holder of its locks may be.
LEMMA OthersHold ==
    ASSUME NumberInv, Holders, NEW p \in Procs,
           \A q \in Procs : q # p => pc'[q] = pc[q] /\ found'[q] = found[q] /\ mine'[q] = mine[q],
           \A t \in 1..MaxTests : tlock'[t] \in {tlock[t], Null, p},
           \A r \in Runs : /\ excl'[r] \in {excl[r], Null, p}
                           /\ share'[r] \ {p} \subseteq share[r]
                           /\ excl'[r] = p => share'[r] \subseteq {p},
           \A w \in Writers : w # p /\ pc[w] = "lockTest" /\ w[1] = "fold" =>
                                run'[RunOf(w)].test = run[RunOf(w)].test,
           p \in Writers => WriterHolds(p)',
           p \in Removers => RemoverHolds(p)'
    PROVE  Holders'
<1>1. ASSUME NEW w \in Writers, w # p PROVE WriterHolds(w)'
  <2>1. w \in Procs /\ w # Null /\ RunOf(w) \in Runs /\ WriterHolds(w)
    BY WriterIs DEF Holders
  <2>2. QED
    BY <1>1, <2>1 DEF WriterHolds
<1>2. ASSUME NEW d \in Removers, d # p PROVE RemoverHolds(d)'
  <2>1. d \in Procs /\ d # Null /\ RemoverHolds(d)
    BY ProcIs DEF Holders, Procs
  <2>2. QED
    BY <1>2, <2>1 DEF RemoverHolds
<1>3. QED
  BY <1>1, <1>2 DEF Holders

\* Who releases its locks holds none.
LEMMA ReleaseHolds ==
    ASSUME NumberInv, Holders, NEW p \in Procs, Release(p), \E s \in {"idle", "done"} : End(p, s),
           \A w \in Writers : w # p /\ pc[w] = "lockTest" =>
                                run'[RunOf(w)].test = run[RunOf(w)].test
    PROVE  Holders'
<1>1. p # Null
  BY ProcIs
<1>2. /\ \A q \in Procs : q # p => pc'[q] = pc[q] /\ found'[q] = found[q] /\ mine'[q] = mine[q]
      /\ pc'[p] \in {"idle", "done"}
      /\ \A t \in 1..MaxTests : tlock'[t] \in {tlock[t], Null} /\ tlock'[t] # p
      /\ \A r \in Runs : excl'[r] \in {excl[r], Null} /\ excl'[r] # p /\ share'[r] = share[r] \ {p}
  BY <1>1 DEF Release, End, Goto, NumberInv, Types
<1>3. WriterHolds(p)' /\ RemoverHolds(p)'
  BY <1>2 DEF WriterHolds, RemoverHolds
<1>4. QED
  BY <1>2, <1>3, OthersHold

\* The steps of a writer.
LEMMA WriterHoldsOn ==
    ASSUME NumberInv, Holders, NEW w \in Writers,
           \/ Look(w) \/ Pick(w) \/ Insert(w) \/ Reread(w) \/ ResolveFails(w)
           \/ Begin(w) \/ AttachLock(w) \/ NumberLock(w) \/ Allocate(w) \/ Refused(w)
           \/ Commit(w) \/ Abort(w) \/ Redeliver(w)
    PROVE  Holders'
<1> USE DEF rowV, procV, lockV, histV
<1> DEFINE r0 == RunOf(w)
<1>1. /\ w \in Procs /\ r0 \in Runs /\ w # Null /\ w \notin Removers /\ w[1] \in {"fold", "finalize"}
      /\ w[1] = "finalize" => w = Finalizer(r0)
  BY WriterIs
<1>2. WriterHolds(w)
  BY DEF Holders
<1>3. w[1] = "fold" => \A r \in Runs : w \notin share[r]
  <2>1. \A r : Finalizer(r)[1] = "finalize"
    BY DEF Finalizer
  <2>2. ASSUME NEW r \in Runs, w \in share[r] PROVE w[1] = "finalize"
    BY <1>2, <2>1, <2>2 DEF WriterHolds
  <2>3. QED
    BY <2>2
<1>4. CASE Look(w) \/ Pick(w) \/ Insert(w) \/ Reread(w) \/ ResolveFails(w) \/ Redeliver(w)
  <2>1. UNCHANGED <<run, lockV>> /\ pc[w] \in {"idle", "pick", "insert", "reread", "done"}
    BY <1>4 DEF Look, Pick, Insert, Reread, ResolveFails, Redeliver
  <2>2. /\ \A q \in Procs : q # w => pc'[q] = pc[q] /\ found'[q] = found[q]
        /\ pc'[w] \notin {"lockTest", "ungroup", "cascade", "clear"}
    BY <1>1, <1>4 DEF Look, Pick, Insert, Reread, ResolveFails, Redeliver, Resolved, Joining, Goto,
                      NumberInv, Types
  <2>3. WriterHolds(w)'
    BY <1>2, <2>1, <2>2 DEF WriterHolds
  <2>4. \A r \in Runs : excl[r] # w
    BY <1>2, <2>1 DEF WriterHolds
  <2>5. QED
    BY <1>1, <2>1, <2>2, <2>3, <2>4, OthersHold
<1>5. CASE Begin(w)
  <2>1. /\ UNCHANGED <<run, mine, excl, tlock, found>> /\ pc[w] = "begin" /\ pc'[w] = "lockRun"
        /\ w[1] = "finalize"
        /\ \A q \in Procs : q # w => pc'[q] = pc[q]
        /\ \A r \in Runs : r # r0 => share'[r] = share[r]
        /\ share'[r0] = share[r0] \/ (share'[r0] = share[r0] \cup {w} /\ excl[r0] = Null)
    BY <1>1, <1>5 DEF Begin, Goto, NumberInv, Types
  <2>2. \A r \in Runs : excl[r] # w /\ w \notin share[r]
    BY <1>2, <2>1 DEF WriterHolds
  <2>3. WriterHolds(w)'
    BY <1>1, <1>2, <2>1, <2>2 DEF WriterHolds
  <2>4. QED
    BY <1>1, <2>1, <2>2, <2>3, OthersHold
<1>6. ASSUME UNCHANGED <<run, share, tlock>>, pc[w] = "lockRun", Lockable(w, r0),
             UNCHANGED excl \/ LockRun(w, r0),
             \A q \in Procs : q # w => pc'[q] = pc[q] /\ found'[q] = found[q] /\ mine'[q] = mine[q],
             \/ pc'[w] = "commit"
             \/ pc'[w] = "lockTest" /\ (w[1] = "fold" => run[r0].test = Null)
             \/ pc'[w] = "done" /\ UNCHANGED excl /\ w[1] = "fold"
      PROVE  Holders'
  <2>1. \A r \in Runs : /\ excl'[r] \in {excl[r], w} /\ (excl'[r] = w => r = r0)
                        /\ r # r0 => excl'[r] = excl[r]
    BY <1>1, <1>2, <1>6 DEF LockRun, WriterHolds, NumberInv, Types
  <2>2. share[r0] \subseteq {w}
    BY <1>6 DEF Lockable
  <2>3. \A t \in 1..MaxTests : tlock[t] # w
    BY <1>2, <1>6 DEF WriterHolds
  <2>4. \A r \in Runs : excl[r] # w
    BY <1>2, <1>6 DEF WriterHolds
  <2>5. WriterHolds(w)'
    BY <1>1, <1>2, <1>3, <1>6, <2>1, <2>3, <2>4 DEF WriterHolds
  <2>6. QED
    BY <1>1, <1>6, <2>1, <2>2, <2>5, OthersHold
<1>7. CASE AttachLock(w)
  BY <1>1, <1>6, <1>7 DEF AttachLock, End, Goto, NumberInv, Types
<1>8. CASE NumberLock(w)
  <2>1. /\ UNCHANGED <<run, share, tlock, found>> /\ pc[w] = "lockRun" /\ Lockable(w, r0)
        /\ w[1] = "finalize" /\ (UNCHANGED excl \/ LockRun(w, r0))
        /\ (UNCHANGED mine \/ Write(w, r0, [test |-> Null, num |-> Null]))
        /\ (Goto(w, "commit") \/ Goto(w, "lockTest"))
    BY <1>8 DEF NumberLock
  <2>2. \A q \in Procs : q # w => pc'[q] = pc[q] /\ mine'[q] = mine[q]
    BY <1>1, <2>1 DEF Goto, Write, NumberInv, Types
  <2>3. pc'[w] \in {"commit", "lockTest"}
    BY <1>1, <2>1 DEF Goto, NumberInv, Types
  <2>4. QED
    BY <1>6, <2>1, <2>2, <2>3
<1>9. CASE Allocate(w)
  <2>1. /\ UNCHANGED <<run, share, excl, found>> /\ pc[w] = "lockTest" /\ pc'[w] = "commit"
        /\ \A q \in Procs : q # w => pc'[q] = pc[q] /\ mine'[q] = mine[q]
        /\ \A t \in 1..MaxTests : tlock'[t] \in {tlock[t], w}
    BY <1>1, <1>9 DEF Allocate, Goto, Write, NumberInv, Types
  <2>2. WriterHolds(w)'
    BY <1>2, <2>1 DEF WriterHolds
  <2>3. \A r \in Runs : excl[r] = w => share[r] \subseteq {w}
    <3>1. ASSUME NEW r \in Runs, NEW q \in share[r], excl[r] = w PROVE q = w
      BY <1>1, <3>1, ProcIs DEF Holders, WriterHolds, RemoverHolds, NumberInv, Types
    <3>2. QED
      BY <3>1
  <2>4. QED
    BY <1>1, <2>1, <2>2, <2>3, OthersHold
<1>10. CASE Refused(w) \/ Abort(w)
  BY <1>1, <1>10, ReleaseHolds DEF Refused, Abort
<1>11. CASE Commit(w)
  <2>1. ASSUME NEW v \in Writers, v # w, pc[v] = "lockTest" PROVE run'[RunOf(v)].test = run[RunOf(v)].test
    <3>1. excl[RunOf(v)] = v /\ RunOf(v) \in Runs
      BY <2>1, WriterIs DEF NumberInv, Locked
    <3>2. mine[w][RunOf(v)] = Null
      BY <1>1, <2>1, <3>1 DEF NumberInv, Locked
    <3>3. QED
      BY <1>11, <3>1, <3>2 DEF Commit, Committed
  <2>2. QED
    BY <1>1, <1>11, <2>1, ReleaseHolds DEF Commit
<1>12. QED
  BY <1>4, <1>5, <1>7, <1>8, <1>9, <1>10, <1>11

\* The steps of a delete, and of an older worker.
LEMMA RemoverHoldsOn ==
    ASSUME NumberInv, Holders, NEW d \in Removers,
           \/ Remove(d) \/ DeleteTest(d) \/ CascadeDone(d) \/ CommitRemove(d) \/ AbortRemove(d)
           \/ \E r \in Runs : Ungroup(d, r) \/ Cascade(d, r) \/ Clear(d, r)
    PROVE  Holders'
<1> USE DEF rowV, procV, lockV, histV
<1>1. d \in Procs /\ d \notin Writers /\ d # Null
  BY WriterIs, ProcIs DEF Procs
<1>2. RemoverHolds(d)
  BY DEF Holders
<1>3. \A r \in Runs : excl[r] = d => share[r] \subseteq {d}
  <2>1. ASSUME NEW r \in Runs, NEW q \in share[r], excl[r] = d PROVE q = d
    BY <1>1, <2>1, ProcIs DEF Holders, WriterHolds, RemoverHolds, NumberInv, Types
  <2>2. QED
    BY <2>1
<1>4. CASE Remove(d) \/ CascadeDone(d)
  <2>1. /\ UNCHANGED <<run, lockV>> /\ pc'[d] \in {"ungroup", "clear"}
        /\ pc[d] = "idle" \/ (pc[d] = "cascade" /\ pc'[d] = "clear" /\ UNCHANGED found)
        /\ \A q \in Procs : q # d => pc'[q] = pc[q] /\ found'[q] = found[q]
    BY <1>1, <1>4 DEF Remove, CascadeDone, Goto, NumberInv, Types
  <2>2. RemoverHolds(d)'
    BY <1>2, <2>1 DEF RemoverHolds
  <2>3. QED
    BY <1>1, <1>3, <2>1, <2>2, OthersHold
<1>5. CASE DeleteTest(d)
  <2>1. /\ UNCHANGED <<run, mine, share, excl>> /\ pc[d] = "ungroup" /\ pc'[d] \in {"cascade", "clear"}
        /\ \A q \in Procs : q # d => pc'[q] = pc[q] /\ found'[q] = found[q]
        /\ \A t \in 1..MaxTests : tlock'[t] = tlock[t] \/ (tlock'[t] = d /\ found'[d] = t)
    <3>1. /\ UNCHANGED <<run, mine, share, excl>> /\ pc[d] = "ungroup"
          /\ \/ Goto(d, "clear") /\ UNCHANGED <<tlock, found>>
             \/ /\ Goto(d, "cascade")
                /\ \E u : tlock' = [tlock EXCEPT ![u] = d] /\ found' = [found EXCEPT ![d] = u]
      BY <1>5 DEF DeleteTest
    <3>2. /\ d \in Procs /\ pc \in [Procs -> Steps] /\ tlock \in [1..MaxTests -> Procs \cup {Null}]
          /\ DOMAIN found = Procs
      BY <1>1 DEF NumberInv, Types
    <3>3. CASE Goto(d, "clear") /\ UNCHANGED <<tlock, found>>
      BY <3>1, <3>2, <3>3 DEF Goto
    <3>4. ASSUME NEW u, Goto(d, "cascade"), tlock' = [tlock EXCEPT ![u] = d],
                 found' = [found EXCEPT ![d] = u]
          PROVE  /\ pc'[d] = "cascade"
                 /\ \A q \in Procs : q # d => pc'[q] = pc[q] /\ found'[q] = found[q]
                 /\ \A t \in 1..MaxTests : tlock'[t] = tlock[t] \/ (tlock'[t] = d /\ found'[d] = t)
      BY <3>2, <3>4 DEF Goto
    <3>5. QED
      BY <3>1, <3>3, <3>4
  <2>2. \A t \in 1..MaxTests : tlock[t] # d
    BY <1>2, <2>1 DEF RemoverHolds
  <2>3. RemoverHolds(d)'
    BY <1>2, <2>1, <2>2 DEF RemoverHolds
  <2>4. QED
    BY <1>1, <1>3, <2>1, <2>3, OthersHold
<1>6. ASSUME NEW r \in Runs, Ungroup(d, r) \/ Cascade(d, r) \/ Clear(d, r) PROVE Holders'
  <2>1. /\ UNCHANGED <<run, pc, found, share, tlock>> /\ pc[d] \in {"ungroup", "cascade", "clear"}
        /\ Lockable(d, r)
        /\ \/ UNCHANGED <<mine, excl>>
           \/ LockRun(d, r) /\ \E n \in Nat \cup {Null} : Write(d, r, [test |-> Null, num |-> n])
    BY <1>6 DEF Ungroup, Cascade, Clear, NumberInv, Types, Rows
  <2>2. \A n \in Nat \cup {Null} : [test |-> Null, num |-> n] # Null
    BY IdentityAssumption DEF Rows
  <2>3. /\ \A q \in Procs : q # d => mine'[q] = mine[q]
        /\ \A x \in Runs : mine[d][x] # Null => mine'[d][x] # Null
        /\ \A x \in Runs : excl'[x] = excl[x] \/ (x = r /\ excl'[x] = d /\ mine'[d][x] # Null)
    BY <1>1, <2>1, <2>2 DEF LockRun, Write, NumberInv, Types
  <2>4. RemoverHolds(d)'
    BY <1>2, <2>1, <2>3 DEF RemoverHolds
  <2>5. \A x \in Runs : excl'[x] = d => share'[x] \subseteq {d}
    BY <1>3, <2>1, <2>3 DEF Lockable
  <2>6. QED
    BY <1>1, <2>1, <2>3, <2>4, <2>5, OthersHold
<1>7. CASE CommitRemove(d)
  <2>1. ASSUME NEW v \in Writers, v # d, pc[v] = "lockTest" PROVE run'[RunOf(v)].test = run[RunOf(v)].test
    <3>1. excl[RunOf(v)] = v /\ RunOf(v) \in Runs
      BY <2>1, WriterIs DEF NumberInv, Locked
    <3>2. mine[d][RunOf(v)] = Null
      BY <1>1, <2>1, <3>1 DEF NumberInv, Locked
    <3>3. QED
      BY <1>7, <3>1, <3>2 DEF CommitRemove, Committed
  <2>2. QED
    BY <1>1, <1>7, <2>1, ReleaseHolds DEF CommitRemove
<1>8. CASE AbortRemove(d)
  BY <1>1, <1>8, ReleaseHolds DEF AbortRemove
<1>9. QED
  BY <1>4, <1>5, <1>6, <1>7, <1>8

LEMMA HoldersKept == ASSUME NumberInv, Holders, [Next]_vars PROVE Holders'
<1>1. ASSUME NEW r \in LiveRuns, LegacyAttach(r) PROVE Holders'
  <2>1. /\ excl[r] = Null /\ UNCHANGED <<pc, found, mine, share, excl, tlock>>
        /\ \A x \in Runs : x # r => run'[x] = run[x]
    BY <1>1 DEF LegacyAttach, procV, lockV, NumberInv, Types
  <2>2. ASSUME NEW w \in Writers, pc[w] = "lockTest" PROVE RunOf(w) \in Runs /\ RunOf(w) # r
    BY <2>1, <2>2, WriterIs DEF NumberInv, Locked
  <2>3. QED
    BY <2>1, <2>2 DEF Holders, WriterHolds, RemoverHolds
<1>2. CASE UNCHANGED vars
  BY <1>2 DEF vars, rowV, procV, lockV, Holders, WriterHolds, RemoverHolds
<1>3. QED
  BY <1>1, <1>2, WriterHoldsOn, RemoverHoldsOn DEF Next

\* One delete at a time.
OneDelete == \A d, e \in Removers : d = e

\* A step that leaves the tests' names, the runs and the delete's own state alone, or lets
\* the delete get on with its runs.
LEMMA DeletingFrame ==
    ASSUME Deleting, UNCHANGED <<run, late>>, Live' = Live,
           \A t \in Live : tests'[t].slug = tests[t].slug,
           \A d \in Removers :
             /\ pc'[d] \in {"ungroup", "cascade"} =>
                  pc[d] \in {"ungroup", "cascade"} /\ found'[d] = found[d] /\ slot'[d] = slot[d]
             /\ \A r \in Runs : mine[d][r] # Null => mine'[d][r] # Null
             /\ \A r \in Runs : run[r].test = found[d] /\ pc[d] = "ungroup" /\ r \in todo[d] =>
                  mine'[d][r] # Null \/ (pc'[d] = "ungroup" /\ r \in todo'[d])
    PROVE  Deleting'
BY DEF Deleting, In

\* The writers' steps: a new test has a slug of its own, a run that joins has a number.
LEMMA WriterDeletes ==
    ASSUME NumberInv, Deleting, NEW w \in Writers,
           \/ Look(w) \/ Pick(w) \/ Insert(w) \/ Reread(w) \/ ResolveFails(w)
           \/ Begin(w) \/ AttachLock(w) \/ NumberLock(w) \/ Allocate(w) \/ Refused(w)
           \/ Commit(w) \/ Abort(w) \/ Redeliver(w)
    PROVE  Deleting'
<1> USE DEF rowV, procV, lockV, histV
<1>1. w \in Procs /\ RunOf(w) \in Runs /\ w \notin Removers
  BY WriterIs
<1>2. UNCHANGED late
  BY DEF Look, Pick, Insert, Reread, ResolveFails, Begin, AttachLock, NumberLock, Allocate, Refused,
         Commit, Abort, Redeliver
<1>3. ASSUME NEW d \in Removers
      PROVE  pc'[d] = pc[d] /\ found'[d] = found[d] /\ slot'[d] = slot[d] /\ todo'[d] = todo[d]
             /\ mine'[d] = mine[d]
  <2>1. d \in Procs /\ d # w
    BY <1>1 DEF Procs
  <2>2. /\ \E x : pc' = [pc EXCEPT ![w] = x]
        /\ UNCHANGED found \/ \E x : found' = [found EXCEPT ![w] = x]
        /\ UNCHANGED slot \/ \E x : slot' = [slot EXCEPT ![w] = x]
        /\ UNCHANGED todo \/ todo' = [e \in Removers |-> IF e = w THEN {} ELSE todo[e]]
        /\ UNCHANGED mine \/ (\E x : mine' = [mine EXCEPT ![w] = x])
                          \/ (\E r, x : mine' = [mine EXCEPT ![w][r] = x])
    <3>1. CASE Look(w) \/ Pick(w) \/ Insert(w) \/ Reread(w) \/ ResolveFails(w)
      BY <3>1 DEF Look, Pick, Insert, Reread, ResolveFails, Resolved, Goto
    <3>2. CASE Begin(w) \/ AttachLock(w) \/ NumberLock(w) \/ Allocate(w)
      BY <3>2 DEF Begin, AttachLock, NumberLock, Allocate, End, Goto, Write
    <3>3. CASE Refused(w) \/ Commit(w) \/ Abort(w) \/ Redeliver(w)
      BY <3>3 DEF Refused, Commit, Abort, Redeliver, End, Goto, Release
    <3>4. QED
      BY <3>1, <3>2, <3>3
  <2>3. QED
    BY <2>1, <2>2 DEF NumberInv, Types
<1>4. CASE UNCHANGED <<tests, run>>
  <2>1. Live' = Live
    BY <1>4 DEF Live
  <2>2. QED
    BY <1>2, <1>3, <1>4, <2>1, DeletingFrame
<1>5. CASE Insert(w) /\ tests' # tests
  <2> DEFINE new == [slug |-> slot[w], class |-> ClassOf[RunOf(w)], next |-> 1, live |-> TRUE]
             n == Len(tests) + 1
  <2>1. BySlug(slot[w]) = Null /\ Len(tests) < MaxTests /\ tests' = Append(tests, new) /\ UNCHANGED run
    BY <1>5 DEF Insert
  <2>2. new \in TestRows
    BY <1>1 DEF TestRows, Classes, NumberInv, Types
  <2>3. new.slug = slot[w] /\ new.live
    OBVIOUS
  <2> HIDE DEF new
  <2>4. /\ DOMAIN tests' = 1..n /\ DOMAIN tests = 1..Len(tests) /\ Len(tests) \in Nat
        /\ \A t \in DOMAIN tests : tests'[t] = tests[t]
        /\ tests'[n] = new
    BY <2>1, <2>2, AppendTest, TestsAre DEF NumberInv
  <2>5. Live' = Live \cup {n} /\ Live \subseteq DOMAIN tests
    BY <2>3, <2>4 DEF Live
  <2>6. \A t \in Live : tests[t].slug # slot[w]
    BY <2>1, LookupIs DEF NumberInv
  <2>7. \A t, u \in Live' : tests'[t].slug = tests'[u].slug => t = u
    BY <2>3, <2>4, <2>5, <2>6 DEF Deleting
  <2>8. QED
    BY <1>2, <1>3, <2>1, <2>4, <2>5, <2>7 DEF Deleting, In
<1>6. CASE Commit(w)
  <2>1. /\ Live' = Live
        /\ \A t \in Live : tests'[t].slug = tests[t].slug
    <3>1. \A t \in DOMAIN tests : tests[t] \in TestRows
      BY TestsAre DEF NumberInv
    <3>2. /\ DOMAIN tests' = DOMAIN tests
          /\ \A t \in DOMAIN tests : tests'[t] \in {tests[t], [tests[t] EXCEPT !.next = @ + 1]}
      BY <1>6 DEF Commit
    <3>3. \A t \in DOMAIN tests : tests'[t].live = tests[t].live /\ tests'[t].slug = tests[t].slug
      BY <3>1, <3>2 DEF TestRows
    <3>4. QED
      BY <3>2, <3>3 DEF Live
  <2>2. \A r \in Runs : run'[r] = run[r] \/ run'[r].test = Null \/ run'[r].num # Null
    <3>1. /\ \A r \in Runs : r # RunOf(w) => run'[r] = run[r]
          /\ run'[RunOf(w)] = IF mine[w][RunOf(w)] = Null THEN run[RunOf(w)] ELSE mine[w][RunOf(w)]
          /\ mine[w][RunOf(w)] # Null /\ mine[w][RunOf(w)].test # Null => mine[w][RunOf(w)].num \in Nat
      BY <1>6, CommitIs
    <3>2. QED
      BY <3>1, IdentityAssumption
  <2>3. \A t \in Live : t # Null
    BY TestsAre, IdentityAssumption DEF NumberInv
  <2>4. ASSUME NEW d \in Removers, pc[d] \in {"ungroup", "cascade"}, ~late,
               NEW r \in Runs, run'[r].test = found[d]
        PROVE  run'[r].num # Null \/ mine[d][r] # Null \/ (pc[d] = "ungroup" /\ r \in todo[d])
    <3>1. found[d] \in Live
      BY <2>4 DEF Deleting
    <3>2. CASE run'[r] = run[r]
      BY <2>4, <3>2 DEF Deleting, In
    <3>3. CASE run'[r] # run[r]
      BY <2>2, <2>3, <2>4, <3>1, <3>3
    <3>4. QED
      BY <3>2, <3>3
  <2>5. QED
    BY <1>2, <1>3, <2>1, <2>4 DEF Deleting, In
<1>7. QED
  BY <1>4, <1>5, <1>6 DEF Look, Pick, Insert, Reread, ResolveFails, Begin, AttachLock, NumberLock,
     Allocate, Refused, Abort, Redeliver

\* An older worker attaches a run to the test being deleted: from then on it is late.
LEMMA LegacyDeletes ==
    ASSUME NumberInv, Deleting, NEW r0 \in LiveRuns, LegacyAttach(r0) PROVE Deleting'
<1>1. r0 \in Runs
  BY IdentityAssumption
<1>2. PICK t0 : /\ run' = [run EXCEPT ![r0].test = t0]
                /\ late' = (late \/ \E d \in Removers : pc[d] \in {"ungroup", "cascade", "clear"}
                                                         /\ found[d] = t0)
  BY DEF LegacyAttach
<1>3. UNCHANGED <<tests, pc, found, slot, todo, mine>>
  BY DEF LegacyAttach, procV, lockV
<1>4. run'[r0].test = t0 /\ \A r \in Runs : r # r0 => run'[r] = run[r]
  BY <1>1, <1>2 DEF NumberInv, Types, Rows
<1>5. ASSUME NEW d \in Removers, pc[d] \in {"ungroup", "cascade"}, ~late',
             NEW r \in Runs, run'[r].test = found[d]
      PROVE  run'[r].num # Null \/ mine[d][r] # Null \/ (pc[d] = "ungroup" /\ r \in todo[d])
  <2>1. ~late /\ found[d] # t0
    BY <1>2, <1>5
  <2>2. run'[r] = run[r]
    BY <1>4, <1>5, <2>1
  <2>3. QED
    BY <1>5, <2>1, <2>2 DEF Deleting, In
<1>6. QED
  BY <1>3, <1>5 DEF Deleting, In, Live

\* The delete's own steps.
LEMMA RemoverDeletes ==
    ASSUME NumberInv, Deleting, OneDelete, NEW d \in Removers,
           \/ Remove(d) \/ DeleteTest(d) \/ CascadeDone(d) \/ CommitRemove(d) \/ AbortRemove(d)
           \/ \E r \in Runs : Ungroup(d, r) \/ Cascade(d, r) \/ Clear(d, r)
    PROVE  Deleting'
<1> USE DEF rowV, procV, lockV, histV
<1>1. d \in Procs /\ \A e \in Removers : e = d
  BY DEF Procs, OneDelete
<1>2. UNCHANGED late
  BY DEF Remove, DeleteTest, CascadeDone, CommitRemove, AbortRemove, Ungroup, Cascade, Clear
<1>3. CASE Remove(d)
  <2>1. PICK s \in 1..Slugs : /\ BySlug(s) # Null
                              /\ slot' = [slot EXCEPT ![d] = s]
                              /\ found' = [found EXCEPT ![d] = BySlug(s)]
                              /\ todo' = [todo EXCEPT ![d] = In(BySlug(s))]
    BY <1>3 DEF Remove
  <2>2. UNCHANGED <<tests, run>> /\ pc'[d] = "ungroup" /\ slot'[d] = s /\ found'[d] = BySlug(s)
        /\ todo'[d] = In(BySlug(s))
    BY <1>1, <1>3, <2>1 DEF Remove, Goto, NumberInv, Types
  <2>3. BySlug(s) \in Live /\ tests[BySlug(s)].slug = s
    BY <2>1, LookupIs DEF NumberInv
  <2>4. QED
    BY <1>1, <2>2, <2>3 DEF Deleting, In, Live
<1>4. CASE DeleteTest(d)
  <2>1. found[d] \in Live /\ tests[found[d]].slug = slot[d]
    BY <1>4 DEF DeleteTest, Deleting
  <2>2. BySlug(slot[d]) = found[d]
    BY <2>1, LookupIs DEF Deleting, NumberInv
  <2>3. found[d] # Null
    BY <2>1, TestsAre, IdentityAssumption DEF NumberInv
  <2>4. UNCHANGED <<tests, run, slot, todo, mine>> /\ found'[d] = found[d] /\ pc[d] = "ungroup" /\ todo[d] = {}
    BY <1>1, <1>4, <2>2, <2>3 DEF DeleteTest, NumberInv, Types
  <2>5. Live' = Live
    BY <2>4 DEF Live
  <2>6. QED
    BY <1>1, <1>2, <2>4, <2>5, DeletingFrame
<1>5. CASE CascadeDone(d)
  <2>1. UNCHANGED <<tests, run>> /\ pc'[d] = "clear"
    BY <1>1, <1>5 DEF CascadeDone, Goto, NumberInv, Types
  <2>2. QED
    BY <1>1, <2>1 DEF Deleting, Live
<1>6. ASSUME NEW r \in Runs, Ungroup(d, r) \/ Cascade(d, r) \/ Clear(d, r) PROVE Deleting'
  <2>1. /\ UNCHANGED <<tests, run, pc, found, slot>>
        /\ \/ UNCHANGED mine
           \/ \E n \in Nat \cup {Null} : Write(d, r, [test |-> Null, num |-> n])
        /\ UNCHANGED todo \/ (Ungroup(d, r) /\ todo' = [todo EXCEPT ![d] = @ \ {r}])
    BY <1>6 DEF Ungroup, Cascade, Clear, NumberInv, Types, Rows
  <2>2. \A n \in Nat \cup {Null} : [test |-> Null, num |-> n] # Null
    BY IdentityAssumption DEF Rows
  <2>3. \A x \in Runs : mine[d][x] # Null => mine'[d][x] # Null
    BY <1>1, <2>1, <2>2 DEF Write, NumberInv, Types
  <2>4. ASSUME NEW x \in Runs, run[x].test = found[d], pc[d] = "ungroup", x \in todo[d]
        PROVE  mine'[d][x] # Null \/ x \in todo'[d]
    <3>1. CASE x \in todo'[d]
      BY <3>1
    <3>2. CASE x \notin todo'[d]
      <4>1. Ungroup(d, r) /\ x = r
        BY <2>1, <2>4, <3>2 DEF NumberInv, Types
      <4>2. Write(d, r, [test |-> Null, num |-> Null])
        BY <2>4, <4>1 DEF Ungroup
      <4>3. QED
        BY <1>1, <2>2, <4>1, <4>2 DEF Write, NumberInv, Types
    <3>3. QED
      BY <3>1, <3>2
  <2>5. Live' = Live
    BY <2>1 DEF Live
  <2>6. QED
    BY <1>1, <1>2, <2>1, <2>3, <2>4, <2>5, DeletingFrame
<1>7. CASE CommitRemove(d) \/ AbortRemove(d)
  <2>1. pc'[d] = "done"
    BY <1>1, <1>7 DEF CommitRemove, AbortRemove, End, Goto, NumberInv, Types
  <2>2. Live' \subseteq Live /\ \A t \in Live : tests'[t].slug = tests[t].slug
    <3>1. CASE UNCHANGED tests
      BY <3>1 DEF Live
    <3>2. CASE CommitRemove(d)
      <4>1. \A t \in DOMAIN tests : tests[t] \in TestRows
        BY TestsAre DEF NumberInv
      <4>2. /\ DOMAIN tests' = DOMAIN tests
            /\ \A t \in DOMAIN tests : tests'[t] \in {tests[t], [tests[t] EXCEPT !.live = FALSE]}
        BY <3>2 DEF CommitRemove
      <4>3. \A t \in DOMAIN tests : (tests'[t].live => tests[t].live) /\ tests'[t].slug = tests[t].slug
        BY <4>1, <4>2 DEF TestRows
      <4>4. QED
        BY <4>2, <4>3 DEF Live
    <3>3. QED
      BY <1>7, <3>1, <3>2 DEF AbortRemove
  <2>3. QED
    BY <1>1, <2>1, <2>2 DEF Deleting
<1>8. QED
  BY <1>3, <1>4, <1>5, <1>6, <1>7

\* With one delete at a time every step keeps the waiting invariant.
LEMMA WaitInvariant == ASSUME OneDelete PROVE Spec => []WaitInv
<1>1. Init => WaitInv
  <2> SUFFICES ASSUME Init PROVE Holders /\ Deleting
    BY NumberInit DEF WaitInv
  <2>1. Holders
    BY WriterIs, ProcIs DEF Init, Holders, WriterHolds, RemoverHolds, Procs
  <2>2. Deleting
    BY DEF Init, Deleting, Live, Procs
  <2>3. QED
    BY <2>1, <2>2
<1>2. WaitInv /\ [Next]_vars => WaitInv'
  <2> SUFFICES ASSUME WaitInv, [Next]_vars PROVE WaitInv'
    OBVIOUS
  <2>1. NumberInv' /\ Holders'
    BY NumberNext, HoldersKept DEF WaitInv
  <2>2. Deleting'
    <3>1. CASE UNCHANGED vars
      BY <3>1 DEF vars, rowV, procV, lockV, histV, WaitInv, Deleting, Live, In
    <3>2. CASE Next
      BY <3>2, WriterDeletes, LegacyDeletes, RemoverDeletes DEF Next, WaitInv
    <3>3. QED
      BY <3>1, <3>2
  <2>3. QED
    BY <2>1, <2>2 DEF WaitInv
<1>3. QED
  BY <1>1, <1>2, PTL DEF Spec

\* Suppose everybody in S waits for somebody in S.  Nobody there is about to commit; so who
\* waits for a test waits for the delete's cascade, the delete waits for the holder of a run,
\* and that holder waits for nobody.
LEMMA NoCycle == ASSUME WaitInv, OneDelete PROVE NoWaitCycle
<1> SUFFICES ASSUME ~late, NEW S \in SUBSET Procs, S # {}, \A p \in S : WaitsFor(p) \cap S # {}
             PROVE  FALSE
  BY DEF NoWaitCycle
<1> USE DEF WaitInv
<1>1. ASSUME NEW p \in S
      PROVE  /\ p \in Procs /\ p # Null /\ (p \in Writers \/ p \in Removers)
             /\ \E q \in S : q \in WaitsFor(p)
  BY ProcIs
<1>2. /\ \A p \in S : pc[p] = "lockRun"  => WaitsFor(p) = Blockers(p, RunOf(p))
      /\ \A p \in S : pc[p] = "lockTest" => WaitsFor(p) = {tlock[found[p]]} \ {Null}
      /\ \A p \in S : pc[p] = "ungroup" /\ todo[p] # {} =>
                        WaitsFor(p) = UNION {Blockers(p, r) : r \in todo[p]}
      /\ \A p \in S : pc[p] = "ungroup" /\ todo[p] = {} =>
                        WaitsFor(p) \subseteq {tlock[BySlug(slot[p])]} /\
                        (BySlug(slot[p]) = Null => WaitsFor(p) = {})
      /\ \A p \in S : pc[p] = "cascade" => WaitsFor(p) = UNION {Blockers(p, r) : r \in Joined(p)}
      /\ \A p \in S : pc[p] = "clear" => WaitsFor(p) = UNION {Blockers(p, r) : r \in Stranded(p)}
      /\ \A p \in S : pc[p] \in {"lockRun", "lockTest", "ungroup", "cascade", "clear"}
  BY <1>1 DEF WaitsFor
<1>3. ASSUME NEW p, NEW r \in Runs, NEW q \in S, q \in Blockers(p, r), q \in Writers
      PROVE  /\ RunOf(q) = r /\ q # p /\ q \in share[r] \cup {excl[r]}
             /\ pc[q] = "lockRun" => q \in share[r]
  <2>1. q \in share[r] \cup {excl[r]} /\ q # p
    BY <1>3 DEF Blockers
  <2>2. WriterHolds(q)
    BY <1>3 DEF Holders
  <2>3. \A x : RunOf(Finalizer(x)) = x
    BY DEF RunOf, Finalizer
  <2>4. QED
    BY <1>3, <2>1, <2>2, <2>3 DEF WriterHolds
\* A finalize that shares its run row waits for nobody there.
<1>4. ASSUME NEW q \in S, q \in Writers, NEW r \in Runs, q \in share[r], pc[q] = "lockRun" PROVE FALSE
  <2>1. q = Finalizer(r) /\ excl[r] \in {Null, q}
    BY <1>4 DEF Holders, WriterHolds
  <2>2. RunOf(q) = r
    BY <2>1 DEF RunOf, Finalizer
  <2>3. \A p \in share[r] : p = q
    BY <2>1, ProcIs DEF Holders, WriterHolds, RemoverHolds, NumberInv, Types
  <2>4. Blockers(q, r) = {}
    BY <2>1, <2>3 DEF Blockers
  <2>5. QED
    BY <1>1, <1>2, <1>4, <2>2, <2>4
\* Statement (3) has its rows already.
<1>5. ASSUME NEW d \in S, pc[d] = "clear", d \in Removers PROVE FALSE
  <2>1. PICK r \in Stranded(d) : Blockers(d, r) # {}
    BY <1>1, <1>2, <1>5
  <2>2. r \in Runs /\ mine[d][r] # Null
    BY <2>1 DEF Stranded, Committed, NumberInv, NumberedIffGrouped
  <2>3. excl[r] = d
    BY <1>1, <2>2 DEF NumberInv, Locked
  <2>4. \A p \in share[r] : p = d
    BY <1>1, <2>2, <2>3, ProcIs DEF Holders, WriterHolds, RemoverHolds, NumberInv, Types
  <2>5. QED
    BY <2>1, <2>3, <2>4 DEF Blockers
\* Who waits for a test waits for the delete's cascade on it.
<1>6. ASSUME NEW w \in S, pc[w] = "lockTest", w \in Writers
      PROVE  \E d \in S : d \in Removers /\ pc[d] = "cascade" /\ found[d] = found[w] /\ found[w] # Null
  <2>1. found[w] \in 1..MaxTests
    BY <1>1, <1>6 DEF NumberInv, Locked, Types
  <2>2. tlock[found[w]] \in S
    BY <1>1, <1>2, <1>6
  <2>3. tlock[found[w]] \notin Writers
    BY <1>2, <2>1, <2>2 DEF Holders, WriterHolds
  <2>4. tlock[found[w]] \in Removers
    BY <1>1, <2>2, <2>3
  <2>5. pc[tlock[found[w]]] \in {"cascade", "clear"} /\ found[tlock[found[w]]] = found[w]
    BY <2>1, <2>4 DEF Holders, RemoverHolds
  <2>6. QED
    BY <1>5, <2>1, <2>2, <2>4, <2>5, IdentityAssumption
\* The cascade waits for the holder of a run of its test, which does not want that test.
<1>7. ASSUME NEW d \in S, pc[d] = "cascade", d \in Removers PROVE FALSE
  <2>1. PICK r \in Joined(d) : \E q \in S : q \in Blockers(d, r)
    BY <1>1, <1>2, <1>7
  <2>2. PICK q \in S : q \in Blockers(d, r)
    BY <2>1
  <2>3. r \in Runs /\ run[r].test = found[d] /\ mine[d][r] = Null
    BY <2>1 DEF Joined, In
  <2>4. q \in Writers
    BY <1>1, <1>7, <2>2 DEF OneDelete, Blockers
  <2>5. RunOf(q) = r /\ (pc[q] = "lockRun" => q \in share[r])
    BY <1>3, <2>2, <2>3, <2>4
  <2>6. pc[q] # "lockRun"
    BY <1>4, <2>3, <2>4, <2>5
  <2>7. pc[q] = "lockTest"
    <3>1. q \in share[r] \/ excl[r] = q
      BY <2>2 DEF Blockers
    <3>2. pc[q] \in {"lockTest", "commit"}
      BY <2>3, <2>4, <2>6, <3>1 DEF Holders, WriterHolds
    <3>3. QED
      BY <1>2, <3>2
  <2>8. found[q] = found[d] /\ found[d] # Null
    BY <1>6, <1>7, <2>4, <2>7 DEF OneDelete
  <2>9. run[r].num = Null
    BY <2>3, <2>4, <2>5, <2>7, <2>8 DEF NumberInv, Locked, Moves
  <2>10. QED
    BY <1>7, <2>3, <2>9 DEF Deleting, In
<1>8. ASSUME NEW w \in S, w \in Writers PROVE pc[w] # "lockTest"
  BY <1>6, <1>7, <1>8
\* So the holder of a run is not in S.
<1>9. ASSUME NEW p, NEW r \in Runs, NEW q \in S, q \in Blockers(p, r) PROVE q \in Removers
  <2>1. SUFFICES ASSUME q \in Writers PROVE FALSE
    BY <1>1
  <2>2. pc[q] # "lockRun" /\ pc[q] # "lockTest" /\ (q \in share[r] \/ excl[r] = q)
    BY <1>3, <1>4, <1>8, <1>9, <2>1
  <2>3. pc[q] = "commit"
    BY <2>1, <2>2 DEF Holders, WriterHolds
  <2>4. QED
    BY <1>2, <2>3
\* Nor is the delete.
<1>10. ASSUME NEW d \in S, d \in Removers PROVE FALSE
  <2>1. d \in Procs /\ pc[d] = "ungroup"
    <3>1. pc[d] \notin {"lockRun", "lockTest"}
      BY <1>10 DEF Holders, RemoverHolds
    <3>2. QED
      BY <1>1, <1>2, <1>5, <1>7, <1>10, <3>1
  <2>2. CASE todo[d] # {}
    <3>1. PICK r \in todo[d] : \E q \in S : q \in Blockers(d, r)
      <4>1. WaitsFor(d) = UNION {Blockers(d, r) : r \in todo[d]}
        BY <1>2, <2>1, <2>2
      <4>2. QED
        BY <1>1, <4>1
    <3>2. r \in Runs
      BY <1>10, <3>1 DEF NumberInv, Types
    <3>3. QED
      BY <1>9, <1>10, <3>1, <3>2 DEF OneDelete, Blockers
  <2>3. CASE todo[d] = {}
    <3>1. BySlug(slot[d]) # Null /\ tlock[BySlug(slot[d])] \in S
      <4>1. WaitsFor(d) \subseteq {tlock[BySlug(slot[d])]} /\ (BySlug(slot[d]) = Null => WaitsFor(d) = {})
        BY <1>2, <2>1, <2>3
      <4>2. QED
        BY <1>1, <4>1
    <3>2. BySlug(slot[d]) \in 1..MaxTests
      BY <3>1, LookupIs, TestsAre DEF NumberInv
    <3>3. tlock[BySlug(slot[d])] \in Removers
      <4>1. ASSUME tlock[BySlug(slot[d])] \in Writers PROVE pc[tlock[BySlug(slot[d])]] = "commit"
        BY <3>2, <4>1 DEF Holders, WriterHolds
      <4>2. QED
        BY <1>1, <1>2, <3>1, <4>1
    <3>4. tlock[BySlug(slot[d])] = d
      BY <1>10, <3>3 DEF OneDelete
    <3>5. QED
      BY <1>10, <2>1, <3>2, <3>4 DEF Holders, RemoverHolds
  <2>4. QED
    BY <2>2, <2>3
<1>11. QED
  <2>1. PICK w : w \in S
    OBVIOUS
  <2>2. w \in Writers /\ pc[w] = "lockRun"
    <3>1. w \in Writers
      BY <1>1, <1>10, <2>1
    <3>2. QED
      BY <1>2, <1>8, <2>1, <3>1 DEF Holders, WriterHolds
  <2>3. PICK q \in S : q \in Blockers(w, RunOf(w))
    BY <1>1, <1>2, <2>1, <2>2
  <2>4. QED
    BY <1>9, <1>10, <2>2, <2>3, WriterIs

\* While one test is deleted at a time, the delete, the attaches and the finalizes never wait
\* for each other in a circle, unless an older worker attached a run to that test meanwhile.
THEOREM NobodyDeadlocks == ASSUME OneDelete PROVE Spec => []NoWaitCycle
BY WaitInvariant, NoCycle, PTL
=============================================================================
