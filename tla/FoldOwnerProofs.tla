-------------------------- MODULE FoldOwnerProofs ---------------------------
(***************************************************************************)
(* The fold owners account for every advisory lock they hold, stay within  *)
(* their cap and leave closed runs alone: proofs for any number of owners  *)
(* and runs and any faults.                                                *)
(***************************************************************************)
EXTENDS FoldOwner, FiniteSetTheorems, TLAPS

\* The types of what the lock's bookkeeping reads.
LockType ==
    /\ lock \in [Runs -> Owners \cup {NoOne, "pipeline"}]
    /\ owned \in [Owners -> SUBSET Runs] /\ releasing \in [Owners -> SUBSET Runs]
    /\ cpc \in [Owners -> [Runs -> ClaimPCs]]
    /\ sess \in [Owners -> [Runs -> {"ok", "ended", "lost"}]]

\* o has a session that took the lock of r: it owns r, or its claim is past the
\* lock.
Held(o, r) == r \in owned[o] \/ cpc[o][r] \in {"insert", "unlock"}

\* What o holds of r, exactly: the lock is o's if and only if a session that is
\* up keeps it for an owned run, a claim, or a release under way.
Account(o, r) ==
    /\ r \in owned[o] => cpc[o][r] = "none" /\ r \notin releasing[o]
    /\ r \in releasing[o] => lock[r] = o /\ sess[o][r] = "ok" /\ cpc[o][r] \in {"none", "lock"}
    /\ Held(o, r) /\ sess[o][r] = "ok" => lock[r] = o
    /\ lock[r] = o => (Held(o, r) /\ sess[o][r] = "ok") \/ r \in releasing[o]
    /\ sess[o][r] # "ok" => Held(o, r)

AccountInv == LockType /\ \A o \in Owners, r \in Runs : Account(o, r)

\* A step that touches neither the locks nor the books.
LEMMA AccountFrame ==
    ASSUME AccountInv, UNCHANGED <<lock, owned, releasing, cpc, sess>> PROVE AccountInv'
BY DEF AccountInv, LockType, Account, Held

\* The runs' own steps: only the pipeline moves a lock, and only a free one or its own.
LEMMA RunAccount == ASSUME AccountInv, NEW r \in Runs, RunStep(r) PROVE AccountInv'
<1> USE FoldAssumption DEF claimV, ownV, AccountInv, LockType
<1>1. CASE Open(r) \/ Close(r) \/ Reopen(r)
  BY <1>1, AccountFrame DEF Open, Close, Reopen
<1>2. CASE ParseStart(r)
  BY <1>2 DEF ParseStart, Account, Held
<1>3. CASE ParseEnd(r)
  BY <1>3 DEF ParseEnd, Account, Held
<1> QED
  BY <1>1, <1>2, <1>3 DEF RunStep

\* A claim takes the lock only when it is free and ends with it owned, given back,
\* or lost with its session.
LEMMA ClaimAccount ==
    ASSUME AccountInv, NEW o \in Owners, NEW r \in Runs, Claim(o, r) PROVE AccountInv'
<1> USE FoldAssumption
    DEF runV, claimV, ownV, AccountInv, LockType, ClaimPCs, CGoto, ClaimEnd, Account, Held
<1>1. CASE ClaimLock(o, r)
  <2>1. CASE lock[r] = NoOne
    <3>1. /\ lock' = [lock EXCEPT ![r] = o] /\ sess' = [sess EXCEPT ![o][r] = "ok"]
          /\ cpc' = [cpc EXCEPT ![o][r] = "insert"] /\ UNCHANGED <<owned, releasing>>
          /\ cpc[o][r] = "lock"
      BY <1>1, <2>1 DEF ClaimLock
    <3>2. LockType'
      BY <3>1
    <3>3. ASSUME NEW p \in Owners, NEW q \in Runs PROVE Account(p, q)'
      <4>1. CASE q = r
        BY <2>1, <3>1, <4>1
      <4>2. CASE q # r
        BY <3>1, <4>2
      <4> QED
        BY <4>1, <4>2
    <3> QED
      BY <3>2, <3>3
  <2>2. CASE lock[r] # NoOne
    <3>1. /\ cpc' = [cpc EXCEPT ![o][r] = "none"] /\ UNCHANGED <<lock, sess, owned, releasing>>
          /\ cpc[o][r] = "lock"
      BY <1>1, <2>2 DEF ClaimLock
    <3> QED
      BY <3>1
  <2> QED
    BY <2>1, <2>2
<1>2. CASE ClaimError(o, r)
  BY <1>2 DEF ClaimError
<1>3. CASE ClaimInsert(o, r)
  <2>0. cpc[o][r] = "insert" /\ UNCHANGED <<lock, releasing>>
    BY <1>3 DEF ClaimInsert
  <2>1. CASE sess[o][r] = "lost"
    <3>1. /\ cpc' = [cpc EXCEPT ![o][r] = "none"] /\ sess' = [sess EXCEPT ![o][r] = "ok"]
          /\ UNCHANGED owned
      BY <1>3, <2>1 DEF ClaimInsert
    <3> QED
      BY <2>0, <2>1, <3>1
  <2>2. CASE sess[o][r] # "lost" /\ closing[o]
    <3>1. cpc' = [cpc EXCEPT ![o][r] = "unlock"] /\ UNCHANGED <<owned, sess>>
      BY <1>3, <2>2 DEF ClaimInsert
    <3> QED
      BY <2>0, <3>1
  <2>3. CASE sess[o][r] # "lost" /\ ~closing[o]
    <3>1. /\ cpc' = [cpc EXCEPT ![o][r] = "none"] /\ owned' = [owned EXCEPT ![o] = @ \cup {r}]
          /\ UNCHANGED sess
      BY <1>3, <2>3 DEF ClaimInsert
    <3> QED
      BY <2>0, <3>1
  <2> QED
    BY <2>1, <2>2, <2>3
<1>4. CASE ClaimUnlock(o, r)
  BY <1>4 DEF ClaimUnlock, Unlocked
<1> QED
  BY <1>1, <1>2, <1>3, <1>4 DEF Claim

\* Runs that leave #owned are unlocked next, unless their session is gone.
LEMMA DropAccount ==
    ASSUME AccountInv, NEW o \in Owners, NEW R \in SUBSET owned[o], Drop(o, R),
           UNCHANGED <<lock, cpc>>
    PROVE  AccountInv'
<1>1. LockType'
  BY DEF AccountInv, LockType, Drop
<1>2. ASSUME NEW p \in Owners, NEW r \in Runs PROVE Account(p, r)'
  BY DEF AccountInv, LockType, Drop, Account, Held
<1> QED
  BY <1>1, <1>2 DEF AccountInv

\* The tick moves no lock itself.
LEMMA TickAccount == ASSUME AccountInv, NEW o \in Owners, Tick(o) PROVE AccountInv'
<1> USE DEF runV, claimV, ownV
<1>1. CASE TickStart(o) \/ TickSelect(o) \/ TickSent(o) \/ TickPass(o)
  BY <1>1, AccountFrame DEF TickStart, TickSelect, TickSent, TickPass
<1>2. ASSUME NEW r \in Runs, TickRelease(o, r) PROVE AccountInv'
  BY <1>2, AccountFrame, DropAccount DEF TickRelease, AccountInv, LockType
<1>3. ASSUME NEW r \in Runs, TickClaim(o, r) PROVE AccountInv'
  <2>1. CASE UNCHANGED cpc
    BY <1>3, <2>1, AccountFrame DEF TickClaim
  <2>2. CASE CanClaim(o, r) /\ CGoto(o, r, "lock")
    BY <1>3, <2>2 DEF TickClaim, CanClaim, CGoto, AccountInv, LockType, ClaimPCs, Account, Held
  <2> QED
    BY <1>3, <2>1, <2>2 DEF TickClaim
<1>4. ASSUME NEW r \in Runs, TickPublish(o, r) PROVE AccountInv'
  BY <1>4, AccountFrame DEF TickPublish
<1> QED
  BY <1>1, <1>2, <1>3, <1>4 DEF Tick

\* Pings, unlocks, shutdown, crashes and sessions that end.
LEMMA EventAccount ==
    ASSUME AccountInv, NEW o \in Owners,
           \/ Shutdown(o) \/ Crash(o)
           \/ \E r \in Runs : \/ Unlock(o, r) \/ OnOpened(o, r) \/ OnClosed(o, r)
                              \/ SessionEnd(o, r) \/ SessionNotice(o, r)
    PROVE  AccountInv'
<1> USE FoldAssumption DEF runV, claimV, ownV
<1>1. CASE Shutdown(o)
  BY <1>1, DropAccount DEF Shutdown, AccountInv, LockType
<1>2. CASE Crash(o)
  <2>1. LockType'
    BY <1>2 DEF Crash, AccountInv, LockType, ClaimPCs
  <2>2. ASSUME NEW p \in Owners, NEW r \in Runs PROVE Account(p, r)'
    BY <1>2 DEF Crash, AccountInv, LockType, Account, Held
  <2> QED
    BY <2>1, <2>2 DEF AccountInv
<1>3. ASSUME NEW r \in Runs, Unlock(o, r) PROVE AccountInv'
  BY <1>3 DEF Unlock, Unlocked, ReleaseDone, AccountInv, LockType, Account, Held
<1>4. ASSUME NEW r \in Runs, OnOpened(o, r) PROVE AccountInv'
  <2>1. CASE UNCHANGED cpc
    BY <1>4, <2>1, AccountFrame DEF OnOpened
  <2>2. CASE CanClaim(o, r) /\ CGoto(o, r, "lock")
    BY <1>4, <2>2 DEF OnOpened, CanClaim, CGoto, AccountInv, LockType, ClaimPCs, Account, Held
  <2> QED
    BY <1>4, <2>1, <2>2 DEF OnOpened
<1>5. ASSUME NEW r \in Runs, OnClosed(o, r) PROVE AccountInv'
  <2>1. {r} \cap owned[o] \in SUBSET owned[o]
    OBVIOUS
  <2> QED
    BY <1>5, <2>1, DropAccount DEF OnClosed
<1>6. ASSUME NEW r \in Runs, SessionEnd(o, r) PROVE AccountInv'
  BY <1>6 DEF SessionEnd, AccountInv, LockType, Account, Held
<1>7. ASSUME NEW r \in Runs, SessionNotice(o, r) PROVE AccountInv'
  BY <1>7 DEF SessionNotice, AccountInv, LockType, Account, Held
<1> QED
  BY <1>1, <1>2, <1>3, <1>4, <1>5, <1>6, <1>7

\* The books are right from the start and at every step.
LEMMA AccountInvariant == Spec => []AccountInv
<1>1. Init => AccountInv
  BY FoldAssumption
     DEF Init, PerOwner, PerClaim, AccountInv, LockType, ClaimPCs, Account, Held
<1>2. AccountInv /\ [Next]_vars => AccountInv'
  <2> SUFFICES ASSUME AccountInv, [Next]_vars PROVE AccountInv'
    OBVIOUS
  <2>1. CASE Next
    BY <2>1, RunAccount, ClaimAccount, TickAccount, EventAccount DEF Next
  <2>2. CASE UNCHANGED vars
    BY <2>2, AccountFrame DEF vars, runV, claimV, ownV
  <2> QED
    BY <2>1, <2>2
<1> QED
  BY <1>1, <1>2, PTL DEF Spec

\* No owner ever forgets a lock: through claims in flight at a shutdown, pings that
\* race the tick, crashes and lost sessions, a lock held by an owner is one it owns,
\* is claiming or is about to unlock, and it holds the lock of every run that it
\* owns with a session that is up.
THEOREM LocksAccounted == Spec => []LockAccounted
<1>1. AccountInv => LockAccounted
  BY DEF AccountInv, LockType, Account, Held, LockAccounted, Claiming
<1> QED
  BY <1>1, AccountInvariant, PTL

-----------------------------------------------------------------------------
(* The cap. *)

\* The runs are finite in number, so what an owner has is counted.
LEMMA Counted ==
    ASSUME AccountInv, NEW o \in Owners
    PROVE  /\ owned[o] \subseteq Runs /\ Claiming(o) \subseteq Runs
           /\ IsFiniteSet(owned[o]) /\ IsFiniteSet(Claiming(o))
           /\ Cardinality(owned[o]) \in Nat /\ Cardinality(Claiming(o)) \in Nat
<1>1. owned[o] \in SUBSET Runs /\ Claiming(o) \in SUBSET Runs /\ IsFiniteSet(Runs)
  BY FoldAssumption DEF AccountInv, LockType, Claiming
<1>2. IsFiniteSet(owned[o]) /\ IsFiniteSet(Claiming(o))
  BY <1>1, FS_Subset
<1>3. QED
  BY <1>1, <1>2, FS_CardinalityType

\* Giving up runs or claims does not break the cap.
LEMMA CapShrinks ==
    ASSUME AccountInv, AccountInv', NEW o \in Owners,
           Cardinality(owned[o]) + Cardinality(Claiming(o)) <= MaxOwned,
           owned'[o] \subseteq owned[o], Claiming(o)' \subseteq Claiming(o)
    PROVE  Cardinality(owned'[o]) + Cardinality(Claiming(o)') <= MaxOwned
<1>1. /\ Cardinality(owned[o]) \in Nat /\ Cardinality(Claiming(o)) \in Nat
      /\ IsFiniteSet(owned[o]) /\ IsFiniteSet(Claiming(o))
  BY Counted
<1>2. Cardinality(owned'[o]) <= Cardinality(owned[o])
  BY <1>1, FS_Subset
<1>3. Cardinality(Claiming(o)') <= Cardinality(Claiming(o))
  BY <1>1, FS_Subset
<1>4. Cardinality(owned'[o]) \in Nat
  BY <1>1, FS_Subset, FS_CardinalityType
<1>5. Cardinality(Claiming(o)') \in Nat
  BY <1>1, FS_Subset, FS_CardinalityType
<1>6. QED
  BY <1>1, <1>2, <1>3, <1>4, <1>5, FoldAssumption

\* A claim is started below the cap only.
LEMMA CapStarts ==
    ASSUME AccountInv, CapRespected, NEW o \in Owners, NEW r \in Runs, CanClaim(o, r), CGoto(o, r, "lock"),
           UNCHANGED owned
    PROVE  CapRespected'
<1>1. Claiming(o)' = Claiming(o) \cup {r} /\ r \notin Claiming(o)
  BY DEF Claiming, CanClaim, CGoto, AccountInv, LockType
<1>2. \A p \in Owners : p # o => Claiming(p)' = Claiming(p)
  BY DEF Claiming, CGoto, AccountInv, LockType
<1>3. /\ Cardinality(owned[o]) \in Nat /\ Cardinality(Claiming(o)) \in Nat /\ IsFiniteSet(Claiming(o))
  BY Counted
<1>4. Cardinality(Claiming(o)') = Cardinality(Claiming(o)) + 1
  BY <1>1, <1>3, FS_AddElement
<1>5. ~(Cardinality(owned[o]) + Cardinality(Claiming(o)) >= MaxOwned)
  BY DEF CanClaim, AtCap
<1>6. Cardinality(owned'[o]) + Cardinality(Claiming(o)') <= MaxOwned
  BY <1>3, <1>4, <1>5, FoldAssumption
<1>7. QED
  BY <1>2, <1>6 DEF CapRespected

\* A claim that ends with the run owned counts as much as before.
LEMMA CapInserts ==
    ASSUME AccountInv, CapRespected, NEW o \in Owners, NEW r \in Runs, cpc[o][r] = "insert",
           CGoto(o, r, "none"), owned' = [owned EXCEPT ![o] = @ \cup {r}]
    PROVE  CapRespected'
<1>1. Claiming(o)' = Claiming(o) \ {r} /\ r \in Claiming(o)
  BY DEF Claiming, CGoto, AccountInv, LockType
<1>2. owned'[o] = owned[o] \cup {r} /\ r \notin owned[o]
  BY DEF AccountInv, LockType, Account
<1>3. \A p \in Owners : p # o => Claiming(p)' = Claiming(p) /\ owned'[p] = owned[p]
  BY DEF Claiming, CGoto, AccountInv, LockType
<1>4. /\ Cardinality(owned[o]) \in Nat /\ Cardinality(Claiming(o)) \in Nat
      /\ IsFiniteSet(owned[o]) /\ IsFiniteSet(Claiming(o))
  BY Counted
<1>5. Cardinality(Claiming(o)') = Cardinality(Claiming(o)) - 1
  BY <1>1, <1>4, FS_RemoveElement
<1>6. Cardinality(owned'[o]) = Cardinality(owned[o]) + 1
  <2>1. Cardinality(owned[o] \cup {r}) = Cardinality(owned[o]) + 1
    BY <1>2, <1>4, FS_AddElement
  <2>2. QED
    BY <1>2, <2>1
<1>7. Cardinality(owned'[o]) + Cardinality(Claiming(o)') <= MaxOwned
  BY <1>4, <1>5, <1>6, FoldAssumption DEF CapRespected
<1>8. QED
  BY <1>3, <1>7 DEF CapRespected

\* Every step keeps the cap.
LEMMA CapKept == ASSUME AccountInv, AccountInv', CapRespected, [Next]_vars PROVE CapRespected'
<1> USE DEF runV, claimV, ownV
<1>1. ASSUME \A o \in Owners : owned'[o] \subseteq owned[o],
             \A o \in Owners, r \in Runs : cpc[o][r] = "none" => cpc'[o][r] = "none"
      PROVE  CapRespected'
  <2>1. \A o \in Owners : Claiming(o)' \subseteq Claiming(o)
    BY <1>1 DEF Claiming
  <2>2. QED
    BY <1>1, <2>1, CapShrinks DEF CapRespected
<1>2. ASSUME NEW r \in Runs, RunStep(r) PROVE CapRespected'
  BY <1>1, <1>2 DEF RunStep, Open, Close, Reopen, ParseStart, ParseEnd
<1>3. ASSUME NEW o \in Owners, NEW r \in Runs, Claim(o, r) PROVE CapRespected'
  <2>1. CASE UNCHANGED owned
    <3>1. cpc[o][r] # "none" /\ \E x : CGoto(o, r, x)
      BY <1>3 DEF Claim, ClaimLock, ClaimError, ClaimInsert, ClaimUnlock, ClaimEnd
    <3>2. \A p \in Owners, q \in Runs : cpc[p][q] = "none" => cpc'[p][q] = "none"
      BY <3>1 DEF CGoto, AccountInv, LockType
    <3>3. QED
      BY <1>1, <2>1, <3>2
  <2>2. CASE ~UNCHANGED owned
    <3>1. /\ cpc[o][r] = "insert" /\ CGoto(o, r, "none")
          /\ owned' = [owned EXCEPT ![o] = @ \cup {r}]
      BY <1>3, <2>2 DEF Claim, ClaimLock, ClaimError, ClaimInsert, ClaimUnlock, ClaimEnd
    <3>2. QED
      BY <3>1, CapInserts
  <2>3. QED
    BY <2>1, <2>2
<1>4. ASSUME NEW o \in Owners, NEW R, Drop(o, R), UNCHANGED cpc PROVE CapRespected'
  <2>1. \A p \in Owners : owned'[p] \subseteq owned[p]
    BY <1>4 DEF Drop, AccountInv, LockType
  <2>2. QED
    BY <1>1, <1>4, <2>1
<1>5. ASSUME NEW o \in Owners, Tick(o) PROVE CapRespected'
  <2>1. CASE TickStart(o) \/ TickSelect(o) \/ TickSent(o) \/ TickPass(o)
    BY <1>1, <2>1 DEF TickStart, TickSelect, TickSent, TickPass
  <2>2. ASSUME NEW r \in Runs, TickRelease(o, r) \/ TickPublish(o, r) PROVE CapRespected'
    BY <1>1, <1>4, <2>2 DEF TickRelease, TickPublish
  <2>3. ASSUME NEW r \in Runs, TickClaim(o, r) PROVE CapRespected'
    BY <1>1, <2>3, CapStarts DEF TickClaim
  <2>4. QED
    BY <1>5, <2>1, <2>2, <2>3 DEF Tick
<1>6. ASSUME NEW o \in Owners, Shutdown(o) PROVE CapRespected'
  BY <1>4, <1>6 DEF Shutdown
<1>7. ASSUME NEW o \in Owners, Crash(o) PROVE CapRespected'
  <2>1. \A p \in Owners : owned'[p] \subseteq owned[p]
    BY <1>7 DEF Crash, AccountInv, LockType
  <2>2. \A p \in Owners, r \in Runs : cpc[p][r] = "none" => cpc'[p][r] = "none"
    BY <1>7 DEF Crash, AccountInv, LockType
  <2>3. QED
    BY <1>1, <2>1, <2>2
<1>8. ASSUME NEW o \in Owners, NEW r \in Runs,
             Unlock(o, r) \/ OnOpened(o, r) \/ OnClosed(o, r) \/ SessionEnd(o, r) \/ SessionNotice(o, r)
      PROVE  CapRespected'
  BY <1>1, <1>4, <1>8, CapStarts DEF Unlock, OnOpened, OnClosed, SessionEnd, SessionNotice
<1>9. CASE UNCHANGED vars
  BY <1>1, <1>9 DEF vars
<1>10. QED
  BY <1>2, <1>3, <1>5, <1>6, <1>7, <1>8, <1>9 DEF Next

\* An owner never has more runs, owned and being claimed, than its connection pool has
\* room for: pings and ticks that start claims at once do not pass the cap together.
THEOREM CapHolds == Spec => []CapRespected
<1>1. Init => CapRespected
  <2> SUFFICES ASSUME Init, NEW o \in Owners PROVE Cardinality(owned[o]) + Cardinality(Claiming(o)) <= MaxOwned
    BY DEF CapRespected
  <2>1. owned[o] = {} /\ Claiming(o) = {}
    BY DEF Init, PerOwner, PerClaim, Claiming
  <2>2. QED
    BY <2>1, FS_EmptySet, FoldAssumption
<1>2. QED
  BY <1>1, CapKept, AccountInvariant, PTL DEF Spec

-----------------------------------------------------------------------------
(* Closes the owner has been told of. *)

\* A close that was told is not undone; and a poll older than the close finds the run in
\* #recentlyClosed.
TellInv ==
    /\ status \in [Runs -> {"absent", "running", "parsing", "done"}]
    /\ closedPing \in [Owners -> SUBSET Runs] /\ told \in [Owners -> SUBSET Runs]
    /\ recent \in [Owners -> SUBSET Runs]
    /\ tpc \in [Owners -> TickPCs] /\ trun \in [Owners -> SUBSET Runs]
    /\ tcur \in [Owners -> Runs \cup {NoRun}]
    /\ \A o \in Owners, r \in Runs :
         /\ r \in closedPing[o] => status[r] # "absent"
         /\ r \in told[o] => status[r] \in {"parsing", "done"}
         /\ tpc[o] \in {"release", "claim"} /\ r \in told[o] /\ r \in trun[o] => r \in recent[o]

\* A step that leaves the closes alone.
LEMMA TellFrame ==
    ASSUME TellInv, UNCHANGED <<status, closedPing, told, recent, tpc, trun>>,
           tcur' \in [Owners -> Runs \cup {NoRun}]
    PROVE  TellInv'
BY DEF TellInv

LEMMA TellKept == ASSUME TellInv, [Next]_vars PROVE TellInv'
<1> USE FoldAssumption DEF runV, pingV, claimV, ownV, tickV, TickPCs
<1>1. ASSUME NEW r \in Runs, RunStep(r) PROVE TellInv'
  <2>1. CASE Open(r) \/ Close(r)
    BY <2>1 DEF Open, Close, TellInv
  <2>2. CASE Reopen(r)
    BY <2>2 DEF Reopen, TellInv
  <2>3. CASE ParseStart(r)
    BY <2>3, TellFrame DEF ParseStart, TellInv
  <2>4. CASE ParseEnd(r)
    BY <2>4 DEF ParseEnd, TellInv
  <2>5. QED
    BY <1>1, <2>1, <2>2, <2>3, <2>4 DEF RunStep
<1>2. ASSUME NEW o \in Owners, NEW r \in Runs, Claim(o, r) PROVE TellInv'
  <2>1. tcur' \in [Owners -> Runs \cup {NoRun}]
    BY <1>2 DEF Claim, ClaimLock, ClaimError, ClaimInsert, ClaimUnlock, ClaimEnd, TellInv
  <2>2. QED
    BY <1>2, <2>1, TellFrame DEF Claim, ClaimLock, ClaimError, ClaimInsert, ClaimUnlock
<1>3. ASSUME NEW o \in Owners, Tick(o) PROVE TellInv'
  <2>1. CASE TickStart(o)
    BY <2>1 DEF TickStart, TGoto, TellInv
  <2>2. CASE TickSelect(o)
    BY <2>2 DEF TickSelect, TGoto, TellInv
  <2>3. CASE TickSent(o)
    BY <2>3 DEF TickSent, TGoto, TellInv
  <2>4. CASE TickPass(o)
    BY <2>4 DEF TickPass, TGoto, TellInv
  <2>5. ASSUME NEW r \in Runs, TickRelease(o, r) \/ TickClaim(o, r) \/ TickPublish(o, r) PROVE TellInv'
    <3>1. tcur' \in [Owners -> Runs \cup {NoRun}]
      BY <2>5 DEF TickRelease, TickClaim, TickPublish, Visit, TellInv
    <3>2. QED
      BY <2>5, <3>1, TellFrame DEF TickRelease, TickClaim, TickPublish
  <2>6. QED
    BY <1>3, <2>1, <2>2, <2>3, <2>4, <2>5 DEF Tick
<1>4. ASSUME NEW o \in Owners, Shutdown(o) PROVE TellInv'
  BY <1>4, TellFrame DEF Shutdown, TellInv
<1>5. ASSUME NEW o \in Owners, Crash(o) PROVE TellInv'
  BY <1>5 DEF Crash, TellInv
<1>6. ASSUME NEW o \in Owners, NEW r \in Runs, OnClosed(o, r) PROVE TellInv'
  <2>1. /\ closedPing' = [closedPing EXCEPT ![o] = @ \ {r}]
        /\ recent' = [recent EXCEPT ![o] = @ \cup {r}]
        /\ (told' = [told EXCEPT ![o] = @ \cup {r}] /\ status[r] # "running") \/ told' = told
        /\ UNCHANGED <<status, tpc, trun, tcur>> /\ r \in closedPing[o]
    BY <1>6 DEF OnClosed, Tell
  <2>2. QED
    BY <2>1 DEF TellInv
<1>7. ASSUME NEW o \in Owners, NEW r \in Runs,
             Unlock(o, r) \/ OnOpened(o, r) \/ SessionEnd(o, r) \/ SessionNotice(o, r)
      PROVE  TellInv'
  <2>1. tcur' \in [Owners -> Runs \cup {NoRun}]
    BY <1>7 DEF Unlock, OnOpened, SessionEnd, SessionNotice, ReleaseDone, TellInv
  <2>2. QED
    BY <1>7, <2>1, TellFrame DEF Unlock, OnOpened, SessionEnd, SessionNotice
<1>8. CASE UNCHANGED vars
  BY <1>8, TellFrame DEF vars, TellInv
<1>9. QED
  BY <1>1, <1>2, <1>3, <1>4, <1>5, <1>6, <1>7, <1>8 DEF Next

\* The tick never claims a run whose close this owner was told of, however old its poll is.
THEOREM ClosedStayClosed == Spec => ClosedNotReclaimed
<1> DEFINE Kept == \A o \in Owners : \A r \in told[o] :
                     ~(tpc[o] = "claim" /\ tcur[o] # r /\ tcur'[o] = r)
<1>1. Init => TellInv
  BY FoldAssumption DEF Init, PerOwner, TellInv, TickPCs
<1>2. TellInv /\ [Next]_vars => [Kept]_vars
  <2> SUFFICES ASSUME TellInv, Next, NEW o \in Owners, NEW r \in told[o], tpc[o] = "claim",
                      tcur[o] # r, tcur'[o] = r
               PROVE  FALSE
    OBVIOUS
  <2> USE DEF tickV
  <2>1. r \in Runs /\ r # NoRun
    BY FoldAssumption DEF TellInv
  <2>2. ASSUME NEW p \in Owners, NEW q \in Runs, TickClaim(p, q) PROVE FALSE
    <3>1. p = o /\ q = r
      BY <2>1, <2>2 DEF TickClaim, Visit, TellInv
    <3>2. r \notin recent[o] /\ r \in trun[o]
      BY <2>1, <2>2, <3>1 DEF TickClaim, Visit, TellInv
    <3>3. QED
      BY <2>1, <3>2 DEF TellInv
  <2>3. ASSUME NEW p \in Owners, NEW q \in Runs, TickRelease(p, q) \/ TickPublish(p, q) PROVE FALSE
    <3>1. p # o
      BY <2>3 DEF TickRelease, TickPublish
    <3>2. tcur'[o] = tcur[o]
      BY <2>3, <3>1 DEF TickRelease, TickPublish, Visit, TellInv
    <3>3. QED
      BY <3>2
  <2>4. ASSUME NEW p \in Owners, TickSent(p) \/ Crash(p) PROVE FALSE
    BY <2>1, <2>4 DEF TickSent, Crash, TellInv
  <2>5. ASSUME NEW p \in Owners, NEW q \in Runs, Claim(p, q) \/ Unlock(p, q) PROVE FALSE
    <3>1. tcur' = tcur \/ tcur' = [tcur EXCEPT ![p] = NoRun]
      BY <2>5 DEF Claim, ClaimLock, ClaimError, ClaimInsert, ClaimUnlock, ClaimEnd, Unlock,
                  ReleaseDone
    <3>2. QED
      BY <2>1, <3>1 DEF TellInv
  <2>6. ASSUME NEW q \in Runs, RunStep(q) PROVE FALSE
    BY <2>6 DEF RunStep, Open, Close, Reopen, ParseStart, ParseEnd
  <2>7. ASSUME NEW p \in Owners, TickStart(p) \/ TickSelect(p) \/ TickPass(p) \/ Shutdown(p) PROVE FALSE
    BY <2>7 DEF TickStart, TickSelect, TickPass, Shutdown
  <2>8. ASSUME NEW p \in Owners, NEW q \in Runs,
               OnOpened(p, q) \/ OnClosed(p, q) \/ SessionEnd(p, q) \/ SessionNotice(p, q)
        PROVE  FALSE
    BY <2>8 DEF OnOpened, OnClosed, SessionEnd, SessionNotice
  <2>9. QED
    BY <2>2, <2>3, <2>4, <2>5, <2>6, <2>7, <2>8 DEF Next, Tick
<1>3. QED
  BY <1>1, <1>2, TellKept, PTL DEF Spec, ClosedNotReclaimed
=============================================================================
