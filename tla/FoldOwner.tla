----------------------------- MODULE FoldOwner ------------------------------
(***************************************************************************)
(* The live fold owners (one per worker process) and the runs they claim:  *)
(* discovery by a periodic tick and by Redis pings, the advisory lock that *)
(* an owner and the ingest pipeline share, release when a run is closed,   *)
(* loss of the lock's session, shutdown and crash.                         *)
(*                                                                         *)
(* One action is what an owner does between two awaits.  Handlers of one   *)
(* owner interleave at their awaits; owners interleave freely.  What a     *)
(* fold reads and decodes is module LiveStream; here a fold has no effect, *)
(* and a delta is published, not looked into.                              *)
(***************************************************************************)
EXTENDS Integers, FiniteSets

CONSTANTS
    Owners,      \* worker processes
    Runs,
    MaxOwned,    \* config.maxOwnedRuns
    FaultKinds,  \* the failures that may happen
    MaxFaults,   \* bound on their number
    NoOne,       \* nobody holds the lock
    NoRun        \* the tick awaits nothing

FaultSet == {"reopen", "db", "session", "shutdown", "crash"}

ASSUME FoldAssumption ==
    /\ IsFiniteSet(Runs)
    /\ MaxOwned \in Nat \ {0} /\ MaxFaults \in Nat
    /\ FaultKinds \subseteq FaultSet
    /\ NoOne \notin Owners /\ "pipeline" \notin Owners /\ NoOne # "pipeline"
    /\ NoRun \notin Runs

VARIABLES
    status, lock,         \* per run: the row's status, the advisory lock
    openedPing, closedPing, \* per owner: live:opened and live:closed under way
    owned, recent, closing, \* per owner: #owned, #recentlyClosed, #closing
    cpc,                  \* per owner and run: the claim in flight
    sess,                 \* per owner and run: the session that holds the lock
    releasing,            \* per owner: unlocks under way
    tpc, trun, tdone, tcur, \* per owner: the tick, its poll, its progress
    told,                 \* history: closes this owner has handled a ping for
    faults

runV   == <<status, lock>>
pingV  == <<openedPing, closedPing>>
claimV == <<cpc, sess>>
ownV   == <<owned, recent, closing, releasing>>
tickV  == <<tpc, trun, tdone, tcur>>
vars   == <<runV, pingV, claimV, ownV, tickV, told, faults>>

ClaimPCs == {"none", "lock", "insert", "unlock"}
TickPCs  == {"idle", "select", "release", "claim", "publish"}

PerOwner(x) == [o \in Owners |-> x]
PerClaim(x) == [o \in Owners |-> [r \in Runs |-> x]]

Init ==
    /\ status = [r \in Runs |-> "absent"]
    /\ lock = [r \in Runs |-> NoOne]
    /\ openedPing = PerOwner({}) /\ closedPing = PerOwner({})
    /\ owned = PerOwner({}) /\ recent = PerOwner({}) /\ closing = PerOwner(FALSE)
    /\ releasing = PerOwner({})
    /\ cpc = PerClaim("none") /\ sess = PerClaim("ok")
    /\ tpc = PerOwner("idle") /\ trun = PerOwner({}) /\ tdone = PerOwner({})
    /\ tcur = PerOwner(NoRun)
    /\ told = PerOwner({})
    /\ faults = 0

Fault(kind) ==
    /\ kind \in FaultKinds
    /\ faults < MaxFaults
    /\ faults' = faults + 1

NoFault == UNCHANGED faults

Claiming(o) == {r \in Runs : cpc[o][r] # "none"}

-----------------------------------------------------------------------------
(* The runs: open, close, a close that is undone, and the terminal parse.  *)
(* A ping reaches every owner at some time after it is sent, or never.     *)

Open(r) ==
    /\ status[r] = "absent"
    /\ status' = [status EXCEPT ![r] = "running"]
    /\ openedPing' = [o \in Owners |-> openedPing[o] \cup {r}]
    /\ UNCHANGED <<lock, closedPing, claimV, ownV, tickV, told, faults>>

Close(r) ==
    /\ status[r] = "running"
    /\ status' = [status EXCEPT ![r] = "parsing"]
    /\ closedPing' = [o \in Owners |-> closedPing[o] \cup {r}]
    /\ UNCHANGED <<lock, openedPing, claimV, ownV, tickV, told, faults>>

\* releaseClose: the assembly failed and the run accepts bytes again.
Reopen(r) ==
    /\ status[r] = "parsing" /\ lock[r] # "pipeline" /\ Fault("reopen")
    /\ status' = [status EXCEPT ![r] = "running"]
    /\ told' = [o \in Owners |-> told[o] \ {r}]
    /\ UNCHANGED <<lock, pingV, claimV, ownV, tickV>>

\* PipelineService.process takes the same lock, or tries again later.
ParseStart(r) ==
    /\ status[r] = "parsing" /\ lock[r] = NoOne
    /\ lock' = [lock EXCEPT ![r] = "pipeline"]
    /\ UNCHANGED <<status, pingV, claimV, ownV, tickV, told, faults>>

ParseEnd(r) ==
    /\ lock[r] = "pipeline"
    /\ lock' = [lock EXCEPT ![r] = NoOne]
    /\ status' = [status EXCEPT ![r] = "done"]
    /\ UNCHANGED <<pingV, claimV, ownV, tickV, told, faults>>

-----------------------------------------------------------------------------
(* #claim and #claimReserved *)

\* Mutated AtCap: claims in flight are not counted.
AtCapOwnedOnly(o) == Cardinality(owned[o]) >= MaxOwned

AtCap(o) == Cardinality(owned[o]) + Cardinality(Claiming(o)) >= MaxOwned

CanClaim(o, r) == r \notin owned[o] /\ cpc[o][r] = "none" /\ ~AtCap(o)

CGoto(o, r, pc) == cpc' = [cpc EXCEPT ![o][r] = pc]

\* The claim is over: a tick that awaits it goes on.
ClaimEnd(o, r) ==
    /\ CGoto(o, r, "none")
    /\ tcur' = IF tpc[o] = "claim" /\ tcur[o] = r THEN [tcur EXCEPT ![o] = NoRun] ELSE tcur

Unlocked(o, r) == IF lock[r] = o /\ sess[o][r] = "ok"
                  THEN [lock EXCEPT ![r] = NoOne] ELSE lock

ClaimLock(o, r) ==
    /\ cpc[o][r] = "lock"
    /\ IF lock[r] = NoOne
       THEN /\ lock' = [lock EXCEPT ![r] = o]
            /\ sess' = [sess EXCEPT ![o][r] = "ok"]
            /\ CGoto(o, r, "insert")
            /\ UNCHANGED tcur
       ELSE ClaimEnd(o, r) /\ UNCHANGED <<lock, sess>>
    /\ UNCHANGED <<status, pingV, ownV, tpc, trun, tdone, told, faults>>

\* No pooled client, or the lock query fails.
ClaimError(o, r) ==
    /\ cpc[o][r] = "lock" /\ Fault("db")
    /\ ClaimEnd(o, r)
    /\ UNCHANGED <<runV, pingV, sess, ownV, tpc, trun, tdone, told>>

\* Mutated ClaimInsert: a claim that finds the owner closing forgets its lock.
ClaimInsertForgets(o, r) ==
    /\ cpc[o][r] = "insert"
    /\ IF closing[o] \/ sess[o][r] = "lost"
       THEN ClaimEnd(o, r) /\ sess' = [sess EXCEPT ![o][r] = "ok"] /\ UNCHANGED owned
       ELSE /\ owned' = [owned EXCEPT ![o] = @ \cup {r}]
            /\ ClaimEnd(o, r)
            /\ UNCHANGED sess
    /\ UNCHANGED <<runV, pingV, recent, closing, releasing, tpc, trun, tdone, told, faults>>

\* After the replay tip, the run's context and its rules are read (a read that
\* fails does not end the claim): a lost session abandons it, a closing owner gives
\* the lock back, any other one owns the run.
ClaimInsert(o, r) ==
    /\ cpc[o][r] = "insert"
    /\ \/ /\ sess[o][r] = "lost"
          /\ ClaimEnd(o, r)
          /\ sess' = [sess EXCEPT ![o][r] = "ok"]
          /\ UNCHANGED owned
       \/ /\ sess[o][r] # "lost" /\ closing[o]
          /\ CGoto(o, r, "unlock")
          /\ UNCHANGED <<owned, sess, tcur>>
       \/ /\ sess[o][r] # "lost" /\ ~closing[o]
          /\ owned' = [owned EXCEPT ![o] = @ \cup {r}]
          /\ ClaimEnd(o, r)
          /\ UNCHANGED sess
    /\ UNCHANGED <<runV, pingV, recent, closing, releasing, tpc, trun, tdone, told, faults>>

ClaimUnlock(o, r) ==
    /\ cpc[o][r] = "unlock"
    /\ lock' = Unlocked(o, r)
    /\ ClaimEnd(o, r)
    /\ sess' = [sess EXCEPT ![o][r] = "ok"]
    /\ UNCHANGED <<status, pingV, ownV, tpc, trun, tdone, told, faults>>

-----------------------------------------------------------------------------
(* #release: out of #owned at once, then the unlock. *)

\* The runs R leave #owned; those whose session still holds the lock wait for
\* their unlock.  (What a dropped FoldState held is reset.)
Drop(o, R) ==
    /\ owned' = [owned EXCEPT ![o] = @ \ R]
    /\ releasing' = [releasing EXCEPT ![o] = @ \cup {r \in R : sess[o][r] = "ok"}]
    /\ sess' = [sess EXCEPT ![o] = [r \in Runs |-> IF r \in R THEN "ok" ELSE @[r]]]

ReleaseDone(o, r) ==
    /\ releasing' = [releasing EXCEPT ![o] = @ \ {r}]
    /\ tcur' = IF tpc[o] = "release" /\ tcur[o] = r THEN [tcur EXCEPT ![o] = NoRun] ELSE tcur

\* pg_advisory_unlock, or the destruction of a client whose unlock failed.
Unlock(o, r) ==
    /\ r \in releasing[o]
    /\ lock' = Unlocked(o, r)
    /\ ReleaseDone(o, r)
    /\ UNCHANGED <<status, pingV, claimV, owned, recent, closing, tpc, trun, tdone,
                   told, faults>>

-----------------------------------------------------------------------------
(* The pings *)

OnOpened(o, r) ==
    /\ r \in openedPing[o]
    /\ openedPing' = [openedPing EXCEPT ![o] = @ \ {r}]
    /\ IF ~closing[o] /\ CanClaim(o, r) THEN CGoto(o, r, "lock") ELSE UNCHANGED cpc
    /\ UNCHANGED <<runV, closedPing, sess, ownV, tickV, told, faults>>

Tell(o, r) == told' = IF status[r] # "running" THEN [told EXCEPT ![o] = @ \cup {r}] ELSE told

\* Mutated OnClosed: only an owned run is remembered as closed.
OnClosedOwnedOnly(o, r) ==
    /\ r \in closedPing[o] /\ ~closing[o]
    /\ closedPing' = [closedPing EXCEPT ![o] = @ \ {r}]
    /\ Tell(o, r)
    /\ IF r \in owned[o]
       THEN Drop(o, {r}) /\ recent' = [recent EXCEPT ![o] = @ \cup {r}]
       ELSE UNCHANGED <<owned, releasing, recent, sess>>
    /\ UNCHANGED <<runV, openedPing, cpc, closing, tickV, faults>>

OnClosed(o, r) ==
    /\ r \in closedPing[o] /\ ~closing[o]
    /\ closedPing' = [closedPing EXCEPT ![o] = @ \ {r}]
    /\ Tell(o, r)
    /\ recent' = [recent EXCEPT ![o] = @ \cup {r}]
    /\ Drop(o, {r} \cap owned[o])
    /\ UNCHANGED <<runV, openedPing, cpc, closing, tickV, faults>>

-----------------------------------------------------------------------------
(* tick and #doTick: poll, release pass, claim pass, publish pass. *)

TGoto(o, pc) == tpc' = [tpc EXCEPT ![o] = pc]

\* r is visited by the current pass, which awaits `await`.
Visit(o, r, await) ==
    /\ tdone' = [tdone EXCEPT ![o] = @ \cup {r}]
    /\ tcur' = [tcur EXCEPT ![o] = await]

\* Mutated TickStart: #recentlyClosed is never cleared.
TickStartRemembers(o) ==
    /\ tpc[o] = "idle" /\ ~closing[o]
    /\ TGoto(o, "select")
    /\ UNCHANGED <<runV, pingV, claimV, ownV, trun, tdone, tcur, told, faults>>

TickStart(o) ==
    /\ tpc[o] = "idle" /\ ~closing[o]
    /\ recent' = [recent EXCEPT ![o] = {}]
    /\ TGoto(o, "select")
    /\ UNCHANGED <<runV, pingV, claimV, owned, closing, releasing, trun, tdone, tcur,
                   told, faults>>

\* The poll: every run that is running now.  It may fail, and the tick with it.
TickSelect(o) ==
    /\ tpc[o] = "select"
    /\ \/ /\ trun' = [trun EXCEPT ![o] = {r \in Runs : status[r] = "running"}]
          /\ TGoto(o, "release") /\ NoFault
       \/ TGoto(o, "idle") /\ Fault("db") /\ UNCHANGED trun
    /\ tdone' = [tdone EXCEPT ![o] = {}]
    /\ UNCHANGED <<runV, pingV, claimV, ownV, tcur, told>>

\* Mutated TickRelease: only a lost session releases a run.
TickReleaseLost(o, r) ==
    /\ tpc[o] = "release" /\ tcur[o] = NoRun /\ r \in owned[o] \ tdone[o]
    /\ IF sess[o][r] = "lost"
       THEN Drop(o, {r}) /\ Visit(o, r, NoRun)
       ELSE Visit(o, r, NoRun) /\ UNCHANGED <<owned, releasing, sess>>
    /\ UNCHANGED <<runV, pingV, cpc, recent, closing, tpc, trun, told, faults>>

TickRelease(o, r) ==
    /\ tpc[o] = "release" /\ tcur[o] = NoRun /\ r \in owned[o] \ tdone[o]
    /\ IF r \notin trun[o] \/ sess[o][r] = "lost"
       THEN Drop(o, {r}) /\ Visit(o, r, IF sess[o][r] = "ok" THEN r ELSE NoRun)
       ELSE Visit(o, r, NoRun) /\ UNCHANGED <<owned, releasing, sess>>
    /\ UNCHANGED <<runV, pingV, cpc, recent, closing, tpc, trun, told, faults>>

TickClaim(o, r) ==
    /\ tpc[o] = "claim" /\ tcur[o] = NoRun /\ r \in trun[o] \ tdone[o]
    /\ IF r \notin recent[o] /\ CanClaim(o, r)
       THEN CGoto(o, r, "lock") /\ Visit(o, r, r)
       ELSE Visit(o, r, NoRun) /\ UNCHANGED cpc
    /\ UNCHANGED <<runV, pingV, sess, ownV, tpc, trun, told, faults>>

\* #publish is awaited for each run that is owned with its session; its failures
\* are caught.
TickPublish(o, r) ==
    /\ tpc[o] = "publish" /\ tcur[o] = NoRun /\ r \in owned[o] \ tdone[o]
    /\ Visit(o, r, IF sess[o][r] = "lost" THEN NoRun ELSE r)
    /\ UNCHANGED <<runV, pingV, claimV, ownV, tpc, trun, told, faults>>

TickSent(o) ==
    /\ tpc[o] = "publish" /\ tcur[o] # NoRun
    /\ tcur' = [tcur EXCEPT ![o] = NoRun]
    /\ UNCHANGED <<runV, pingV, claimV, ownV, tpc, trun, tdone, told, faults>>

\* A pass has visited everything; the next one begins, or the tick ends.
TickPass(o) ==
    /\ tcur[o] = NoRun
    /\ \/ /\ tpc[o] = "release" /\ owned[o] \subseteq tdone[o]
          /\ TGoto(o, "claim") /\ UNCHANGED trun
       \/ /\ tpc[o] = "claim" /\ trun[o] \subseteq tdone[o]
          /\ TGoto(o, "publish") /\ trun' = [trun EXCEPT ![o] = {}]
       \/ /\ tpc[o] = "publish" /\ owned[o] \subseteq tdone[o]
          /\ TGoto(o, "idle") /\ UNCHANGED trun
    /\ tdone' = [tdone EXCEPT ![o] = {}]
    /\ UNCHANGED <<runV, pingV, claimV, ownV, tcur, told, faults>>

-----------------------------------------------------------------------------
(* close(), crashes and lost sessions *)

\* close() drains #owned without waiting for the tick or for claims in flight.
Shutdown(o) ==
    /\ ~closing[o] /\ Fault("shutdown")
    /\ closing' = [closing EXCEPT ![o] = TRUE]
    /\ Drop(o, owned[o])
    /\ UNCHANGED <<runV, pingV, cpc, recent, tickV, told>>

\* The process dies and is started again: its sessions end, its memory is gone.
Crash(o) ==
    /\ Fault("crash")
    /\ lock' = [r \in Runs |-> IF lock[r] = o THEN NoOne ELSE lock[r]]
    /\ owned' = [owned EXCEPT ![o] = {}] /\ recent' = [recent EXCEPT ![o] = {}]
    /\ closing' = [closing EXCEPT ![o] = FALSE] /\ releasing' = [releasing EXCEPT ![o] = {}]
    /\ cpc' = [cpc EXCEPT ![o] = [r \in Runs |-> "none"]]
    /\ sess' = [sess EXCEPT ![o] = [r \in Runs |-> "ok"]]
    /\ tpc' = [tpc EXCEPT ![o] = "idle"] /\ tcur' = [tcur EXCEPT ![o] = NoRun]
    /\ trun' = [trun EXCEPT ![o] = {}] /\ tdone' = [tdone EXCEPT ![o] = {}]
    /\ openedPing' = [openedPing EXCEPT ![o] = {}] /\ closedPing' = [closedPing EXCEPT ![o] = {}]
    /\ told' = [told EXCEPT ![o] = {}]
    /\ UNCHANGED status

\* The database ends the session: the lock is free before the owner knows.
SessionEnd(o, r) ==
    /\ lock[r] = o /\ r \notin releasing[o] /\ Fault("session")
    /\ lock' = [lock EXCEPT ![r] = NoOne]
    /\ sess' = [sess EXCEPT ![o][r] = "ended"]
    /\ UNCHANGED <<status, pingV, cpc, ownV, tickV, told>>

\* The client's `error` event: HeldClient.lost is set.
SessionNotice(o, r) ==
    /\ sess[o][r] = "ended"
    /\ sess' = [sess EXCEPT ![o][r] = "lost"]
    /\ UNCHANGED <<runV, pingV, cpc, ownV, tickV, told, faults>>

-----------------------------------------------------------------------------

RunStep(r) == Open(r) \/ Close(r) \/ Reopen(r) \/ ParseStart(r) \/ ParseEnd(r)

Claim(o, r) ==
    \/ ClaimLock(o, r) \/ ClaimError(o, r) \/ ClaimInsert(o, r)
    \/ ClaimUnlock(o, r)

Tick(o) ==
    \/ TickStart(o) \/ TickSelect(o) \/ TickSent(o) \/ TickPass(o)
    \/ \E r \in Runs : TickRelease(o, r) \/ TickClaim(o, r) \/ TickPublish(o, r)

Next ==
    \/ \E r \in Runs : RunStep(r)
    \/ \E o \in Owners :
         \/ Tick(o) \/ Shutdown(o) \/ Crash(o)
         \/ \E r \in Runs : \/ Claim(o, r) \/ Unlock(o, r) \/ OnOpened(o, r) \/ OnClosed(o, r)
                            \/ SessionEnd(o, r) \/ SessionNotice(o, r)

Spec == Init /\ [][Next]_vars

\* The interval timer keeps ticking, a query or a Redis call returns, the queue
\* and the sweeper keep offering the parse.  No ping is owed to anyone.
Fairness ==
    /\ \A r \in Runs : WF_vars(ParseStart(r)) /\ WF_vars(ParseEnd(r))
    /\ \A o \in Owners :
         /\ WF_vars(Tick(o))
         /\ \A r \in Runs : WF_vars(Claim(o, r)) /\ WF_vars(Unlock(o, r))
                            /\ WF_vars(SessionNotice(o, r))

FairSpec == Spec /\ Fairness

-----------------------------------------------------------------------------
(* Correctness. *)

\* The type of the state; a run is never owned and being claimed by one owner.
TypeOK ==
    /\ status \in [Runs -> {"absent", "running", "parsing", "done"}]
    /\ lock \in [Runs -> Owners \cup {NoOne, "pipeline"}]
    /\ openedPing \in [Owners -> SUBSET Runs] /\ closedPing \in [Owners -> SUBSET Runs]
    /\ owned \in [Owners -> SUBSET Runs] /\ recent \in [Owners -> SUBSET Runs]
    /\ closing \in [Owners -> BOOLEAN] /\ releasing \in [Owners -> SUBSET Runs]
    /\ cpc \in [Owners -> [Runs -> ClaimPCs]]
    /\ sess \in [Owners -> [Runs -> {"ok", "ended", "lost"}]]
    /\ tpc \in [Owners -> TickPCs] /\ trun \in [Owners -> SUBSET Runs]
    /\ tdone \in [Owners -> SUBSET Runs] /\ tcur \in [Owners -> Runs \cup {NoRun}]
    /\ told \in [Owners -> SUBSET Runs]
    /\ faults \in 0..MaxFaults
    /\ \A o \in Owners : owned[o] \cap Claiming(o) = {}

\* The cap counts owned runs and claims in flight, through pings and ticks that
\* interleave: the connection pool is sized from it ("WITHOUT THIS THE CAP IS
\* NOT A CAP").
CapRespected ==
    \A o \in Owners : Cardinality(owned[o]) + Cardinality(Claiming(o)) <= MaxOwned

\* An owner whose session is up holds the lock of every run it owns, and a lock
\* an owner holds is always one it owns, is still claiming or is about to
\* unlock: none is forgotten at shutdown or on a lost session, where it would
\* keep the pipeline out for good.
LockAccounted ==
    \A o \in Owners, r \in Runs :
        /\ r \in owned[o] /\ sess[o][r] = "ok" => lock[r] = o
        /\ lock[r] = o => r \in owned[o] \cup Claiming(o) \cup releasing[o]

\* The tick never claims a run whose close this owner has been told of, although
\* its poll may be older than the close (#recentlyClosed).
ClosedNotReclaimed ==
    [][\A o \in Owners : \A r \in told[o] :
            ~(tpc[o] = "claim" /\ tcur[o] # r /\ tcur'[o] = r)]_vars

\* A closed run is parsed or reopened: no owner keeps its lock, even when every
\* live:closed is lost.
ClosedIsParsed == \A r \in Runs : status[r] = "parsing" ~> status[r] \in {"done", "running"}

\* A run that stays running is in the end owned for good by some owner that is up,
\* or every owner that is up has no place for it: reopened closes, crashes and lost
\* sessions do not leave it without an owner, even when every ping is lost.
RunningIsOwned ==
    \A r \in Runs :
        <>[](status[r] = "running" /\ \E o \in Owners : ~closing[o])
            => <>[](\/ \E o \in Owners : r \in owned[o]
                    \/ \A o \in Owners : ~closing[o] => AtCap(o))
=============================================================================
