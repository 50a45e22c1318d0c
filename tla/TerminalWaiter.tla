--------------------------- MODULE TerminalWaiter ---------------------------
(***************************************************************************)
(* Waiting for a run to end: the map of waiters, the one database session  *)
(* that listens on run_terminal, and what happens when that session is     *)
(* lost.  The session, its notifications and the run rows belong to        *)
(* Postgres; the worker commits a run's end and notifies afterwards.       *)
(*                                                                         *)
(* A run is named by the request that created it.                          *)
(***************************************************************************)
EXTENDS Naturals

CONSTANTS
    Reqs,        \* requests, and the runs they may create
    FaultKinds,  \* the failures that may happen
    MaxFaults,   \* bound on their number
    NoRun        \* no run

VARIABLES
    row,        \* each run's row: "none", "pending", "committed" (terminal), "ended" (and announced)
    waits,      \* #waiters: the run each request waits for
    session,    \* the session of #client: "none", "listening", "lost"
    attempt,    \* a reconnect's own client before it is installed; "dead": #dead has it
    rpc,        \* #reconnect: "none", "timer", "listen", "install"
    recheck,    \* the run ids #recheck asks about; NoRun when it is not running
    inbox,      \* notifications the listening session has not delivered yet
    closed,     \* #closed
    unheard,    \* history: runs whose end nobody could announce or look up
    faults

connV == <<session, attempt, rpc, recheck, inbox, closed>>
waiterV == <<row, waits, connV, unheard, faults>>

Idle == [q \in Reqs |-> NoRun]

WaiterInit ==
    /\ row = [q \in Reqs |-> "none"]
    /\ waits = Idle
    /\ session = "listening" /\ attempt = "none" /\ rpc = "none"
    /\ recheck = NoRun /\ inbox = {} /\ closed = FALSE
    /\ unheard = {} /\ faults = 0

Fault(kind) ==
    /\ kind \in FaultKinds
    /\ faults < MaxFaults
    /\ faults' = faults + 1

Terminal == {r \in Reqs : row[r] \in {"committed", "ended"}}

\* #wake: every waiter of these runs is resolved.
Wake(runs) == waits' = [q \in Reqs |-> IF waits[q] \in runs THEN NoRun ELSE waits[q]]

-----------------------------------------------------------------------------
(* waitFor. *)

WaitFor(q, r) == waits' = [waits EXCEPT ![q] = r]

\* The timer of one waiter.
Timeout(q) ==
    /\ waits[q] # NoRun
    /\ waits' = [waits EXCEPT ![q] = NoRun]
    /\ UNCHANGED <<row, connV, unheard, faults>>

-----------------------------------------------------------------------------
(* What the worker and Postgres do. *)

Listening == session = "listening" \/ attempt = "listening"

\* #publish after the commit; nobody listening hears nothing.
Publish(r) ==
    /\ row[r] = "committed"
    /\ row' = [row EXCEPT ![r] = "ended"]
    /\ inbox' = IF Listening THEN inbox \cup {r} ELSE inbox
    /\ UNCHANGED <<waits, session, attempt, rpc, recheck, closed, unheard, faults>>

\* The worker dies between its commit and the notification.
PublishLost(r) ==
    /\ row[r] = "committed"
    /\ Fault("publish")
    /\ row' = [row EXCEPT ![r] = "ended"]
    /\ unheard' = unheard \cup {r}
    /\ UNCHANGED <<waits, connV>>

\* The client's notification handler.
Deliver(r) ==
    /\ r \in inbox
    /\ inbox' = inbox \ {r}
    /\ Wake({r})
    /\ UNCHANGED <<row, session, attempt, rpc, recheck, closed, unheard, faults>>

\* The database ends the session: the installed one, or one that has just listened.
SessionEnds ==
    /\ Fault("session")
    /\ inbox' = {}
    /\ \/ session = "listening" /\ session' = "lost" /\ UNCHANGED attempt
       \/ attempt = "listening" /\ attempt' = "lost" /\ UNCHANGED session
    /\ UNCHANGED <<row, waits, rpc, recheck, closed, unheard>>

-----------------------------------------------------------------------------
(* #onLost, #scheduleReconnect, #reconnect, #recheck, onModuleDestroy. *)

ScheduleReconnect == rpc' = IF closed THEN "none" ELSE "timer"

\* The error event of the installed client; a query it was running fails with it.
OnLost ==
    /\ session = "lost"
    /\ session' = "none"
    /\ ScheduleReconnect
    /\ recheck' = NoRun
    /\ UNCHANGED <<row, waits, attempt, inbox, closed, unheard, faults>>

\* The error event of a client that is not installed.
AttemptErrors ==
    /\ attempt = "lost"
    /\ attempt' = "dead"
    /\ UNCHANGED <<row, waits, session, rpc, recheck, inbox, closed, unheard, faults>>

Timer ==
    /\ rpc = "timer"
    /\ rpc' = "listen"
    /\ UNCHANGED <<row, waits, session, attempt, recheck, inbox, closed, unheard, faults>>

\* connect and LISTEN
Listen ==
    /\ rpc = "listen"
    /\ attempt' = "listening" /\ rpc' = "install"
    /\ UNCHANGED <<row, waits, session, recheck, inbox, closed, unheard, faults>>

ListenFails ==
    /\ rpc = "listen"
    /\ Fault("session")
    /\ ScheduleReconnect
    /\ UNCHANGED <<row, waits, session, attempt, recheck, inbox, closed, unheard>>

\* Mutated Install: onModuleDestroy is not looked at.
InstallClosed ==
    /\ rpc = "install"
    /\ attempt' = "none"
    /\ IF attempt = "dead" THEN ScheduleReconnect /\ UNCHANGED <<session, recheck, inbox>>
       ELSE /\ session' = attempt /\ rpc' = "none"
            /\ recheck' = {waits[q] : q \in Reqs} \ {NoRun}
            /\ UNCHANGED inbox
    /\ UNCHANGED <<row, waits, closed, unheard, faults>>

\* After the LISTEN: end it, try again, or install it and ask about the waited-on runs.
Install ==
    /\ rpc = "install"
    /\ attempt' = "none"
    /\ IF closed THEN rpc' = "none" /\ inbox' = {} /\ UNCHANGED <<session, recheck>>
       ELSE IF attempt = "dead" THEN ScheduleReconnect /\ UNCHANGED <<session, recheck, inbox>>
       ELSE /\ session' = attempt /\ rpc' = "none"
            /\ recheck' = {waits[q] : q \in Reqs} \ {NoRun}
            /\ UNCHANGED inbox
    /\ UNCHANGED <<row, waits, closed, unheard, faults>>

\* Mutated Recheck: the answer wakes nobody.
RecheckQuiet ==
    /\ recheck # NoRun /\ session = "listening"
    /\ recheck' = NoRun
    /\ UNCHANGED <<row, waits, session, attempt, rpc, inbox, closed, unheard, faults>>

\* The re-check answers.
Recheck ==
    /\ recheck # NoRun /\ session = "listening"
    /\ Wake(recheck \cap Terminal)
    /\ recheck' = NoRun
    /\ UNCHANGED <<row, session, attempt, rpc, inbox, closed, unheard, faults>>

\* The re-check fails: its waiters wake on their own timeouts.
RecheckFails ==
    /\ recheck # NoRun
    /\ Fault("session")
    /\ unheard' = unheard \cup recheck
    /\ recheck' = NoRun
    /\ UNCHANGED <<row, waits, session, attempt, rpc, inbox, closed>>

\* onModuleDestroy
Destroy ==
    /\ ~closed
    /\ Fault("stop")
    /\ closed' = TRUE
    /\ rpc' = IF rpc = "timer" THEN "none" ELSE rpc
    /\ session' = "none" /\ inbox' = {} /\ recheck' = NoRun
    /\ UNCHANGED <<row, waits, attempt, unheard>>

WaiterNext ==
    \/ \E q \in Reqs : Timeout(q) \/ Publish(q) \/ PublishLost(q) \/ Deliver(q)
    \/ SessionEnds \/ OnLost \/ AttemptErrors \/ Timer \/ Listen \/ ListenFails
    \/ Install \/ Recheck \/ RecheckFails \/ Destroy

\* The event loop runs what is due, the worker and the database answer; a waiter's own
\* timeout is left out, so that a wake-up is not owed to it.
WaiterFairness ==
    /\ \A q \in Reqs : WF_waiterV(Publish(q)) /\ WF_waiterV(Deliver(q))
    /\ WF_waiterV(OnLost) /\ WF_waiterV(AttemptErrors) /\ WF_waiterV(Timer)
    /\ WF_waiterV(Listen) /\ WF_waiterV(Install) /\ WF_waiterV(Recheck)
=============================================================================
