---------------------------- MODULE RunAbstract -----------------------------
(***************************************************************************)
(* What whoever looks at a run from outside may rely on: the status the    *)
(* API shows, the bytes it has accepted, whether the log is sealed by a    *)
(* stored checksum, and whether the results are there.  No actors, no      *)
(* queue, no locks and no faults: RunLifecycle implements this.            *)
(***************************************************************************)
EXTENDS Integers

VARIABLES
    status, accepted, sealed, results,
    unsure      \* whoever sealed the log does not know that it is sealed

vars == <<status, accepted, sealed, results, unsure>>

Init == /\ status = "absent" /\ accepted = 0
        /\ sealed = FALSE /\ results = FALSE /\ unsure = FALSE

\* An uploaded bundle is sealed from the start, a live run is open.
Upload == status = "absent" /\ status' = "pending" /\ sealed' = TRUE
          /\ UNCHANGED <<accepted, results, unsure>>

Open == status = "absent" /\ status' = "running"
        /\ UNCHANGED <<accepted, sealed, results, unsure>>

\* Nobody knows of a seal: the log may be taken for one that is still open.
MayReopen == ~sealed \/ unsure

\* Bytes are accepted by an open run only.
Accept == status = "running" /\ MayReopen /\ accepted' = accepted + 1
          /\ UNCHANGED <<status, sealed, results, unsure>>

\* Somebody takes the run to close it or to parse it.  A run that ended
\* incomplete may be taken again by a job that was delivered twice.
Take == status \in {"pending", "running", "incomplete"} /\ status' = "parsing"
        /\ UNCHANGED <<accepted, sealed, results, unsure>>

\* A close that failed gives the run back; never once it knows its log is sealed,
\* and never a run that has results.
Reopen == status = "parsing" /\ MayReopen /\ ~results /\ status' = "running"
          /\ UNCHANGED <<accepted, sealed, results, unsure>>

\* The checksum is stored, for a log that has bytes: once, and once more by
\* somebody who does not know of the first.
Seal == status \in {"parsing", "failed"} \cup (IF sealed THEN {"incomplete"} ELSE {})
        /\ MayReopen /\ accepted > 0
        /\ sealed' = TRUE /\ unsure' \in BOOLEAN
        /\ UNCHANGED <<status, accepted, results>>

\* The results of a sealed log are committed once, together with the status.
Finish == status \in {"running", "parsing", "incomplete"} /\ sealed /\ ~results
          /\ (status = "running" => unsure)
          /\ results' = TRUE /\ status' \in {"complete", "incomplete"}
          /\ UNCHANGED <<accepted, sealed, unsure>>

\* No more results are to be had from a run nobody knows to be sealed.
GiveUp == status \in {"running", "parsing"} /\ MayReopen /\ status' = "incomplete"
          /\ UNCHANGED <<accepted, sealed, results, unsure>>

\* Anything but a decided run can fail, an open one too: a close that took too long
\* was queued by the sweeper, and then gave the run back.
Fail == status \notin {"absent", "complete", "failed"} /\ status' = "failed"
        /\ UNCHANGED <<accepted, sealed, results, unsure>>

Next == Upload \/ Open \/ Accept \/ Take \/ Reopen \/ Seal \/ Finish \/ GiveUp \/ Fail

Spec == Init /\ [][Next]_vars
=============================================================================
