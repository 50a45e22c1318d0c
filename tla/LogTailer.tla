----------------------------- MODULE LogTailer ------------------------------
(***************************************************************************)
(* How the on-prem runner's SimulationLogTailer copies simulation.log into *)
(* a live run: flushes started by a timer and by stop(), each of which     *)
(* waits for the read under way and then reads what the file has, and the  *)
(* RunnerLiveSink that stores each piece under its offset and then moves   *)
(* the run's cursor by a compare-and-set.                                  *)
(*                                                                         *)
(* Three offsets are kept apart: the tailer's, the sink's and the row's.   *)
(* One action is what the event loop runs between two awaits.  The file    *)
(* only grows; a piece is known by its offset and length.                  *)
(*                                                                         *)
(* RunnerJob has the executor that starts and stops the tailer.  The names *)
(* of the two modules are disjoint, so that both can be extended.          *)
(***************************************************************************)
EXTENDS Naturals

CONSTANTS
    Flushes,     \* flush calls of the timer that may be under way
    StopFlush,   \* the flush of stop()
    MaxBytes,    \* bound on the length of the file
    TailFaults,  \* the failures that may happen
    None         \* no read is under way

TailFaultSet == {"error", "sweep", "unseen"}

ASSUME TailerAssumption ==
    /\ MaxBytes \in Nat /\ TailFaults \subseteq TailFaultSet
    /\ StopFlush \notin Flushes /\ None \notin Flushes \cup {StopFlush}

VARIABLES
    size, ended,              \* simulation.log; Gatling has ended
    timer, tOffset, reading,  \* the tailer: its timer, #offset, #reading
    failure,                  \* #failure
    result,                   \* what stop() answered
    fpc, waitOn, foff, fend, raw, key, len, exp,  \* flush calls
    sOffset,                  \* #offset of the sink
    open, cursor, chunk,      \* the run and its chunks
    overlap,                  \* history: two reads were under way at once
    unseen                    \* history: the last look at the file did not find it

fileV    == <<size, ended>>
tailV    == <<timer, tOffset, reading, failure, result>>
readV    == <<waitOn, foff, fend, raw, key, len, exp>>
streamV  == <<open, cursor, chunk>>
tailVars == <<fileV, tailV, fpc, readV, sOffset, streamV, overlap, unseen>>

Calls == Flushes \cup {StopFlush}
Sizes == 0..MaxBytes
Reading == {"stat", "chunk", "put", "advance"}

TailInit ==
    /\ size = 0 /\ ended = FALSE
    /\ timer = TRUE /\ tOffset = 0 /\ reading = None
    /\ failure = "none" /\ result = "none"
    /\ fpc = [f \in Calls |-> "free"] /\ waitOn = [f \in Calls |-> None]
    /\ foff = [f \in Calls |-> 0] /\ fend = [f \in Calls |-> 0] /\ raw = [f \in Calls |-> 0]
    /\ key = [f \in Calls |-> 0] /\ len = [f \in Calls |-> 0] /\ exp = [f \in Calls |-> 0]
    /\ sOffset = 0
    /\ open = TRUE /\ cursor = 0 /\ chunk = [o \in 0..MaxBytes |-> 0]
    /\ overlap = FALSE /\ unseen = FALSE

Set(v, f, x) == [v EXCEPT ![f] = x]

-----------------------------------------------------------------------------
(* The file, and everybody else who may close the run. *)

Grow ==
    /\ ~ended /\ size < MaxBytes
    /\ size' = size + 1
    /\ UNCHANGED <<ended, tailV, fpc, readV, sOffset, streamV, overlap, unseen>>

GatlingEnds ==
    /\ ~ended /\ ended' = TRUE
    /\ UNCHANGED <<size, tailV, fpc, readV, sOffset, streamV, overlap, unseen>>

RunSwept ==
    /\ open /\ "sweep" \in TailFaults
    /\ open' = FALSE
    /\ UNCHANGED <<fileV, tailV, fpc, readV, sOffset, cursor, chunk, overlap, unseen>>

-----------------------------------------------------------------------------
(* SimulationLogTailer.flush *)

\* The calls W go on to read, the last of them as #reading.
BeginReads(W, pcs) ==
    /\ fpc' = [f \in Calls |-> IF f \in W THEN "stat" ELSE pcs[f]]
    /\ reading' \in IF W = {} THEN {None} ELSE W
    /\ overlap' = (overlap \/ \E f, g \in Calls : f # g /\ {fpc'[f], fpc'[g]} \subseteq Reading)

\* #rememberFailure: the first failure stays, and the timer is cleared.
Remember(err) ==
    /\ failure' = IF failure = "none" THEN err ELSE failure
    /\ timer' = FALSE

FlushBegin(f) ==
    /\ fpc[f] = "free"
    /\ failure = "none"
    /\ IF reading # None
       THEN /\ fpc' = Set(fpc, f, "wait") /\ waitOn' = Set(waitOn, f, reading)
            /\ UNCHANGED <<reading, overlap>>
       ELSE BeginReads({f}, fpc) /\ UNCHANGED waitOn

Tick(f) ==
    /\ f \in Flushes /\ timer
    /\ FlushBegin(f)
    /\ UNCHANGED <<fileV, timer, tOffset, failure, result, foff, fend, raw, key, len, exp, sOffset,
                   streamV, unseen>>

\* Mutated StopTailer: the last flush is not made.
StopAtOnce ==
    /\ ended /\ result = "none"
    /\ timer' = FALSE
    /\ result' = IF failure # "none" THEN "failed" ELSE "ok"
    /\ UNCHANGED <<fileV, tOffset, reading, failure, fpc, readV, sOffset, streamV, overlap, unseen>>

\* stop(), once Gatling has ended: no more ticks, and one more flush.
StopTailer ==
    /\ ended /\ result = "none"
    /\ timer' = FALSE
    /\ IF failure # "none"
       THEN result' = "failed" /\ UNCHANGED <<fpc, waitOn, reading, overlap>>
       ELSE result' = "stopping" /\ FlushBegin(StopFlush)
    /\ UNCHANGED <<fileV, tOffset, failure, foff, fend, raw, key, len, exp, sOffset, streamV, unseen>>

\* The promise of a read resolves: the call that made it clears #reading, and every
\* call that waited for it goes on, one after the other.
ReadDone(f) ==
    LET waiters == {g \in Calls : fpc[g] = "wait" /\ waitOn[g] = f}
    IN  /\ IF failure = "none" THEN BeginReads(waiters, Set(fpc, f, "free"))
           ELSE /\ fpc' = [g \in Calls |-> IF g \in waiters \cup {f} THEN "free" ELSE fpc[g]]
                /\ reading' = None /\ UNCHANGED overlap
        /\ result' = IF f = StopFlush THEN (IF failure = "none" THEN "ok" ELSE "failed")
                     ELSE IF StopFlush \in waiters /\ failure # "none" THEN "failed"
                     ELSE result

\* Mutated ReadFails: the calls that wait are not told.
ReadFailsAlone(f, err) ==
    /\ fpc' = Set(fpc, f, "free")
    /\ reading' = None
    /\ result' = IF f = StopFlush THEN "failed" ELSE result
    /\ IF f \in Flushes THEN Remember(err) ELSE UNCHANGED <<failure, timer>>
    /\ UNCHANGED overlap

\* It rejects: so do all of them, and the timer's calls remember it.
ReadFails(f, err) ==
    LET rejected == {f} \cup {g \in Calls : fpc[g] = "wait" /\ waitOn[g] = f}
    IN  /\ fpc' = [g \in Calls |-> IF g \in rejected THEN "free" ELSE fpc[g]]
        /\ reading' = None
        /\ result' = IF StopFlush \in rejected THEN "failed" ELSE result
        /\ IF rejected \cap Flushes # {} THEN Remember(err) ELSE UNCHANGED <<failure, timer>>
        /\ UNCHANGED overlap

-----------------------------------------------------------------------------
(* #readAvailable *)

\* No file is found, or its stat fails: the read ends without an error, and the next
\* one starts from the beginning.  (A file that is not there yet is one of size 0.)
NoFile(f) ==
    /\ fpc[f] = "stat" /\ "unseen" \in TailFaults
    /\ tOffset' = 0 /\ unseen' = TRUE
    /\ ReadDone(f)
    /\ UNCHANGED <<fileV, timer, failure, readV, sOffset, streamV>>

\* stat: nothing new, a file shorter than what was read, or bytes to read.
Stat(f) ==
    /\ fpc[f] = "stat" /\ unseen' = FALSE
    /\ LET from == IF size < tOffset THEN 0 ELSE tOffset
       IN  /\ tOffset' = from
           /\ IF size = from
              THEN ReadDone(f) /\ UNCHANGED <<foff, fend>>
              ELSE /\ fpc' = Set(fpc, f, "chunk")
                   /\ foff' = Set(foff, f, from) /\ fend' = Set(fend, f, size)
                   /\ UNCHANGED <<reading, result, overlap>>
    /\ UNCHANGED <<fileV, timer, failure, waitOn, raw, key, len, exp, sOffset, streamV>>

\* The stream has been read to its end.
StreamEnd(f) ==
    /\ fpc[f] = "chunk" /\ foff[f] = fend[f]
    /\ ReadDone(f)
    /\ UNCHANGED <<fileV, timer, tOffset, failure, readV, sOffset, streamV, unseen>>

\* The next n bytes reach appendAt: all of them known, a gap, or a piece to store
\* under the sink's offset.
Chunk(f, n) ==
    LET known == IF foff[f] < sOffset THEN sOffset - foff[f] ELSE 0 IN
    /\ fpc[f] = "chunk" /\ foff[f] + n <= fend[f]
    /\ CASE known >= n ->
              /\ tOffset' = tOffset + n /\ foff' = Set(foff, f, foff[f] + n)
              /\ UNCHANGED <<fpc, reading, failure, timer, result, overlap, raw, key, len>>
         [] known < n /\ foff[f] > sOffset ->
              ReadFails(f, "gap") /\ UNCHANGED <<tOffset, foff, raw, key, len>>
         [] OTHER ->
              /\ fpc' = Set(fpc, f, "put")
              /\ raw' = Set(raw, f, n) /\ len' = Set(len, f, n - known) /\ key' = Set(key, f, sOffset)
              /\ UNCHANGED <<tOffset, foff, reading, failure, timer, result, overlap>>
    /\ UNCHANGED <<fileV, waitOn, fend, exp, sOffset, streamV, unseen>>

-----------------------------------------------------------------------------
(* RunnerLiveSink.append *)

\* The chunk is stored; the offset of the compare-and-set is read only now.
Put(f) ==
    /\ fpc[f] = "put"
    /\ chunk' = [chunk EXCEPT ![key[f]] = len[f]]
    /\ exp' = Set(exp, f, sOffset)
    /\ fpc' = Set(fpc, f, "advance")
    /\ UNCHANGED <<fileV, tailV, waitOn, foff, fend, raw, key, len, sOffset, open, cursor, overlap, unseen>>

\* advanceOffset; then the sink and the tailer count.
Advance(f) ==
    /\ fpc[f] = "advance"
    /\ IF open /\ cursor = exp[f]
       THEN /\ cursor' = exp[f] + len[f] /\ sOffset' = sOffset + len[f]
            /\ tOffset' = tOffset + raw[f] /\ foff' = Set(foff, f, foff[f] + raw[f])
            /\ fpc' = Set(fpc, f, "chunk")
            /\ UNCHANGED <<reading, failure, timer, result, overlap>>
       ELSE ReadFails(f, "rejected") /\ UNCHANGED <<cursor, sOffset, tOffset, foff>>
    /\ UNCHANGED <<fileV, waitOn, fend, raw, key, len, exp, open, chunk, unseen>>

\* The file, the object store or the database fails; the cursor may have moved, and
\* only the answer is lost.  (A failure to find or stat the file is NoFile.)
ReadError(f) ==
    /\ fpc[f] \in {"chunk", "put", "advance"} /\ "error" \in TailFaults
    /\ ReadFails(f, "error")
    /\ \/ UNCHANGED cursor
       \/ fpc[f] = "advance" /\ open /\ cursor = exp[f] /\ cursor' = exp[f] + len[f]
    /\ UNCHANGED <<fileV, tOffset, readV, sOffset, open, chunk, unseen>>

-----------------------------------------------------------------------------

Read(f) == NoFile(f) \/ Stat(f) \/ StreamEnd(f) \/ (\E n \in 1..MaxBytes : Chunk(f, n)) \/ Put(f)
           \/ Advance(f) \/ ReadError(f)
TailNext == Grow \/ GatlingEnds \/ RunSwept \/ StopTailer \/ (\E f \in Calls : Tick(f) \/ Read(f))

TailSpec == TailInit /\ [][TailNext]_tailVars

\* Gatling ends, the executor stops the tailer, and reads go on.
TailFairSpec ==
    /\ TailSpec
    /\ WF_tailVars(GatlingEnds) /\ WF_tailVars(StopTailer) /\ \A f \in Calls : WF_tailVars(Read(f))

-----------------------------------------------------------------------------
(* Correctness. *)

\* The type of the state.
TailTypeOK ==
    /\ size \in Sizes /\ ended \in BOOLEAN
    /\ timer \in BOOLEAN /\ tOffset \in Nat /\ reading \in Calls \cup {None}
    /\ failure \in {"none", "gap", "rejected", "error"}
    /\ result \in {"none", "stopping", "ok", "failed"}
    /\ fpc \in [Calls -> {"free", "wait"} \cup Reading] /\ waitOn \in [Calls -> Calls \cup {None}]
    /\ foff \in [Calls -> Sizes] /\ fend \in [Calls -> Sizes] /\ raw \in [Calls -> Sizes]
    /\ key \in [Calls -> Nat] /\ len \in [Calls -> Sizes] /\ exp \in [Calls -> Nat]
    /\ sOffset \in Nat /\ open \in BOOLEAN /\ cursor \in Nat
    /\ chunk \in [0..MaxBytes -> Sizes] /\ overlap \in BOOLEAN /\ unseen \in BOOLEAN

\* The chunks hold the first n bytes of the file, each once.
Holds(n) ==
    /\ \A b \in 0..(MaxBytes - 1) :
         b < n => \E o \in 0..b : b < o + chunk[o] /\ (\A p \in 0..b : b < p + chunk[p] => p = o)
    /\ \A o \in 0..MaxBytes : chunk[o] > 0 => o + chunk[o] <= n

\* stop() answers without an error only if the run holds the file up to its cursor, each
\* byte once, and that is all of it unless the last look did not find the file, whatever
\* was written, polled or swept meanwhile, if no two reads ran at once.
StoppedHasAll == result = "ok" /\ ~overlap => Holds(cursor) /\ (unseen \/ cursor = size)

\* "A run's chunks tile `[0, stream_offset)` with no gap" (live-chunks.ts and the fold
\* owner, of offset negotiation): every byte up to the cursor is in a stored chunk.
\* FALSE of the runner's sink: when two reads overlap, a shorter chunk replaces the one
\* the cursor has counted, or the cursor moves twice for one chunk.
StoredToCursor == \A b \in 0..(cursor - 1) : \E o \in 0..b : b < o + chunk[o]

\* stop() answers, after a flush that waits for a read that is under way.
StopAnswers == <>(result \in {"ok", "failed"})
=============================================================================
