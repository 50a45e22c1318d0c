----------------------------- MODULE LiveStream -----------------------------
(***************************************************************************)
(* The bytes of one live run: a client that tails a simulation log and     *)
(* sends it in chunks, the API's stream handler, the per-offset chunk      *)
(* objects and the cursor on the run row, the close or sweep that          *)
(* assembles them into one log, and the fold owner that reads them while   *)
(* they arrive.                                                            *)
(*                                                                         *)
(* The client always sends the true bytes of its file, so a chunk object   *)
(* is known by its offset and its length, and a log by its length: the     *)
(* object of length n holds bytes 0..n-1 of the file.  A length of 0       *)
(* stands for "no such object".  At most one close or sweep has the run    *)
(* claimed at a time (RunLifecycle, SoleClaimant), so there is one         *)
(* assembler here.                                                         *)
(***************************************************************************)
EXTENDS Integers

CONSTANTS
    Requests,        \* stream requests that can be in flight at once
    MaxBytes,        \* length of the file the client tails
    MaxBundleBytes,  \* the configured cap on a live run's bytes
    FaultKinds,      \* the failures that may happen
    MaxFaults,       \* bound on their number
    NoRequest        \* the client waits for no request

FaultSet == {"timeout", "rechunk", "put", "db", "crash", "finalize", "get", "delete"}

ASSUME StreamAssumption ==
    /\ MaxBytes \in Nat /\ MaxBundleBytes \in Nat /\ MaxFaults \in Nat
    /\ FaultKinds \subseteq FaultSet
    /\ NoRequest \notin Requests

VARIABLES
    \* the run row and the object store
    status, cursor, chunk, log, recorded,
    \* history: "rechunk", an offset was sent again with another length; "reopen", a
    \* close failed after its log was written, and its run is open again
    mishap,
    \* the client: the next byte to send, the request it waits for, the length
    \* it last read at each offset, whether it has asked for the close
    next, waiting, sent, closed,
    \* stream requests on the server
    rpc, roff, rlen, rnext,
    \* the assembler: close or sweep
    apc, amode, akeys, aread,
    \* the fold owner: bytes fetched so far and the keys it has listed
    fetched, fkeys, fpc,
    faults

rowV    == <<status, cursor, recorded, mishap>>
storeV  == <<chunk, log>>
clientV == <<next, waiting, sent, closed>>
reqV    == <<rpc, roff, rlen, rnext>>
asmV    == <<apc, amode, akeys, aread>>
foldV   == <<fetched, fkeys, fpc>>
vars    == <<rowV, storeV, clientV, reqV, asmV, foldV, faults>>

Offsets == 0..(MaxBytes - 1)
Lengths == 0..MaxBytes

Init ==
    /\ status = "running" /\ cursor = 0 /\ recorded = 0 /\ mishap = {}
    /\ chunk = [o \in Offsets |-> 0] /\ log = 0
    /\ next = 0 /\ waiting = NoRequest /\ closed = FALSE
    /\ sent = [o \in Offsets |-> 0]
    /\ rpc = [r \in Requests |-> "free"]
    /\ roff = [r \in Requests |-> 0]
    /\ rlen = [r \in Requests |-> 0]
    /\ rnext = [r \in Requests |-> 0]
    /\ apc = "idle" /\ amode = "close" /\ akeys = {} /\ aread = 0
    /\ fetched = 0 /\ fkeys = {} /\ fpc = "idle"
    /\ faults = 0

Fault(kind) ==
    /\ kind \in FaultKinds
    /\ faults < MaxFaults
    /\ faults' = faults + 1

NoFault == UNCHANGED faults

-----------------------------------------------------------------------------
(* LiveChunkStore *)

Keys == {o \in Offsets : chunk[o] > 0}

\* #concatenateChecked over the keys K, in order, from byte `start`: the first
\* key is `start` and every other key is where the one before it ends.
Tiles(K, start) ==
    K # {} =>
        /\ start \in K
        /\ \A k \in K : k >= start
        /\ \A k \in K \ {start} : \E j \in K : j + chunk[j] = k
        /\ \A j, k \in K : j < k => j + chunk[j] <= k

\* Where the concatenation of K ends.
End(K, start) ==
    IF K = {} THEN start
    ELSE CHOOSE e \in 0..(MaxBytes + MaxBytes) :
            \E k \in K : e = k + chunk[k] /\ \A j \in K : j <= k

\* What finalize can assemble into a log.
Whole(K) == K # {} /\ Tiles(K, 0)

-----------------------------------------------------------------------------
(* The client: RunTailer.pumpOnce / drain over LiveClient.stream. *)

\* Read the file from `next` and send what is there.  A retry sends the same
\* bytes; after giving up, the next tick reads again and may find more of them.
Send(r, len) ==
    /\ waiting = NoRequest /\ ~closed /\ rpc[r] = "free"
    /\ next < MaxBytes /\ next + len <= MaxBytes
    /\ \/ sent[next] \in {0, len}
       \/ "rechunk" \in FaultKinds /\ sent[next] < len
    /\ sent' = [sent EXCEPT ![next] = len]
    /\ mishap' = IF sent[next] \in {0, len} THEN mishap ELSE mishap \cup {"rechunk"}
    /\ waiting' = r
    /\ rpc' = [rpc EXCEPT ![r] = "read"]
    /\ roff' = [roff EXCEPT ![r] = next]
    /\ rlen' = [rlen EXCEPT ![r] = len]
    /\ UNCHANGED <<next, closed, rnext, status, cursor, recorded, storeV, asmV, foldV, faults>>

\* The answer arrives: 202 and 409 both carry the offset to go on from.
Receive(r) ==
    /\ rpc[r] \in {"answered", "error"}
    /\ rpc' = [rpc EXCEPT ![r] = "free"]
    /\ IF waiting = r
       THEN /\ waiting' = NoRequest
            /\ next' = IF rpc[r] = "answered" THEN rnext[r] ELSE next
       ELSE UNCHANGED <<waiting, next>>
    /\ UNCHANGED <<sent, closed, roff, rlen, rnext, rowV, storeV, asmV, foldV, faults>>

\* The client stops waiting; the server does not learn of it.
GiveUp ==
    /\ waiting # NoRequest /\ Fault("timeout")
    /\ waiting' = NoRequest
    /\ UNCHANGED <<next, sent, closed, reqV, rowV, storeV, asmV, foldV>>

\* drain ended, or gave up: the client asks for the close and sends no more.
AskClose ==
    /\ waiting = NoRequest /\ ~closed
    /\ closed' = TRUE
    /\ UNCHANGED <<next, waiting, sent, reqV, rowV, storeV, asmV, foldV, faults>>

-----------------------------------------------------------------------------
(* LiveService.stream *)

Answer(r, n) ==
    /\ rpc' = [rpc EXCEPT ![r] = "answered"]
    /\ rnext' = [rnext EXCEPT ![r] = n]

RGoto(r, pc) == rpc' = [rpc EXCEPT ![r] = pc] /\ UNCHANGED rnext

\* Mutated StreamRead: the cursor moves before the chunk is stored.
StreamReadAdvances(r) ==
    /\ rpc[r] = "read"
    /\ IF status # "running" \/ roff[r] # cursor
       THEN Answer(r, cursor)
       ELSE RGoto(r, IF roff[r] + rlen[r] > MaxBundleBytes THEN "error" ELSE "advance")
    /\ UNCHANGED <<roff, rlen, clientV, rowV, storeV, asmV, foldV, faults>>

\* Mutated StreamRead: the cap is on the chunk, not on the run.
StreamReadChunkCap(r) ==
    /\ rpc[r] = "read"
    /\ IF status # "running" \/ roff[r] # cursor
       THEN Answer(r, cursor)
       ELSE RGoto(r, IF rlen[r] > MaxBundleBytes THEN "error" ELSE "put")
    /\ UNCHANGED <<roff, rlen, clientV, rowV, storeV, asmV, foldV, faults>>

\* The cursor is read before any write: a closed run and a gap are refused, a
\* replay is answered without writing, and the size cap is an error.
StreamRead(r) ==
    /\ rpc[r] = "read"
    /\ IF status # "running" \/ roff[r] # cursor
       THEN Answer(r, cursor)
       ELSE RGoto(r, IF roff[r] + rlen[r] > MaxBundleBytes THEN "error" ELSE "put")
    /\ UNCHANGED <<roff, rlen, clientV, rowV, storeV, asmV, foldV, faults>>

\* chunks.put under the key of the offset, whatever is there.
StreamPut(r) ==
    /\ rpc[r] = "put"
    /\ chunk' = [chunk EXCEPT ![roff[r]] = rlen[r]]
    /\ RGoto(r, "advance")
    /\ UNCHANGED <<log, roff, rlen, clientV, rowV, asmV, foldV, faults>>

\* advanceOffset, a compare-and-set on status and cursor.
StreamAdvance(r) ==
    /\ rpc[r] = "advance"
    /\ IF status = "running" /\ cursor = roff[r]
       THEN cursor' = roff[r] + rlen[r] /\ Answer(r, roff[r] + rlen[r])
       ELSE RGoto(r, "reread") /\ UNCHANGED cursor
    /\ UNCHANGED <<status, recorded, mishap, roff, rlen, clientV, storeV, asmV, foldV, faults>>

\* Mutated StreamReread: a lost race is taken for a rival's identical write.
StreamAssumeRival(r) ==
    /\ rpc[r] = "reread"
    /\ Answer(r, roff[r] + rlen[r])
    /\ UNCHANGED <<roff, rlen, clientV, rowV, storeV, asmV, foldV, faults>>

\* Lost the race: answer with the cursor as it is now, moved past or not.
StreamReread(r) ==
    /\ rpc[r] = "reread"
    /\ Answer(r, cursor)
    /\ UNCHANGED <<roff, rlen, clientV, rowV, storeV, asmV, foldV, faults>>

\* The object store or the database fails, or the API process dies.
StreamError(r) ==
    /\ \/ rpc[r] = "put" /\ Fault("put")
       \/ rpc[r] \in {"read", "advance", "reread"} /\ Fault("db")
       \/ rpc[r] \in {"read", "put", "advance", "reread"} /\ Fault("crash")
    /\ RGoto(r, "error")
    /\ UNCHANGED <<roff, rlen, clientV, rowV, storeV, asmV, foldV>>

-----------------------------------------------------------------------------
(* LiveService.close and Sweeper.#assembleAbandoned over                   *)
(* LiveChunkStore.finalize.                                                *)

AGoto(pc) == apc' = pc

\* Mutated CloseClaim: assemble first, leave `running` last.
CloseWithoutClaim ==
    /\ apc = "idle" /\ closed /\ status = "running"
    /\ amode' = "close"
    /\ IF cursor = 0
       THEN status' = "incomplete" /\ UNCHANGED apc
       ELSE AGoto("exists") /\ UNCHANGED status
    /\ UNCHANGED <<cursor, recorded, mishap, akeys, aread, storeV, clientV, reqV, foldV, faults>>

CloseClaim ==
    /\ apc = "idle" /\ closed /\ status = "running"
    /\ amode' = "close"
    /\ IF cursor = 0
       THEN status' = "incomplete" /\ UNCHANGED apc
       ELSE status' = "parsing" /\ AGoto("exists")
    /\ UNCHANGED <<cursor, recorded, mishap, akeys, aread, storeV, clientV, reqV, foldV, faults>>

SweepClaim ==
    /\ apc = "idle" /\ status = "running"
    /\ amode' = "sweep"
    /\ IF cursor = 0
       THEN status' = "incomplete" /\ UNCHANGED apc
       ELSE status' = "parsing" /\ AGoto("exists")
    /\ UNCHANGED <<cursor, recorded, mishap, akeys, aread, storeV, clientV, reqV, foldV, faults>>

\* blobs.exists: a log that is there is never assembled again.
FinalizeExists ==
    /\ apc = "exists"
    /\ AGoto(IF log > 0 THEN "clean" ELSE "list")
    /\ UNCHANGED <<amode, akeys, aread, rowV, storeV, clientV, reqV, foldV, faults>>

\* The chunk keys, for the assembly or only for the clean-up.
FinalizeList ==
    /\ apc \in {"list", "clean"}
    /\ akeys' = Keys
    /\ AGoto(IF apc = "clean" THEN "delete" ELSE "assemble")
    /\ UNCHANGED <<amode, aread, rowV, storeV, clientV, reqV, foldV, faults>>

\* Fetch the listed chunks, check that they tile from 0, write the log.
FinalizeAssemble ==
    /\ apc = "assemble" /\ Whole(akeys)
    /\ log' = End(akeys, 0)
    /\ AGoto("delete")
    /\ UNCHANGED <<amode, akeys, aread, rowV, chunk, clientV, reqV, foldV, faults>>

\* Promise.allSettled over the deletes: any of them may fail and stay behind.
FinalizeDelete(o) ==
    /\ apc = "delete" /\ o \in akeys
    /\ akeys' = akeys \ {o}
    /\ \/ chunk' = [chunk EXCEPT ![o] = 0] /\ NoFault
       \/ UNCHANGED chunk /\ Fault("delete")
    /\ UNCHANGED <<apc, amode, aread, log, rowV, clientV, reqV, foldV>>

FinalizeDone ==
    /\ apc = "delete" /\ akeys = {}
    /\ AGoto("get")
    /\ UNCHANGED <<amode, akeys, aread, rowV, storeV, clientV, reqV, foldV, faults>>

\* blobs.get and, on close, its checksum.
CloseGet ==
    /\ apc = "get" /\ amode = "close" /\ log > 0
    /\ aread' = log
    /\ AGoto("record")
    /\ UNCHANGED <<amode, akeys, rowV, storeV, clientV, reqV, foldV, faults>>

\* The sweep cuts the log to whole records and stores it again.
SweepCut(n) ==
    /\ apc = "get" /\ amode = "sweep" /\ log > 0 /\ n \in 0..log
    /\ IF n = 0
       THEN status' = "incomplete" /\ AGoto("idle") /\ UNCHANGED <<log, aread>>
       ELSE log' = n /\ aread' = n /\ AGoto("record") /\ UNCHANGED status
    /\ UNCHANGED <<cursor, recorded, mishap, amode, akeys, chunk, clientV, reqV, foldV, faults>>

\* finalizeLive: the checksum of the log that was read.
Record ==
    /\ apc = "record"
    /\ recorded' = aread
    /\ status' = "sealed"
    /\ AGoto("idle")
    /\ UNCHANGED <<cursor, mishap, amode, akeys, aread, storeV, clientV, reqV, foldV, faults>>

\* A step fails.  close() releases its claim, so the run is open again; the
\* sweep marks it incomplete, also when the checksum is stored and only the answer is
\* lost.  A gap in the chunks, and no chunk at all (nothing is written, so the read
\* after it finds no object), are errors without a fault.
AssembleError ==
    /\ \/ apc = "assemble" /\ ~Whole(akeys) /\ NoFault
       \/ apc \in {"exists", "list", "clean", "assemble"} /\ Fault("finalize")
       \/ apc \in {"get", "record"} /\ Fault("get")
    /\ status' = IF amode = "close" THEN "running" ELSE "incomplete"
    /\ mishap' = IF amode = "close" /\ log > 0 THEN mishap \cup {"reopen"} ELSE mishap
    /\ recorded' \in {recorded} \cup (IF apc = "record" THEN {aread} ELSE {})
    /\ AGoto("idle")
    /\ UNCHANGED <<cursor, amode, akeys, aread, storeV, clientV, reqV, foldV>>

\* The process dies: the run is stranded at parsing, and the pipeline fails it.
AssembleCrash ==
    /\ apc # "idle" /\ Fault("crash")
    /\ status' = "failed"
    /\ AGoto("idle")
    /\ UNCHANGED <<cursor, recorded, mishap, amode, akeys, aread, storeV, clientV, reqV, foldV>>

-----------------------------------------------------------------------------
(* LiveFoldOwner.#fold: readFrom(fetchedBytes), then advance the frontier. *)

FoldList ==
    /\ fpc = "idle" /\ status \in {"running", "parsing"}
    /\ fkeys' = {o \in Keys : o >= fetched}
    /\ fpc' = "get"
    /\ UNCHANGED <<fetched, rowV, storeV, clientV, reqV, asmV, faults>>

\* Mutated FoldGet: the frontier is a decode position inside the last chunk.
FoldGetDecoded ==
    /\ fpc = "get"
    /\ fpc' = "idle" /\ fkeys' = {}
    /\ fetched' = IF fkeys # {} /\ (\A k \in fkeys : chunk[k] > 0) /\ Tiles(fkeys, fetched)
                  THEN End(fkeys, fetched) - 1 ELSE fetched
    /\ UNCHANGED <<rowV, storeV, clientV, reqV, asmV, faults>>

\* A chunk deleted since the listing, or a gap, is an error that leaves the
\* frontier where it was.
FoldGet ==
    /\ fpc = "get"
    /\ fpc' = "idle" /\ fkeys' = {}
    /\ fetched' = IF (\A k \in fkeys : chunk[k] > 0) /\ Tiles(fkeys, fetched)
                  THEN End(fkeys, fetched) ELSE fetched
    /\ UNCHANGED <<rowV, storeV, clientV, reqV, asmV, faults>>

-----------------------------------------------------------------------------

Client == GiveUp \/ AskClose
          \/ \E r \in Requests : Receive(r) \/ \E len \in 1..MaxBytes : Send(r, len)
Server(r) == StreamRead(r) \/ StreamPut(r) \/ StreamAdvance(r) \/ StreamReread(r)
             \/ StreamError(r)
Assembler ==
    \/ CloseClaim \/ SweepClaim \/ FinalizeExists \/ FinalizeList \/ FinalizeAssemble
    \/ (\E o \in Offsets : FinalizeDelete(o)) \/ FinalizeDone \/ CloseGet
    \/ (\E n \in Lengths : SweepCut(n)) \/ Record \/ AssembleError \/ AssembleCrash
Fold == FoldList \/ FoldGet

Next == Client \/ (\E r \in Requests : Server(r)) \/ Assembler \/ Fold

Spec == Init /\ [][Next]_vars

-----------------------------------------------------------------------------
(* Correctness. *)

RequestPCs == {"free", "read", "put", "advance", "reread", "answered", "error"}
AssemblerPCs == {"idle", "exists", "list", "clean", "assemble", "delete", "get", "record"}

\* The type of the state.
TypeOK ==
    /\ status \in {"running", "parsing", "sealed", "incomplete", "failed"}
    /\ cursor \in Lengths /\ recorded \in Lengths /\ log \in Lengths
    /\ chunk \in [Offsets -> Lengths] /\ sent \in [Offsets -> Lengths]
    /\ next \in Lengths /\ waiting \in Requests \cup {NoRequest} /\ closed \in BOOLEAN
    /\ rpc \in [Requests -> RequestPCs]
    /\ roff \in [Requests -> Lengths] /\ rlen \in [Requests -> Lengths]
    /\ rnext \in [Requests -> Lengths]
    /\ apc \in AssemblerPCs /\ amode \in {"close", "sweep"}
    /\ akeys \subseteq Offsets /\ aread \in Lengths
    /\ fetched \in Lengths /\ fkeys \subseteq Offsets /\ fpc \in {"idle", "get"}
    /\ mishap \subseteq {"rechunk", "reopen"}
    /\ faults \in 0..MaxFaults

\* Byte b is in the object store.
Stored(b) == b < log \/ \E o \in Offsets : o <= b /\ b < o + chunk[o]

\* While a run is open or being assembled, every byte below its cursor is in the
\* object store (live.service.ts, "Everything up to `cursor` is already durably
\* stored"), unless the client cut the same bytes anew after giving up on a request or
\* a close failed after writing its log.
AcceptedIsStored ==
    status \in {"running", "parsing"} /\ amode = "close" /\ mishap = {} =>
        \A b \in Offsets : b < cursor => Stored(b)

\* A run closed by its client records a log that holds every accepted byte (unless as
\* above: a chunk that arrives before the second close is then deleted unread).
ClosedHoldsAccepted ==
    status = "sealed" /\ amode = "close" /\ mishap = {} => recorded >= cursor /\ log = recorded

\* The client never skips a byte the server has not accepted, through timeouts,
\* retries and answers that arrive out of order.
ClientNeverAhead ==
    next <= cursor /\ \A r \in Requests : rpc[r] = "answered" => rnext[r] <= cursor

\* The cap holds for the cursor and for the assembled log, although the check
\* reads a cursor that may be stale at the write.
WithinCap == cursor <= MaxBundleBytes /\ log <= MaxBundleBytes

\* The frontier of the fold is always at a boundary it can go on from: the next
\* accepted byte, if there is one, begins a chunk, unless the client cut the bytes anew.
FoldCanContinue ==
    status = "running" /\ log = 0 /\ "rechunk" \notin mishap /\ fetched < cursor
        => chunk[fetched] > 0
=============================================================================
