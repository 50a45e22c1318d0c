-------------------------- MODULE LiveStreamProofs --------------------------
(***************************************************************************)
(* Proofs about LiveStream, for any number of requests in flight, any file *)
(* and any faults.                                                         *)
(***************************************************************************)
EXTENDS LiveStream, WellFoundedInduction, TLAPS

\* The types of what the client and the stream handler exchange.
ExchangeType ==
    /\ cursor \in Nat /\ next \in Nat
    /\ rpc \in [Requests -> RequestPCs]
    /\ roff \in [Requests -> Nat] /\ rlen \in [Requests -> Nat] /\ rnext \in [Requests -> Nat]

AheadInv == ExchangeType /\ ClientNeverAhead

\* A step outside the exchange.
LEMMA AheadFrame ==
    ASSUME AheadInv, UNCHANGED <<cursor, next, rpc, roff, rlen, rnext>> PROVE AheadInv'
BY DEF AheadInv, ExchangeType, ClientNeverAhead

\* The client sends from where it is and goes on from where it is told.
LEMMA ClientAhead == ASSUME AheadInv, Client PROVE AheadInv'
<1> USE DEF AheadInv, ExchangeType, ClientNeverAhead, RequestPCs, rowV, reqV
<1>1. CASE GiveUp \/ AskClose
  BY <1>1, AheadFrame DEF GiveUp, AskClose
<1>2. ASSUME NEW r \in Requests, Receive(r) PROVE AheadInv'
  BY <1>2 DEF Receive
<1>3. ASSUME NEW r \in Requests, NEW len \in 1..MaxBytes, Send(r, len) PROVE AheadInv'
  BY <1>3 DEF Send
<1> QED
  BY <1>1, <1>2, <1>3 DEF Client

\* Every answer is a cursor value, and the cursor never goes back.
LEMMA ServerAhead == ASSUME AheadInv, NEW r \in Requests, Server(r) PROVE AheadInv'
<1> USE DEF AheadInv, ExchangeType, ClientNeverAhead, RequestPCs, rowV, clientV, Answer, RGoto
<1>1. CASE StreamRead(r)
  BY <1>1 DEF StreamRead
<1>2. CASE StreamPut(r)
  BY <1>2 DEF StreamPut
<1>3. CASE StreamAdvance(r)
  <2>1. CASE status = "running" /\ cursor = roff[r]
    <3>1. cursor' = roff[r] + rlen[r] /\ cursor' \in Nat /\ cursor <= cursor'
      BY <1>3, <2>1 DEF StreamAdvance
    <3>2. /\ UNCHANGED <<next, roff, rlen>>
          /\ rpc' = [rpc EXCEPT ![r] = "answered"] /\ rnext' = [rnext EXCEPT ![r] = cursor']
      BY <1>3, <2>1, <3>1 DEF StreamAdvance
    <3> QED
      BY <3>1, <3>2
  <2>2. CASE ~(status = "running" /\ cursor = roff[r])
    BY <1>3, <2>2 DEF StreamAdvance
  <2> QED
    BY <2>1, <2>2
<1>4. CASE StreamReread(r)
  BY <1>4 DEF StreamReread
<1>5. CASE StreamError(r)
  BY <1>5 DEF StreamError
<1> QED
  BY <1>1, <1>2, <1>3, <1>4, <1>5 DEF Server

\* The client never skips a byte that the server has not accepted: whatever answers
\* come late, of requests it gave up on or of rivals that lost the compare-and-set of
\* advanceOffset, each of them names an offset at or below the cursor, and the cursor
\* never goes back.
THEOREM NeverAhead == Spec => []ClientNeverAhead
<1>1. Init => AheadInv
  BY DEF Init, AheadInv, ExchangeType, ClientNeverAhead, RequestPCs
<1>2. AheadInv /\ [Next]_vars => AheadInv'
  <2> SUFFICES ASSUME AheadInv, [Next]_vars PROVE AheadInv'
    OBVIOUS
  <2>1. CASE Assembler \/ Fold
    BY <2>1, AheadFrame DEF Assembler, CloseClaim, SweepClaim, FinalizeExists, FinalizeList,
       FinalizeAssemble, FinalizeDelete, FinalizeDone, CloseGet, SweepCut, Record, AssembleError,
       AssembleCrash, Fold, FoldList, FoldGet, rowV, clientV, reqV
  <2>2. CASE UNCHANGED vars
    BY <2>2, AheadFrame DEF vars, rowV, clientV, reqV
  <2> QED
    BY <2>1, <2>2, ClientAhead, ServerAhead DEF Next
<1>3. AheadInv => ClientNeverAhead
  BY DEF AheadInv
<1> QED
  BY <1>1, <1>2, <1>3, PTL DEF Spec
-----------------------------------------------------------------------------
(* The objects and the log.                                                *)

\* A request that holds bytes to store.
Carrying == {"read", "put", "advance", "reread"}

\* A request carries bytes of the file, and one that writes has passed the checks of
\* StreamRead: it is within the cap, and the cursor was at its offset.
Requesting ==
    \A r \in Requests :
        /\ rpc[r] \in Carrying => 0 < rlen[r] /\ roff[r] + rlen[r] <= MaxBytes
        /\ rpc[r] \in {"put", "advance"} =>
              roff[r] + rlen[r] <= MaxBundleBytes /\ roff[r] <= cursor

\* A chunk is bytes of the file within the cap, and begins at the cursor or before it.
Chunked ==
    \A o \in Offsets : chunk[o] > 0 =>
        o + chunk[o] <= MaxBytes /\ o + chunk[o] <= MaxBundleBytes /\ o <= cursor

\* Where the assembler is: the run is claimed, there is no log until the assembly has
\* written one, the listed chunks stay until then, and the log that is read is recorded.
Assembling ==
    /\ apc # "idle" => status = "parsing"
    /\ apc \in {"list", "assemble"} => log = 0
    /\ apc \in {"clean", "delete", "get", "record"} => log > 0
    /\ apc = "assemble" => akeys \subseteq Keys
    /\ apc = "record" => aread = log

\* Every cut of the file is the one the client last made.
SameCut ==
    /\ \A o \in Offsets : chunk[o] \in {0, sent[o]}
    /\ \A r \in Requests : rpc[r] \in {"read", "put", "advance"} => rlen[r] = sent[roff[r]]

\* The chunks below the cursor go on to it, each from where another ends.
Chained ==
    \A o \in Offsets : o < cursor /\ chunk[o] > 0 =>
        \/ o + chunk[o] = cursor
        \/ o + chunk[o] < cursor /\ chunk[o + chunk[o]] > 0

\* They hold every byte below it.
Covered ==
    \A b \in Offsets : b < cursor => \E o \in Offsets : o <= b /\ b < o + chunk[o]

\* A write that the cursor depends on has been made.
Written ==
    \A r \in Requests :
        rpc[r] = "advance" \/ (rpc[r] = "put" /\ roff[r] < cursor) => chunk[roff[r]] > 0

\* The fold is at a boundary of the chain, or past the chunk at its end.
Frontier ==
    /\ fetched < cursor => chunk[fetched] > 0
    /\ fetched > cursor => chunk[cursor] > 0 /\ fetched = cursor + chunk[cursor]

Tiled == Chained /\ Covered /\ Written /\ Frontier

\* The chunks, as long as no cut was made anew and no log has replaced them.
Tiling == "rechunk" \notin mishap => SameCut /\ (log = 0 => Tiled)

\* What a close has kept of the accepted bytes, when none has failed before it.
Keeping ==
    mishap = {} =>
        /\ status = "running" => log = 0
        /\ apc = "assemble" => {o \in Keys : o < cursor} \subseteq akeys
        /\ amode = "close" /\ status = "parsing" /\ log > 0 => log >= cursor
        /\ amode = "close" /\ status = "sealed" => recorded >= cursor /\ log = recorded

\* Every nonempty set of offsets has a greatest one.
LEMMA GreatestExists ==
    ASSUME NEW K, K \subseteq Offsets, K # {} PROVE \E k \in K : \A j \in K : j <= k
<1> DEFINE Less == OpToRel(<, Nat)
           S == {MaxBytes - k : k \in K}
<1>1. IsWellFoundedOn(Less, Nat)
  BY NatLessThanWellFounded, Zenon
<1>2. \A t, u \in Nat : u < t => <<u, t>> \in Less
  BY DEF OpToRel
<1> HIDE DEF Less
<1>3. S \subseteq Nat /\ S # {}
  BY StreamAssumption DEF Offsets
<1>4. PICK t \in S : \A u \in S : ~(<<u, t>> \in Less)
  BY <1>1, <1>3, WFMin
<1>5. PICK k \in K : t = MaxBytes - k
  OBVIOUS
<1>6. ASSUME NEW j \in K PROVE j <= k
  <2>1. MaxBytes - j \in S /\ MaxBytes - j \in Nat /\ t \in Nat /\ ~(MaxBytes - j < t)
    BY <1>2, <1>3, <1>4
  <2> QED
    BY <1>5, <2>1, StreamAssumption DEF Offsets
<1> QED
  BY <1>6

\* The concatenation of a nonempty set of chunks ends where the last of them does.
LEMMA EndIs ==
    ASSUME TypeOK, NEW K, K \subseteq Offsets, K # {}, NEW s
    PROVE  \E k \in K : End(K, s) = k + chunk[k] /\ \A j \in K : j <= k
<1>1. PICK k \in K : \A j \in K : j <= k
  BY GreatestExists
<1>2. k \in Offsets /\ chunk[k] \in Lengths
  BY DEF TypeOK
<1>3. k + chunk[k] \in 0..(MaxBytes + MaxBytes)
  BY <1>2, StreamAssumption DEF Offsets, Lengths
<1> QED
  BY <1>1, <1>3 DEF End

BoundInv == TypeOK /\ Requesting /\ Chunked /\ WithinCap /\ Assembling

\* A step that changes nothing.
LEMMA BoundFrame ==
    ASSUME BoundInv, UNCHANGED vars PROVE BoundInv'
BY DEF BoundInv, TypeOK, Requesting, Chunked, WithinCap, Assembling, Keys, vars, rowV, storeV, clientV,
   reqV, asmV, foldV

\* The client sends bytes of its file.
LEMMA BoundClient == ASSUME BoundInv, Client PROVE BoundInv'
<1> USE StreamAssumption DEF BoundInv, TypeOK, Requesting, Chunked, WithinCap, Assembling, Keys, Carrying,
    RequestPCs, Offsets, Lengths, rowV, storeV, clientV, reqV, asmV, foldV, Fault
<1>1. CASE GiveUp
  <2>1. TypeOK'
    <3>1. faults' \in 0..MaxFaults /\ waiting' \in Requests \cup {NoRequest}
      BY <1>1 DEF GiveUp
    <3> QED
      BY <1>1, <3>1 DEF GiveUp
  <2>2. (Requesting /\ Chunked /\ WithinCap /\ Assembling)'
    BY <1>1 DEF GiveUp
  <2> QED
    BY <2>1, <2>2
<1>2. CASE AskClose
  BY <1>2 DEF AskClose
<1>3. ASSUME NEW r \in Requests, Receive(r) PROVE BoundInv'
  <2>1. TypeOK'
    <3>1. rpc' \in [Requests -> RequestPCs] /\ next' \in Lengths /\ waiting' \in Requests \cup {NoRequest}
      BY <1>3 DEF Receive
    <3> QED
      BY <1>3, <3>1 DEF Receive
  <2>2. (Requesting /\ Chunked /\ WithinCap /\ Assembling)'
    BY <1>3 DEF Receive
  <2> QED
    BY <2>1, <2>2
<1>4. ASSUME NEW r \in Requests, NEW len \in 1..MaxBytes, Send(r, len) PROVE BoundInv'
  <2>1. TypeOK'
    <3>1. next \in Offsets /\ len \in Lengths /\ mishap' \subseteq {"rechunk", "reopen"}
      BY <1>4 DEF Send
    <3>2. /\ sent' = [sent EXCEPT ![next] = len] /\ waiting' = r
          /\ rpc' = [rpc EXCEPT ![r] = "read"] /\ roff' = [roff EXCEPT ![r] = next]
          /\ rlen' = [rlen EXCEPT ![r] = len]
          /\ UNCHANGED <<next, closed, rnext, status, cursor, recorded, storeV, asmV, foldV, faults>>
      BY <1>4 DEF Send
    <3>3. /\ sent' \in [Offsets -> Lengths] /\ rpc' \in [Requests -> RequestPCs]
          /\ roff' \in [Requests -> Lengths] /\ rlen' \in [Requests -> Lengths]
      BY <3>1, <3>2
    <3> QED
      BY <3>1, <3>2, <3>3
  <2>2. (Requesting /\ Chunked /\ WithinCap /\ Assembling)'
    BY <1>4 DEF Send
  <2> QED
    BY <2>1, <2>2
<1> QED
  BY <1>1, <1>2, <1>3, <1>4 DEF Client

\* A step of one request that keeps its bytes.
LEMMA RequestStep ==
    ASSUME BoundInv, NEW r \in Requests, UNCHANGED <<roff, rlen>>, cursor' \in Nat, cursor <= cursor',
           \A q \in Requests : q # r => rpc'[q] = rpc[q],
           rpc'[r] \in Carrying => rpc[r] \in Carrying,
           rpc'[r] \in {"put", "advance"} => roff[r] + rlen[r] <= MaxBundleBytes /\ roff[r] <= cursor
    PROVE  Requesting'
<1>1. cursor \in Nat /\ roff \in [Requests -> Nat] /\ Requesting
  BY StreamAssumption DEF BoundInv, TypeOK, Lengths
<1>2. ASSUME NEW q \in Requests
      PROVE  /\ rpc'[q] \in Carrying => 0 < rlen[q] /\ roff[q] + rlen[q] <= MaxBytes
             /\ rpc'[q] \in {"put", "advance"} =>
                   roff[q] + rlen[q] <= MaxBundleBytes /\ roff[q] <= cursor
  BY <1>1 DEF Requesting
<1>3. \A q \in Requests : roff[q] \in Nat /\ (roff[q] <= cursor => roff[q] <= cursor')
  BY <1>1
<1> QED
  BY <1>2, <1>3 DEF Requesting

\* A request goes to p, and nothing but its answer is written.
LEMMA RequestMoves ==
    ASSUME BoundInv, NEW r \in Requests, NEW p \in RequestPCs, rpc' = [rpc EXCEPT ![r] = p],
           rnext' \in [Requests -> Lengths], faults' \in 0..MaxFaults,
           p \in Carrying => rpc[r] \in Carrying,
           p \in {"put", "advance"} => roff[r] + rlen[r] <= MaxBundleBytes /\ roff[r] <= cursor,
           UNCHANGED <<roff, rlen, clientV, rowV, storeV, asmV, foldV>>
    PROVE  BoundInv'
<1> USE DEF clientV, rowV, storeV, asmV, foldV
<1>1. rpc' \in [Requests -> RequestPCs] /\ rpc'[r] = p /\ \A q \in Requests : q # r => rpc'[q] = rpc[q]
  BY DEF BoundInv, TypeOK
<1>2. TypeOK'
  BY <1>1 DEF BoundInv, TypeOK
<1>3. cursor' \in Nat /\ cursor <= cursor'
  BY StreamAssumption DEF BoundInv, TypeOK, Lengths
<1>4. Requesting'
  BY <1>1, <1>3, RequestStep
<1>5. (Chunked /\ WithinCap /\ Assembling)'
  BY DEF BoundInv, Chunked, WithinCap, Assembling, Keys
<1> QED
  BY <1>2, <1>4, <1>5 DEF BoundInv

\* What a request carries, where it does.
LEMMA CarriesBytes ==
    ASSUME BoundInv, NEW r \in Requests, rpc[r] \in Carrying
    PROVE  /\ roff[r] \in Offsets /\ roff[r] \in Nat /\ rlen[r] \in Nat /\ rlen[r] > 0
           /\ roff[r] + rlen[r] <= MaxBytes /\ cursor \in Nat /\ fetched \in Nat
<1>1. /\ roff[r] \in Nat /\ rlen[r] \in Nat /\ rlen[r] > 0 /\ roff[r] + rlen[r] <= MaxBytes
      /\ cursor \in Nat /\ fetched \in Nat
  BY StreamAssumption DEF BoundInv, TypeOK, Requesting, Lengths
<1> QED
  BY <1>1, StreamAssumption DEF Offsets

\* The chunk is stored, within the cap and at the cursor or before it.
LEMMA BoundPut == ASSUME BoundInv, NEW r \in Requests, StreamPut(r) PROVE BoundInv'
<1> USE DEF clientV, rowV, asmV, foldV
<1> DEFINE c == roff[r]
<1>1. /\ rpc[r] = "put" /\ chunk' = [chunk EXCEPT ![c] = rlen[r]]
      /\ rpc' = [rpc EXCEPT ![r] = "advance"]
      /\ UNCHANGED <<rnext, log, roff, rlen, clientV, rowV, asmV, foldV, faults>>
  BY DEF StreamPut, RGoto
<1>2. /\ c \in Offsets /\ rlen[r] \in Lengths /\ rlen[r] > 0 /\ c + rlen[r] <= MaxBytes
      /\ c + rlen[r] <= MaxBundleBytes /\ c <= cursor /\ cursor \in Nat
  BY <1>1, CarriesBytes DEF Carrying, BoundInv, TypeOK, Requesting
<1>3. /\ rpc' \in [Requests -> RequestPCs] /\ rpc'[r] = "advance"
      /\ \A q \in Requests : q # r => rpc'[q] = rpc[q]
  BY <1>1 DEF BoundInv, TypeOK, RequestPCs
<1>4. /\ chunk' \in [Offsets -> Lengths] /\ chunk'[c] = rlen[r]
      /\ \A o \in Offsets : o # c => chunk'[o] = chunk[o]
  BY <1>1, <1>2 DEF BoundInv, TypeOK
<1>5. TypeOK'
  BY <1>1, <1>3, <1>4 DEF BoundInv, TypeOK
<1>6. Requesting'
  BY <1>1, <1>2, <1>3, RequestStep DEF Carrying
<1>7. Chunked'
  BY <1>1, <1>2, <1>4 DEF BoundInv, Chunked
<1>8. Keys \subseteq Keys'
  BY <1>2, <1>4 DEF Keys
<1>9. (WithinCap /\ Assembling)'
  BY <1>1, <1>8 DEF BoundInv, WithinCap, Assembling
<1> QED
  BY <1>5, <1>6, <1>7, <1>9 DEF BoundInv

\* The cursor goes to the end of a request that is within the cap, or stays.
LEMMA BoundAdvance == ASSUME BoundInv, NEW r \in Requests, StreamAdvance(r) PROVE BoundInv'
<1> USE DEF clientV, storeV, asmV, foldV
<1>1. rpc[r] = "advance" /\ UNCHANGED <<status, recorded, mishap, roff, rlen, clientV, storeV, asmV, foldV, faults>>
  BY DEF StreamAdvance
<1>2. CASE status = "running" /\ cursor = roff[r]
  <2> DEFINE e == roff[r] + rlen[r]
  <2>1. /\ cursor' = e /\ rpc' = [rpc EXCEPT ![r] = "answered"] /\ rnext' = [rnext EXCEPT ![r] = e]
    BY <1>2 DEF StreamAdvance, Answer
  <2>2. e \in Lengths /\ e <= MaxBundleBytes /\ e \in Nat /\ cursor \in Nat /\ cursor <= e
    BY <1>1, <1>2, CarriesBytes, StreamAssumption DEF Carrying, BoundInv, Requesting, Lengths
  <2> HIDE DEF e
  <2>3. /\ rpc' \in [Requests -> RequestPCs] /\ rpc'[r] = "answered"
        /\ \A q \in Requests : q # r => rpc'[q] = rpc[q]
        /\ rnext' \in [Requests -> Lengths]
    BY <2>1, <2>2 DEF BoundInv, TypeOK, RequestPCs
  <2>4. TypeOK'
    BY <1>1, <2>1, <2>2, <2>3 DEF BoundInv, TypeOK
  <2>5. Requesting'
    BY <1>1, <2>1, <2>2, <2>3, RequestStep DEF Carrying
  <2>6. Chunked'
    <3>1. \A o \in Offsets : o \in Nat /\ (o <= cursor => o <= cursor')
      BY <2>1, <2>2 DEF Offsets
    <3> QED
      BY <1>1, <3>1 DEF BoundInv, Chunked
  <2>7. (WithinCap /\ Assembling)'
    BY <1>1, <2>1, <2>2 DEF BoundInv, WithinCap, Assembling, Keys
  <2> QED
    BY <2>4, <2>5, <2>6, <2>7 DEF BoundInv
<1>3. CASE ~(status = "running" /\ cursor = roff[r])
  <2>1. rpc' = [rpc EXCEPT ![r] = "reread"] /\ UNCHANGED <<rnext, cursor>>
    BY <1>3 DEF StreamAdvance, RGoto
  <2> QED
    BY <1>1, <2>1, RequestMoves DEF RequestPCs, Carrying, BoundInv, TypeOK, rowV
<1> QED
  BY <1>2, <1>3

\* The handler checks the cap and the cursor before it writes.
LEMMA BoundServer == ASSUME BoundInv, NEW r \in Requests, Server(r) PROVE BoundInv'
<1>1. ASSUME NEW p \in {"answered", "error"}, rpc' = [rpc EXCEPT ![r] = p],
             rnext' \in [Requests -> Lengths], faults' \in 0..MaxFaults,
             UNCHANGED <<roff, rlen, clientV, rowV, storeV, asmV, foldV>>
      PROVE  BoundInv'
  BY <1>1, RequestMoves DEF RequestPCs, Carrying
<1>2. faults \in 0..MaxFaults /\ rnext \in [Requests -> Lengths] /\ cursor \in Lengths
  BY DEF BoundInv, TypeOK
<1>3. [rnext EXCEPT ![r] = cursor] \in [Requests -> Lengths]
  BY <1>2
<1>4. CASE StreamRead(r)
  <2>1. UNCHANGED <<roff, rlen, clientV, rowV, storeV, asmV, foldV, faults>> /\ rpc[r] = "read"
    BY <1>4 DEF StreamRead
  <2>2. CASE status # "running" \/ roff[r] # cursor \/ roff[r] + rlen[r] > MaxBundleBytes
    BY <1>1, <1>2, <1>3, <1>4, <2>1, <2>2 DEF StreamRead, Answer, RGoto
  <2>3. CASE ~(status # "running" \/ roff[r] # cursor \/ roff[r] + rlen[r] > MaxBundleBytes)
    <3>1. rpc' = [rpc EXCEPT ![r] = "put"] /\ UNCHANGED rnext
      BY <1>4, <2>3 DEF StreamRead, RGoto
    <3>2. roff[r] + rlen[r] <= MaxBundleBytes /\ roff[r] <= cursor
      BY <2>1, <2>3, CarriesBytes, StreamAssumption DEF Carrying
    <3> QED
      BY <1>2, <2>1, <3>1, <3>2, RequestMoves DEF RequestPCs, Carrying
  <2> QED
    BY <2>2, <2>3
<1>5. CASE StreamReread(r)
  BY <1>1, <1>2, <1>3, <1>5 DEF StreamReread, Answer
<1>6. CASE StreamError(r)
  <2>1. faults' \in 0..MaxFaults
    BY <1>2, <1>6, StreamAssumption DEF StreamError, Fault
  <2> QED
    BY <1>1, <1>2, <1>6, <2>1 DEF StreamError, RGoto
<1> QED
  BY <1>4, <1>5, <1>6, BoundPut, BoundAdvance DEF Server

\* The log that an assembly writes is where a chunk ends.
LEMMA AssembledLog ==
    ASSUME BoundInv, FinalizeAssemble
    PROVE  /\ log' \in Lengths /\ log' > 0 /\ log' <= MaxBundleBytes
           /\ \E k \in akeys : log' = k + chunk[k] /\ chunk[k] > 0 /\ \A j \in akeys : j <= k
<1>1. akeys # {} /\ akeys \subseteq Keys /\ akeys \subseteq Offsets /\ log' = End(akeys, 0)
  BY DEF FinalizeAssemble, Whole, BoundInv, Assembling, TypeOK
<1>2. PICK k \in akeys : log' = k + chunk[k] /\ \A j \in akeys : j <= k
  BY <1>1, EndIs DEF BoundInv
<1>3. k \in Offsets /\ chunk[k] > 0 /\ chunk[k] \in Lengths
  BY <1>1, <1>2 DEF Keys, BoundInv, TypeOK
<1> QED
  BY <1>2, <1>3, StreamAssumption DEF BoundInv, Chunked, Offsets, Lengths

\* The assembler writes its log once, from listed chunks, and then removes them.
LEMMA BoundAssembler == ASSUME BoundInv, Assembler PROVE BoundInv'
<1> USE StreamAssumption DEF BoundInv, TypeOK, Requesting, Chunked, WithinCap, Assembling, Keys,
    AssemblerPCs, Lengths, rowV, storeV, clientV, reqV, asmV, foldV, Fault, NoFault, AGoto
<1>1. CASE CloseClaim \/ SweepClaim
  BY <1>1 DEF CloseClaim, SweepClaim
<1>2. CASE FinalizeExists
  BY <1>2 DEF FinalizeExists
<1>10. CASE FinalizeList
  <2>1. akeys' = Keys /\ akeys' \subseteq Offsets /\ apc' \in {"delete", "assemble"}
    BY <1>10 DEF FinalizeList
  <2> QED
    BY <1>10, <2>1 DEF FinalizeList
<1>3. CASE FinalizeAssemble
  <2>1. log' \in Lengths /\ log' > 0 /\ log' <= MaxBundleBytes
    BY <1>3, AssembledLog
  <2> QED
    BY <1>3, <2>1 DEF FinalizeAssemble
<1>4. ASSUME NEW o \in Offsets, FinalizeDelete(o) PROVE BoundInv'
  <2>1. chunk' \in [Offsets -> Lengths] /\ \A u \in Offsets : chunk'[u] \in {0, chunk[u]}
    BY <1>4 DEF FinalizeDelete
  <2>2. /\ UNCHANGED <<apc, amode, aread, log, rowV, clientV, reqV, foldV>> /\ apc = "delete"
        /\ akeys' \subseteq akeys /\ faults' \in 0..MaxFaults
    BY <1>4 DEF FinalizeDelete
  <2>3. TypeOK'
    BY <2>1, <2>2
  <2>4. Chunked'
    BY <2>1, <2>2
  <2>5. (Requesting /\ WithinCap /\ Assembling)'
    BY <2>2
  <2> QED
    BY <2>3, <2>4, <2>5
<1>5. CASE FinalizeDone \/ CloseGet
  BY <1>5 DEF FinalizeDone, CloseGet
<1>6. ASSUME NEW n \in Lengths, SweepCut(n) PROVE BoundInv'
  BY <1>6 DEF SweepCut
<1>7. CASE Record
  BY <1>7 DEF Record
<1>8. CASE AssembleError
  BY <1>8 DEF AssembleError
<1>9. CASE AssembleCrash
  BY <1>9 DEF AssembleCrash
<1> QED
  BY <1>1, <1>2, <1>3, <1>4, <1>5, <1>6, <1>7, <1>8, <1>9, <1>10 DEF Assembler

\* The fold reads the chunks that are there, up to the end of the last it has listed.
LEMMA FoldedTo ==
    ASSUME BoundInv, FoldGet
    PROVE  \/ fetched' = fetched
           \/ \E k \in Offsets : chunk[k] > 0 /\ fetched' = k + chunk[k]
<1>1. CASE fkeys # {} /\ (\A k \in fkeys : chunk[k] > 0) /\ Tiles(fkeys, fetched)
  <2>1. fkeys \subseteq Offsets /\ fetched' = End(fkeys, fetched)
    BY <1>1 DEF FoldGet, BoundInv, TypeOK
  <2> QED
    BY <1>1, <2>1, EndIs DEF BoundInv
<1>2. CASE ~(fkeys # {} /\ (\A k \in fkeys : chunk[k] > 0) /\ Tiles(fkeys, fetched))
  BY <1>2 DEF FoldGet, End
<1> QED
  BY <1>1, <1>2

\* The fold stays within the file.
LEMMA BoundFold == ASSUME BoundInv, Fold PROVE BoundInv'
<1> USE DEF BoundInv, rowV, storeV, clientV, reqV, asmV
<1>1. CASE FoldList
  BY <1>1 DEF FoldList, TypeOK, Requesting, Chunked, WithinCap, Assembling, Keys
<1>2. CASE FoldGet
  <2>1. fetched' \in Lengths
    <3>1. ASSUME NEW k \in Offsets, chunk[k] > 0 PROVE k + chunk[k] \in Lengths
      BY <3>1, StreamAssumption DEF TypeOK, Chunked, Offsets, Lengths
    <3> QED
      BY <1>2, <3>1, FoldedTo DEF TypeOK
  <2> QED
    BY <1>2, <2>1 DEF FoldGet, TypeOK, Requesting, Chunked, WithinCap, Assembling, Keys
<1> QED
  BY <1>1, <1>2 DEF Fold

\* BoundInv is inductive.
LEMMA BoundInvariant == Spec => []BoundInv
<1>1. Init => BoundInv
  <2> SUFFICES ASSUME Init PROVE BoundInv
    OBVIOUS
  <2>1. 0 \in Lengths /\ 0 \in 0..MaxFaults
    BY StreamAssumption DEF Lengths
  <2>2. TypeOK
    BY <2>1 DEF Init, TypeOK, RequestPCs, AssemblerPCs
  <2>3. Requesting /\ Chunked /\ WithinCap /\ Assembling
    BY StreamAssumption DEF Init, Requesting, Chunked, WithinCap, Assembling, Carrying
  <2> QED
    BY <2>2, <2>3 DEF BoundInv
<1>2. BoundInv /\ [Next]_vars => BoundInv'
  BY BoundFrame, BoundClient, BoundServer, BoundAssembler, BoundFold DEF Next
<1> QED
  BY <1>1, <1>2, PTL DEF Spec

\* The cursor and the log stay within the cap, although StreamRead compares it with a
\* cursor that may have moved by the time of the write: the request carries the offset
\* that was checked, the compare-and-set of advanceOffset refuses any other, and a log
\* ends where a chunk that passed the check ends.
THEOREM CapKept == Spec => []WithinCap
<1>1. BoundInv => WithinCap
  BY DEF BoundInv
<1> QED
  BY <1>1, BoundInvariant, PTL

\* A step that moves neither bytes nor requests, or writes the log.
LEMMA TilingFrame ==
    ASSUME Tiling, "rechunk" \in mishap => "rechunk" \in mishap', log' = 0 => log = 0,
           UNCHANGED <<cursor, chunk, sent, rpc, roff, rlen, fetched>>
    PROVE  Tiling'
BY DEF Tiling, Tiled, SameCut, Chained, Covered, Written, Frontier

\* The client sends anew what it has sent, or what no chunk and no request is about.
LEMMA TilingClient == ASSUME BoundInv, Tiling, Client PROVE Tiling'
<1>1. CASE GiveUp \/ AskClose
  BY <1>1, TilingFrame DEF GiveUp, AskClose, rowV, storeV, reqV, foldV
<1>2. ASSUME NEW r \in Requests, Receive(r) PROVE Tiling'
  BY <1>2 DEF Receive, rowV, storeV, foldV, BoundInv, TypeOK, Tiling, Tiled, SameCut, Chained, Covered,
     Written, Frontier
<1>3. ASSUME NEW r \in Requests, NEW len \in 1..MaxBytes, Send(r, len) PROVE Tiling'
  <2> SUFFICES ASSUME "rechunk" \notin mishap'
               PROVE  SameCut' /\ (log' = 0 => Tiled')
    BY DEF Tiling
  <2>1. /\ sent[next] \in {0, len} /\ "rechunk" \notin mishap
        /\ sent' = [sent EXCEPT ![next] = len]
        /\ rpc' = [rpc EXCEPT ![r] = "read"] /\ roff' = [roff EXCEPT ![r] = next]
        /\ rlen' = [rlen EXCEPT ![r] = len]
        /\ UNCHANGED <<cursor, chunk, log, fetched>>
    BY <1>3 DEF Send, storeV, foldV
  <2>2. next \in Offsets
    BY <1>3, StreamAssumption DEF Send, BoundInv, TypeOK, Lengths, Offsets
  <2>3. \A o \in Offsets : chunk'[o] \in {0, sent'[o]}
    BY <2>1, <2>2 DEF Tiling, SameCut, BoundInv, TypeOK
  <2>4. ASSUME NEW q \in Requests, rpc'[q] \in {"read", "put", "advance"}
        PROVE  rlen'[q] = sent'[roff'[q]]
    <3>1. CASE q = r
      BY <2>1, <2>2, <3>1 DEF BoundInv, TypeOK
    <3>2. CASE q # r
      <4>1. rpc[q] \in {"read", "put", "advance"} /\ rlen'[q] = rlen[q] /\ roff'[q] = roff[q]
        BY <2>1, <2>4, <3>2 DEF BoundInv, TypeOK
      <4>2. rlen[q] = sent[roff[q]]
        BY <2>1, <4>1 DEF Tiling, SameCut
      <4>3. rlen[q] > 0 /\ roff[q] \in Offsets
        BY <4>1, CarriesBytes DEF Carrying
      <4> QED
        BY <2>1, <2>2, <4>1, <4>2, <4>3 DEF BoundInv, TypeOK
    <3> QED
      BY <3>1, <3>2
  <2>5. ASSUME log' = 0 PROVE Tiled'
    <3>1. Tiled
      BY <2>1, <2>5 DEF Tiling
    <3>2. \A q \in Requests : rpc'[q] \in {"put", "advance"} => rpc'[q] = rpc[q] /\ roff'[q] = roff[q]
      BY <2>1 DEF BoundInv, TypeOK
    <3>3. Written'
      BY <2>1, <3>1, <3>2 DEF Tiled, Written
    <3> QED
      BY <2>1, <3>1, <3>3 DEF Tiled, Chained, Covered, Frontier
  <2> QED
    BY <2>3, <2>4, <2>5 DEF SameCut
<1> QED
  BY <1>1, <1>2, <1>3 DEF Client

\* A chunk is written again with its bytes, or is the one at the cursor.
LEMMA TilingPut == ASSUME BoundInv, Tiling, NEW r \in Requests, StreamPut(r) PROVE Tiling'
<1> SUFFICES ASSUME "rechunk" \notin mishap'
             PROVE  SameCut' /\ (log' = 0 => Tiled')
  BY DEF Tiling
<1> DEFINE c == roff[r]
<1>1. /\ "rechunk" \notin mishap /\ rpc[r] = "put"
      /\ chunk' = [chunk EXCEPT ![c] = rlen[r]]
      /\ rpc' = [rpc EXCEPT ![r] = "advance"]
      /\ UNCHANGED <<log, roff, rlen, sent, cursor, fetched>>
  BY DEF StreamPut, RGoto, rowV, clientV, foldV
<1>2. c \in Offsets /\ c <= cursor /\ rlen[r] = sent[c] /\ rlen[r] > 0 /\ c \in Nat
  BY <1>1, StreamAssumption
     DEF Tiling, SameCut, BoundInv, TypeOK, Requesting, Carrying, Offsets, Lengths
<1>3. /\ chunk'[c] = sent[c] /\ chunk'[c] > 0
      /\ \A o \in Offsets : o # c => chunk'[o] = chunk[o]
      /\ \A o \in Offsets : chunk[o] > 0 => chunk'[o] = chunk[o]
  BY <1>1, <1>2 DEF Tiling, SameCut, BoundInv, TypeOK
<1>4. SameCut'
  BY <1>1, <1>3 DEF Tiling, SameCut, BoundInv, TypeOK
<1>5. ASSUME log' = 0 PROVE Tiled'
  <2>1. Tiled
    BY <1>1, <1>5 DEF Tiling
  <2>2. c < cursor => chunk[c] > 0
    BY <1>1, <2>1 DEF Tiled, Written
  <2>3. \A o \in Offsets : o < cursor => chunk'[o] = chunk[o]
    BY <1>2, <1>3, <2>2, StreamAssumption DEF BoundInv, TypeOK, Offsets, Lengths
  <2>4. Chained'
    <3> SUFFICES ASSUME NEW o \in Offsets, o < cursor, chunk[o] > 0
                 PROVE  \/ o + chunk[o] = cursor
                        \/ o + chunk[o] < cursor /\ chunk'[o + chunk[o]] > 0
      BY <1>1, <2>3 DEF Chained
    <3>1. o + chunk[o] = cursor \/ (o + chunk[o] < cursor /\ chunk[o + chunk[o]] > 0)
      BY <2>1 DEF Tiled, Chained
    <3>2. o \in Nat /\ chunk[o] \in Nat /\ cursor \in Nat /\ cursor <= MaxBytes
      BY StreamAssumption DEF BoundInv, TypeOK, Offsets, Lengths
    <3>3. o + chunk[o] < cursor => o + chunk[o] \in Offsets
      BY <3>2, StreamAssumption DEF Offsets
    <3> QED
      BY <2>3, <3>1, <3>3
  <2>5. Covered'
    <3> SUFFICES ASSUME NEW b \in Offsets, b < cursor
                 PROVE  \E o \in Offsets : o <= b /\ b < o + chunk'[o]
      BY <1>1 DEF Covered
    <3>1. PICK o \in Offsets : o <= b /\ b < o + chunk[o]
      BY <2>1 DEF Tiled, Covered
    <3>2. o < cursor
      BY <3>1 DEF BoundInv, TypeOK, Offsets, Lengths
    <3> QED
      BY <2>3, <3>1, <3>2
  <2>6. Written'
    <3> SUFFICES ASSUME NEW q \in Requests,
                        rpc'[q] = "advance" \/ (rpc'[q] = "put" /\ roff[q] < cursor)
                 PROVE  chunk'[roff[q]] > 0
      BY <1>1 DEF Written
    <3>1. CASE q = r
      BY <1>3, <3>1
    <3>2. CASE q # r
      <4>1. rpc'[q] = rpc[q]
        BY <1>1, <3>2 DEF BoundInv, TypeOK
      <4>2. chunk[roff[q]] > 0
        BY <2>1, <4>1 DEF Tiled, Written
      <4>3. roff[q] \in Offsets
        BY <4>1, CarriesBytes DEF Carrying
      <4> QED
        BY <1>3, <4>2, <4>3
    <3> QED
      BY <3>1, <3>2
  <2>7. Frontier'
    <3>1. fetched < cursor => fetched \in Offsets
      BY StreamAssumption DEF BoundInv, TypeOK, Offsets, Lengths
    <3>2. fetched > cursor => cursor \in Offsets
      BY StreamAssumption DEF BoundInv, TypeOK, Offsets, Lengths
    <3> QED
      BY <1>1, <1>3, <2>1, <3>1, <3>2 DEF Tiled, Frontier
  <2> QED
    BY <2>4, <2>5, <2>6, <2>7 DEF Tiled
<1> QED
  BY <1>4, <1>5

\* The cursor goes to the end of the chunk that begins at it.
LEMMA TilingAdvance == ASSUME BoundInv, Tiling, NEW r \in Requests, StreamAdvance(r) PROVE Tiling'
<1> SUFFICES ASSUME "rechunk" \notin mishap'
             PROVE  SameCut' /\ (log' = 0 => Tiled')
  BY DEF Tiling
<1>1. /\ "rechunk" \notin mishap /\ rpc[r] = "advance"
      /\ UNCHANGED <<chunk, log, roff, rlen, sent, fetched>>
  BY DEF StreamAdvance, clientV, storeV, foldV
<1>2. \A q \in Requests : rpc'[q] \in Carrying \ {"reread"} => rpc'[q] = rpc[q]
  BY DEF StreamAdvance, Answer, RGoto, Carrying, BoundInv, TypeOK
<1>3. SameCut'
  BY <1>1, <1>2 DEF Tiling, SameCut, Carrying
<1>4. ASSUME log' = 0 PROVE Tiled'
  <2>1. Tiled
    BY <1>1, <1>4 DEF Tiling
  <2>2. CASE cursor' = cursor
    BY <1>1, <1>2, <2>1, <2>2 DEF Tiled, Chained, Covered, Written, Frontier, Carrying
  <2>3. CASE cursor' # cursor
    <3>1. cursor = roff[r] /\ cursor' = cursor + rlen[r]
      BY <2>3 DEF StreamAdvance
    <3>2. /\ cursor \in Offsets /\ rlen[r] > 0 /\ rlen[r] = sent[cursor]
          /\ cursor \in Nat /\ rlen[r] \in Nat /\ cursor' \in Nat /\ fetched \in Nat
      BY <1>1, <3>1, CarriesBytes DEF Tiling, SameCut, Carrying
    <3>3. chunk[cursor] > 0 /\ chunk[cursor] = rlen[r]
      BY <1>1, <2>1, <3>1, <3>2 DEF Tiled, Written, Tiling, SameCut
    <3>4. \A o \in Offsets : chunk[o] > 0 => o <= cursor
      BY DEF BoundInv, Chunked
    <3>5. Chained'
      <4> SUFFICES ASSUME NEW o \in Offsets, o < cursor', chunk[o] > 0
                   PROVE  \/ o + chunk[o] = cursor'
                          \/ o + chunk[o] < cursor' /\ chunk[o + chunk[o]] > 0
        BY <1>1 DEF Chained
      <4>1. CASE o = cursor
        BY <3>1, <3>3, <4>1
      <4>2. CASE o # cursor
        <5>1. o < cursor
          BY <3>2, <3>4, <4>2 DEF Offsets
        <5>2. o + chunk[o] = cursor \/ (o + chunk[o] < cursor /\ chunk[o + chunk[o]] > 0)
          BY <2>1, <5>1 DEF Tiled, Chained
        <5>3. chunk[o] \in Nat /\ o \in Nat
          BY StreamAssumption DEF BoundInv, TypeOK, Offsets, Lengths
        <5> QED
          BY <3>1, <3>2, <3>3, <5>2, <5>3
      <4> QED
        BY <4>1, <4>2
    <3>6. Covered'
      <4> SUFFICES ASSUME NEW b \in Offsets, b < cursor'
                   PROVE  \E o \in Offsets : o <= b /\ b < o + chunk[o]
        BY <1>1 DEF Covered
      <4>1. CASE b < cursor
        BY <2>1, <4>1 DEF Tiled, Covered
      <4>2. CASE ~(b < cursor)
        BY <3>1, <3>2, <3>3, <4>2 DEF Offsets
      <4> QED
        BY <4>1, <4>2
    <3>7. Written'
      <4> SUFFICES ASSUME NEW q \in Requests,
                          rpc'[q] = "advance" \/ (rpc'[q] = "put" /\ roff[q] < cursor')
                   PROVE  chunk[roff[q]] > 0
        BY <1>1 DEF Written
      <4>1. rpc'[q] = rpc[q] /\ rpc[q] \in {"put", "advance"}
        BY <1>2 DEF Carrying
      <4>2. roff[q] <= cursor /\ roff[q] \in Nat
        BY <4>1, StreamAssumption DEF BoundInv, TypeOK, Requesting, Lengths
      <4>3. CASE roff[q] = cursor
        BY <3>3, <4>3
      <4>4. CASE roff[q] # cursor
        <5>1. roff[q] < cursor
          BY <3>2, <4>2, <4>4
        <5> QED
          BY <2>1, <4>1, <5>1 DEF Tiled, Written
      <4> QED
        BY <4>3, <4>4
    <3>8. Frontier'
      BY <1>1, <2>1, <3>1, <3>2, <3>3 DEF Tiled, Frontier
    <3> QED
      BY <3>5, <3>6, <3>7, <3>8 DEF Tiled
  <2> QED
    BY <2>2, <2>3
<1> QED
  BY <1>3, <1>4

\* One case per step of the stream handler.
LEMMA TilingServer == ASSUME BoundInv, Tiling, NEW r \in Requests, Server(r) PROVE Tiling'
<1>1. CASE StreamRead(r)
  <2>1. /\ UNCHANGED <<cursor, chunk, log, mishap, sent, roff, rlen, fetched>>
        /\ rpc[r] = "read" /\ \A q \in Requests : q # r => rpc'[q] = rpc[q]
        /\ rpc'[r] = "put" => roff[r] = cursor
        /\ rpc'[r] \in {"put", "answered", "error"}
    BY <1>1 DEF StreamRead, Answer, RGoto, rowV, storeV, clientV, foldV, BoundInv, TypeOK
  <2>2. cursor \in Nat
    BY StreamAssumption DEF BoundInv, TypeOK, Lengths
  <2>3. ASSUME SameCut PROVE SameCut'
    BY <2>1, <2>3 DEF SameCut
  <2>4. ASSUME Written PROVE Written'
    BY <2>1, <2>2, <2>4 DEF Written
  <2> QED
    BY <2>1, <2>3, <2>4 DEF Tiling, Tiled, Chained, Covered, Frontier
<1>2. CASE StreamReread(r) \/ StreamError(r)
  <2>1. /\ UNCHANGED <<cursor, chunk, log, mishap, sent, roff, rlen, fetched>>
        /\ \A q \in Requests : rpc'[q] \in {rpc[q], "answered", "error"}
    BY <1>2 DEF StreamReread, StreamError, Answer, RGoto, rowV, storeV, clientV, foldV, BoundInv, TypeOK
  <2>2. ASSUME SameCut PROVE SameCut'
    BY <2>1, <2>2 DEF SameCut
  <2>3. ASSUME Written PROVE Written'
    BY <2>1, <2>3 DEF Written
  <2> QED
    BY <2>1, <2>2, <2>3 DEF Tiling, Tiled, Chained, Covered, Frontier
<1> QED
  BY <1>1, <1>2, TilingPut, TilingAdvance DEF Server

\* The assembler removes chunks only once it has written the log.
LEMMA TilingAssembler == ASSUME BoundInv, Tiling, Assembler PROVE Tiling'
<1>1. CASE FinalizeAssemble
  <2>1. log' # 0
    BY <1>1, AssembledLog DEF Lengths
  <2> QED
    BY <1>1, <2>1, TilingFrame DEF FinalizeAssemble, rowV, clientV, reqV, foldV
<1>2. ASSUME NEW o \in Offsets, FinalizeDelete(o) PROVE Tiling'
  <2>1. /\ log' # 0 /\ \A u \in Offsets : chunk'[u] \in {0, chunk[u]}
        /\ UNCHANGED <<mishap, sent, rpc, roff, rlen>>
    BY <1>2, StreamAssumption DEF FinalizeDelete, BoundInv, Assembling, TypeOK, Lengths, rowV, clientV, reqV
  <2> QED
    BY <2>1 DEF Tiling, SameCut
<1>3. ASSUME NEW n \in Lengths, SweepCut(n) PROVE Tiling'
  BY <1>3, TilingFrame DEF SweepCut, clientV, reqV, foldV
<1>4. CASE AssembleError
  BY <1>4, TilingFrame DEF AssembleError, clientV, reqV, foldV, storeV
<1>5. CASE CloseClaim \/ SweepClaim \/ FinalizeExists \/ FinalizeList \/ FinalizeDone \/ CloseGet
           \/ Record \/ AssembleCrash
  BY <1>5, TilingFrame DEF CloseClaim, SweepClaim, FinalizeExists, FinalizeList, FinalizeDone, CloseGet,
     Record, AssembleCrash, rowV, clientV, reqV, foldV, storeV
<1> QED
  BY <1>1, <1>2, <1>3, <1>4, <1>5 DEF Assembler

\* The fold goes from one boundary of the chain to another.
LEMMA TilingFold == ASSUME BoundInv, Tiling, Fold PROVE Tiling'
<1>1. CASE FoldList
  BY <1>1, TilingFrame DEF FoldList, rowV, storeV, clientV, reqV
<1>2. CASE FoldGet
  <2>1. UNCHANGED <<cursor, chunk, log, mishap, sent, rpc, roff, rlen>>
    BY <1>2 DEF FoldGet, rowV, storeV, clientV, reqV
  <2>2. ASSUME Chained, Frontier PROVE Frontier'
    <3>1. CASE fetched' = fetched
      BY <2>1, <2>2, <3>1 DEF Frontier
    <3>2. CASE fetched' # fetched
      <4>1. PICK k \in Offsets : chunk[k] > 0 /\ fetched' = k + chunk[k]
        BY <1>2, <3>2, FoldedTo
      <4>2. k <= cursor /\ k \in Nat /\ cursor \in Nat /\ chunk[k] \in Nat
        BY <4>1, StreamAssumption DEF BoundInv, TypeOK, Chunked, Offsets, Lengths
      <4>3. CASE k = cursor
        BY <2>1, <4>1, <4>2, <4>3 DEF Frontier
      <4>4. CASE k < cursor
        BY <2>1, <2>2, <4>1, <4>2, <4>4 DEF Frontier, Chained
      <4> QED
        BY <4>2, <4>3, <4>4
    <3> QED
      BY <3>1, <3>2
  <2> QED
    BY <2>1, <2>2 DEF Tiling, Tiled, SameCut, Chained, Covered, Written
<1> QED
  BY <1>1, <1>2 DEF Fold

\* Tiling is inductive under BoundInv.
LEMMA TilingInvariant == Spec => []Tiling
<1>1. Init => Tiling
  BY StreamAssumption DEF Init, Tiling, Tiled, SameCut, Chained, Covered, Written, Frontier, Offsets
<1>2. BoundInv /\ Tiling /\ [Next]_vars => Tiling'
  <2>1. ASSUME Tiling, UNCHANGED vars PROVE Tiling'
    BY <2>1, TilingFrame DEF vars, rowV, storeV, clientV, reqV, foldV
  <2> QED
    BY <2>1, TilingClient, TilingServer, TilingAssembler, TilingFold DEF Next
<1> QED
  BY <1>1, <1>2, BoundInvariant, PTL DEF Spec

\* The fold owner can always go on from its frontier: it is where a chunk begins, or at
\* the end of what was accepted, or at the end of a chunk that was stored and is still
\* to be accepted; so `readFrom(fetchedBytes)` never asks for the middle of a chunk.
THEOREM FoldGoesOn == Spec => []FoldCanContinue
<1>1. Tiling => FoldCanContinue
  BY DEF Tiling, Tiled, Frontier, FoldCanContinue
<1> QED
  BY <1>1, TilingInvariant, PTL

\* A step that moves neither the run, the objects nor the assembler.
LEMMA KeepingFrame ==
    ASSUME Keeping, mishap' = {} => mishap = {},
           UNCHANGED <<status, cursor, recorded, chunk, log, apc, amode, akeys>>
    PROVE  Keeping'
BY DEF Keeping, Keys

\* An assembly that has listed the chunks below the cursor writes a log that reaches it:
\* the chunk that holds the last accepted byte is listed, and what is concatenated after
\* it begins where it ends or later.
LEMMA AssembledReaches ==
    ASSUME BoundInv, Tiling, Keeping, FinalizeAssemble, mishap = {}
    PROVE  log' >= cursor
<1>1. PICK k \in akeys : log' = k + chunk[k] /\ chunk[k] > 0 /\ \A j \in akeys : j <= k
  BY AssembledLog
<1>2. apc = "assemble" /\ Tiled /\ akeys \subseteq Offsets /\ cursor \in Nat /\ cursor <= MaxBytes
  BY StreamAssumption DEF FinalizeAssemble, BoundInv, Assembling, TypeOK, Lengths, Tiling
<1>3. k \in Nat /\ chunk[k] \in Nat
  BY <1>1, <1>2, StreamAssumption DEF BoundInv, TypeOK, Offsets, Lengths
<1>4. CASE cursor = 0
  BY <1>1, <1>3, <1>4
<1>5. CASE cursor > 0
  <2>1. cursor - 1 \in Offsets
    BY <1>2, <1>5, StreamAssumption DEF Offsets
  <2>2. PICK o \in Offsets : o <= cursor - 1 /\ cursor - 1 < o + chunk[o]
    BY <1>2, <1>5, <2>1 DEF Tiled, Covered
  <2>3. o \in Nat /\ chunk[o] \in Nat /\ o < cursor /\ chunk[o] > 0 /\ cursor <= o + chunk[o]
    BY <1>2, <2>2, StreamAssumption DEF BoundInv, TypeOK, Offsets, Lengths
  <2>4. o \in akeys
    BY <1>2, <2>2, <2>3 DEF Keeping, Keys
  <2>5. o = k \/ (o < k /\ o + chunk[o] <= k)
    BY <1>1, <1>3, <2>3, <2>4 DEF FinalizeAssemble, Whole, Tiles
  <2> QED
    BY <1>1, <1>2, <1>3, <2>3, <2>5
<1> QED
  BY <1>2, <1>4, <1>5

\* No chunk below the cursor appears between the listing and the assembly.
LEMMA KeepingServer == ASSUME BoundInv, Tiling, Keeping, NEW r \in Requests, Server(r) PROVE Keeping'
<1>1. CASE StreamPut(r)
  <2> SUFFICES ASSUME mishap' = {}, apc' = "assemble"
               PROVE  {o \in Keys' : o < cursor} \subseteq akeys
    BY <1>1 DEF StreamPut, rowV, asmV, Keeping
  <2>1. /\ mishap = {} /\ apc = "assemble" /\ rpc[r] = "put" /\ chunk' = [chunk EXCEPT ![roff[r]] = rlen[r]]
    BY <1>1 DEF StreamPut, rowV, asmV
  <2>2. roff[r] < cursor => chunk[roff[r]] > 0
    BY <2>1 DEF Tiling, Tiled, Written, BoundInv, Assembling
  <2>3. \A o \in Offsets : o < cursor /\ chunk'[o] > 0 => chunk[o] > 0
    BY <2>1, <2>2 DEF BoundInv, TypeOK
  <2> QED
    BY <2>1, <2>3 DEF Keys, Keeping
<1>2. CASE StreamAdvance(r)
  <2>1. UNCHANGED <<status, recorded, mishap, chunk, log, apc, amode, akeys>>
    BY <1>2 DEF StreamAdvance, storeV, asmV
  <2>2. cursor' = cursor \/ (status = "running" /\ apc # "assemble")
    BY <1>2 DEF StreamAdvance, BoundInv, Assembling
  <2>3. CASE cursor' = cursor
    BY <2>1, <2>3, KeepingFrame
  <2>4. CASE status = "running" /\ apc # "assemble"
    BY <2>1, <2>4 DEF Keeping
  <2> QED
    BY <2>2, <2>3, <2>4
<1>3. CASE StreamRead(r) \/ StreamReread(r) \/ StreamError(r)
  BY <1>3, KeepingFrame DEF StreamRead, StreamReread, StreamError, rowV, storeV, asmV
<1> QED
  BY <1>1, <1>2, <1>3 DEF Server

\* One case per step of the close and of the sweep.
LEMMA KeepingAssembler == ASSUME BoundInv, Tiling, Keeping, Assembler PROVE Keeping'
<1> USE DEF rowV, storeV, AGoto
<1> SUFFICES ASSUME mishap' = {} PROVE Keeping'
  BY DEF Keeping
<1>1. mishap = {}
  BY DEF Assembler, CloseClaim, SweepClaim, FinalizeExists, FinalizeList, FinalizeAssemble, FinalizeDelete,
     FinalizeDone, CloseGet, SweepCut, Record, AssembleError, AssembleCrash
<1>2. /\ apc # "idle" => status = "parsing"
      /\ apc = "record" => aread = log /\ log > 0
      /\ log \in Nat
  BY StreamAssumption DEF BoundInv, Assembling, TypeOK, Lengths
<1>3. CASE CloseClaim \/ SweepClaim
  BY <1>1, <1>2, <1>3 DEF CloseClaim, SweepClaim, Keeping
<1>4. CASE FinalizeExists
  BY <1>1, <1>4 DEF FinalizeExists, Keeping
<1>5. CASE FinalizeList
  BY <1>1, <1>5 DEF FinalizeList, Keeping, Keys
<1>6. CASE FinalizeAssemble
  <2>1. log' >= cursor
    BY <1>1, <1>6, AssembledReaches
  <2> QED
    BY <1>1, <1>2, <1>6, <2>1 DEF FinalizeAssemble, Keeping
<1>7. ASSUME NEW o \in Offsets, FinalizeDelete(o) PROVE Keeping'
  BY <1>1, <1>2, <1>7 DEF FinalizeDelete, Keeping
<1>8. CASE FinalizeDone \/ CloseGet
  BY <1>1, <1>8 DEF FinalizeDone, CloseGet, Keeping
<1>9. ASSUME NEW n \in Lengths, SweepCut(n) PROVE Keeping'
  BY <1>1, <1>2, <1>9 DEF SweepCut, Keeping
<1>10. CASE Record
  BY <1>1, <1>2, <1>10 DEF Record, Keeping
<1>11. CASE AssembleError
  BY <1>1, <1>2, <1>11 DEF AssembleError, Keeping
<1>12. CASE AssembleCrash
  BY <1>1, <1>2, <1>12 DEF AssembleCrash, Keeping
<1> QED
  BY <1>3, <1>4, <1>5, <1>6, <1>7, <1>8, <1>9, <1>10, <1>11, <1>12 DEF Assembler

\* Keeping is inductive under BoundInv and Tiling.
LEMMA KeepingInvariant == Spec => []Keeping
<1>1. Init => Keeping
  BY DEF Init, Keeping
<1>2. BoundInv /\ Tiling /\ Keeping /\ [Next]_vars => Keeping'
  <2> SUFFICES ASSUME BoundInv, Tiling, Keeping, [Next]_vars PROVE Keeping'
    OBVIOUS
  <2>1. CASE Client \/ Fold \/ UNCHANGED vars
    BY <2>1, KeepingFrame DEF Client, GiveUp, AskClose, Receive, Send, Fold, FoldList, FoldGet, vars, rowV,
       storeV, asmV
  <2> QED
    BY <2>1, KeepingServer, KeepingAssembler DEF Next
<1> QED
  BY <1>1, <1>2, BoundInvariant, TilingInvariant, PTL DEF Spec

\* Every accepted byte of an open or claimed run is in the object store: in the chunks
\* until a log is written, and in that log from then on, however the requests, the
\* retries and the close interleave.
THEOREM AcceptedStaysStored == Spec => []AcceptedIsStored
<1>1. BoundInv /\ Tiling /\ Keeping => AcceptedIsStored
  <2> SUFFICES ASSUME BoundInv, Tiling, Keeping, status \in {"running", "parsing"}, amode = "close",
                      mishap = {}, NEW b \in Offsets, b < cursor
               PROVE  Stored(b)
    BY DEF AcceptedIsStored
  <2>1. b \in Nat /\ cursor \in Nat /\ log \in Nat
    BY StreamAssumption DEF BoundInv, TypeOK, Offsets, Lengths
  <2>2. CASE log = 0
    BY <2>2 DEF Tiling, Tiled, Covered, Stored
  <2>3. CASE log > 0
    BY <2>1, <2>3 DEF Keeping, Stored
  <2> QED
    BY <2>1, <2>2, <2>3
<1> QED
  BY <1>1, BoundInvariant, TilingInvariant, KeepingInvariant, PTL

\* The log that a close records is the log that is stored, and holds every byte that
\* was ever accepted: a request that wrote its chunk before the claim has advanced the
\* cursor by then or is refused by the compare-and-set, so none is accepted after the
\* chunks are listed.
THEOREM CloseKeepsAll == Spec => []ClosedHoldsAccepted
<1>1. Keeping => ClosedHoldsAccepted
  BY DEF Keeping, ClosedHoldsAccepted
<1> QED
  BY <1>1, KeepingInvariant, PTL
=============================================================================
