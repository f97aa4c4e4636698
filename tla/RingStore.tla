----------------------------- MODULE RingStore -----------------------------
(***************************************************************************)
(* The ring of storage that rtl/stream/stream_elastic_buffer.sv and        *)
(* rtl/common/sync_fifo.sv share: two wrapping pointers and a counter of   *)
(* the words between them.  A word is an element of Data; NoData stands    *)
(* for "no transfer" on a port and for storage nothing has written.        *)
(***************************************************************************)
EXTENDS Naturals, Sequences

CONSTANTS Data, NoData,
          Depth          \* parameter DEPTH, at least 2

VARIABLES mem, wr_ptr, rd_ptr, count

storeVars == <<mem, wr_ptr, rd_ptr, count>>

Words == Data \cup {NoData}
Slot  == 0 .. Depth - 1

Bump(p)    == IF p = Depth - 1 THEN 0 ELSE p + 1
Plus(p, k) == IF p + k >= Depth THEN p + k - Depth ELSE p + k

\* The payload array has no reset: a word written on any edge is stored.
Store(word) ==
  mem' = IF word # NoData THEN [mem EXCEPT ![wr_ptr] = word] ELSE mem

\* One edge: `word` is stored (NoData: nothing is), `pop` removes the oldest.
Move(word, pop) ==
  /\ Store(word)
  /\ wr_ptr' = IF word # NoData THEN Bump(wr_ptr) ELSE wr_ptr
  /\ rd_ptr' = IF pop THEN Bump(rd_ptr) ELSE rd_ptr
  /\ count'  = IF word # NoData /\ ~pop THEN count + 1
               ELSE IF pop /\ word = NoData THEN count - 1 ELSE count

\* One edge in reset.
ClearStore(word) == Store(word) /\ wr_ptr' = 0 /\ rd_ptr' = 0 /\ count' = 0

InitStore == mem = [s \in Slot |-> NoData] /\ wr_ptr = 0 /\ rd_ptr = 0 /\ count = 0

StoreOK == /\ mem \in [Slot -> Words]
           /\ wr_ptr \in Slot /\ rd_ptr \in Slot
           /\ count \in 0 .. Depth

\* The words in storage, oldest first.
stored == [i \in 1 .. count |-> mem[Plus(rd_ptr, i - 1)]]
=============================================================================
