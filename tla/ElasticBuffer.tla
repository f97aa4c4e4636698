--------------------------- MODULE ElasticBuffer ---------------------------
(***************************************************************************)
(* rtl/stream/stream_elastic_buffer.sv: a short buffer whose ready is a    *)
(* flop that no downstream signal reaches in the same cycle.  Other        *)
(* modules instantiate it and drive Clock and ResetEdge.                   *)
(***************************************************************************)
EXTENDS RingStore

VARIABLE rdy   \* rdy_q

vars == <<storeVars, rdy>>

s_ready == rdy

m_valid == count # 0
m_word  == IF m_valid THEN mem[rd_ptr] ELSE NoData

Accepted(word) == IF rdy THEN word ELSE NoData
rd_en(ready)   == m_valid /\ ready

\* One rising edge: the upstream offers `word`, the downstream is `ready`.
Clock(word, ready) ==
  /\ Move(Accepted(word), rd_en(ready))
  /\ rdy' = (count' < Depth)

ResetEdge(word) == ClearStore(Accepted(word)) /\ rdy' = FALSE

Init == InitStore /\ rdy = FALSE

Next == \/ \E word \in Words, ready \in BOOLEAN : Clock(word, ready)
        \/ \E word \in Words : ResetEdge(word)

Spec == Init /\ [][Next]_vars

-----------------------------------------------------------------------------

TypeOK == StoreOK /\ rdy \in BOOLEAN

Channel == INSTANCE FifoSpec WITH q <- stored, Cap <- Depth

\* The buffer is a FIFO of DEPTH words that a reset empties.
IsFifo == Channel!Spec
=============================================================================
