------------------------------ MODULE SyncFifo ------------------------------
(***************************************************************************)
(* rtl/common/sync_fifo.sv: the deep single-clock FIFO, with its optional  *)
(* output register, high-water mark and sticky error flags.                *)
(***************************************************************************)
EXTENDS RingStore

CONSTANT ShowAhead    \* parameter SHOW_AHEAD, a Boolean

VARIABLES out,        \* out_valid_q and out_data_q: the word held, or NoData
          high,       \* high_q
          ovf, unf    \* ovf_q, unf_q

vars == <<storeVars, out, high, ovf, unf>>

full    == count = Depth
empty   == count = 0
s_ready == ~full

core_word == IF empty THEN NoData ELSE mem[rd_ptr]
m_word    == IF ShowAhead THEN core_word ELSE out

Accepted(word)    == IF s_ready THEN word ELSE NoData
core_ready(ready) == (~ShowAhead /\ out = NoData) \/ ready
rd_en(ready)      == ~empty /\ core_ready(ready)

mark(clr) == IF clr \/ count > high THEN count ELSE high

\* One rising edge: `word` offered, downstream `ready`, `clr` is sticky_clear.
Clock(word, ready, clr) ==
  /\ Move(Accepted(word), rd_en(ready))
  /\ out'  = IF ~ShowAhead /\ core_ready(ready) THEN core_word ELSE out
  /\ high' = mark(clr)
  /\ ovf'  = (~clr /\ (ovf \/ (Accepted(word) # NoData /\ full)))
  /\ unf'  = (~clr /\ (unf \/ (rd_en(ready) /\ empty)))

ResetEdge(word) ==
  /\ ClearStore(Accepted(word))
  /\ out' = NoData /\ high' = 0 /\ ovf' = FALSE /\ unf' = FALSE

Init == InitStore /\ out = NoData /\ high = 0 /\ ovf = FALSE /\ unf = FALSE

Next == \/ \E word \in Words, ready, clr \in BOOLEAN : Clock(word, ready, clr)
        \/ \E word \in Words : ResetEdge(word)

Spec == Init /\ [][Next]_vars

-----------------------------------------------------------------------------

TypeOK == /\ StoreOK
          /\ out \in Words /\ high \in 0 .. Depth
          /\ ovf \in BOOLEAN /\ unf \in BOOLEAN

\* The words held, the one in the output register first.
held == IF out = NoData THEN stored ELSE <<out>> \o stored

Channel == INSTANCE FifoSpec
             WITH q <- held, Cap <- IF ShowAhead THEN Depth ELSE Depth + 1

\* A FIFO of "total capacity DEPTH + 1 - SHOW_AHEAD" that a reset empties.
IsFifo == Channel!Spec

\* The mark is the highest occupancy up to and including the previous cycle,
\* whatever cycle it is cleared in: only a reset takes it below the occupancy
\* it had seen (a_high_water).
MarkCovers == [][count' # 0 => high' >= count]_vars
=============================================================================
