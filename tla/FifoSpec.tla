------------------------------ MODULE FifoSpec ------------------------------
(***************************************************************************)
(* What every buffered point-to-point channel of the design promises,      *)
(* whatever its clocks, registers and credits: a queue of at most Cap      *)
(* words.  Words leave in the order they entered, none is lost, none is    *)
(* delivered twice, none is invented.  rtl/cdc/async_fifo.sv,              *)
(* rtl/stream/*.sv and rtl/common/sync_fifo.sv are shown to implement it.  *)
(***************************************************************************)
EXTENDS Naturals, Sequences

CONSTANTS Data,  \* the words that travel
          Cap    \* the words the channel may hold

VARIABLE q       \* accepted and not yet delivered, oldest first

Init == q = << >>

\* A word is accepted at the input.
Put == /\ Len(q) < Cap
       /\ \E d \in Data : q' = Append(q, d)

\* The oldest word is delivered at the output.
Get == /\ q # << >>
       /\ q' = Tail(q)

\* Both in one clock cycle: the delivered word is one that was already held, and
\* no input is ready on the strength of a delivery of the same cycle.
PutGet == /\ q # << >> /\ Len(q) < Cap
          /\ \E d \in Data : q' = Append(Tail(q), d)

\* A reset empties the channel.
Clear == q' = << >>

Next == Put \/ Get \/ PutGet \/ Clear

Spec == Init /\ [][Next]_q
=============================================================================
