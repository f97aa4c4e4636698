----------------------------- MODULE PacketNet -----------------------------
(***************************************************************************)
(* What the modules under rtl/packet share: flits and the arithmetic of    *)
(* the butterfly (rtl/packages/packet_pkg.sv), a virtual channel's buffer  *)
(* (rtl/common/sync_fifo.sv with its output register, which MCPrimitives   *)
(* checks to be a queue: here its ring is one), and the one arbiter.       *)
(***************************************************************************)
EXTENDS Naturals, Sequences

CONSTANTS
  Radix, Stages,   \* RADIX, STAGES
  N_VC,
  VcDepth,         \* VC_DEPTH: a switch buffer, and the credits towards a buffer
  EndDepth         \* END_DEPTH: a buffer of an ingress or an egress

ASSUME FabricAssumption ==
  Radix \in Nat /\ Radix >= 2 /\ Stages \in Nat /\ Stages >= 1 /\ N_VC \in Nat /\ N_VC >= 1
ASSUME DepthsAssumption ==
  VcDepth \in Nat /\ VcDepth >= 1 /\ EndDepth \in Nat /\ EndDepth >= VcDepth

Port  == 0 .. Radix ^ Stages - 1
Local == 0 .. Radix - 1     \* a port of one switch
Stage == 0 .. Stages - 1
VC    == 0 .. N_VC - 1

(* A flit carries its packet's fields in every beat so that the properties *)
(* can tell flits apart; the hardware puts them in the header only, and    *)
(* nothing below reads dest or len of any other flit.  idx counts from 1.  *)
NoFlit == [none |-> TRUE]

sof(flit) == flit.idx = 1
eof(flit) == flit.idx = flit.len

\* Stage s routes on this digit of the destination, the most significant first.
bfly_digit(s) == Stages - 1 - s
digit(value, pos) == (value \div Radix ^ pos) % Radix

\* Port p with one digit replaced: the port at local position d of the switch
\* that p belongs to.
bfly_port(p, pos, d) == p - digit(p, pos) * Radix ^ pos + d * Radix ^ pos

EmptyFifo == [core |-> << >>, out |-> NoFlit]

fifo_s_ready(fifo, depth) == Len(fifo.core) < depth

\* One edge: `flit` arrives (NoFlit: none does), `pop` takes the output word.
FifoEdge(fifo, flit, pop, depth) ==
  LET take  == flit # NoFlit /\ fifo_s_ready(fifo, depth)
      shift == fifo.out = NoFlit \/ pop
      left  == IF shift /\ fifo.core # << >> THEN Tail(fifo.core) ELSE fifo.core
  IN [core |-> IF take THEN Append(left, flit) ELSE left,
      out  |-> IF ~shift THEN fifo.out
               ELSE IF fifo.core = << >> THEN NoFlit ELSE Head(fifo.core)]

FifoWords(fifo) == IF fifo.out = NoFlit THEN fifo.core ELSE <<fifo.out>> \o fifo.core

\* Wrong on purpose: a credit that returns while one is spent is lost.
CreditSpendWins(credit, spend, back) ==
  IF spend THEN credit - 1 ELSE IF back THEN credit + 1 ELSE credit

\* One edge of a credit counter: `spend` and `back` in one cycle cancel.
CreditEdge(credit, spend, back) ==
  IF spend /\ ~back THEN credit - 1
  ELSE IF back /\ ~spend THEN credit + 1 ELSE credit

-----------------------------------------------------------------------------
(* rtl/packet/pkt_rr_arb.sv.  The caller keeps the pointer and says when a *)
(* decision is used (`update`).                                            *)

\* How far requester r is behind the pointer, in the order in which the
\* masked priority (at or above the pointer first, then the lowest) looks.
Ahead(r, ptr, n) == IF r >= ptr THEN r - ptr ELSE r + n - ptr

Winner(req, ptr, n) ==
  CHOOSE w \in req : \A r \in req : Ahead(w, ptr, n) <= Ahead(r, ptr, n)

\* At most one requester; one whenever anybody asks.
Grant(req, ptr, n) == {r \in req : r = Winner(req, ptr, n)}

Past(r, n) == IF r = n - 1 THEN 0 ELSE r + 1

\* The pointer after an edge at which the decision was used.
PtrNext(req, ptr, n) == IF req = {} THEN ptr ELSE Past(Winner(req, ptr, n), n)
=============================================================================
