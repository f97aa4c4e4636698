--------------------------- MODULE StreamLoopback ---------------------------
(***************************************************************************)
(* rtl/common/stream_loopback.sv: skid, elastic buffer, skid - the shape   *)
(* every datapath block decouples with.  Each primitive sees only the      *)
(* registered ready of the next one.                                       *)
(***************************************************************************)
EXTENDS Naturals, Sequences

CONSTANTS Data, NoData,
          ElasticDepth    \* parameter ELASTIC_DEPTH

VARIABLES in_out, in_skid, in_rdy,                \* u_in_skid
          mem, wr_ptr, rd_ptr, count, mid_rdy,    \* u_elastic
          out_out, out_skid, out_rdy              \* u_out_skid

In  == INSTANCE SkidBuffer WITH out <- in_out, skid <- in_skid, rdy <- in_rdy
Mid == INSTANCE ElasticBuffer WITH Depth <- ElasticDepth, rdy <- mid_rdy
Out == INSTANCE SkidBuffer WITH out <- out_out, skid <- out_skid, rdy <- out_rdy

vars == <<In!vars, Mid!vars, Out!vars>>

\* One rising edge: the upstream offers `word`, the downstream is `ready`.
Clock(word, ready) ==
  /\ In!Clock(word, Mid!s_ready)
  /\ Mid!Clock(In!m_word, Out!s_ready)
  /\ Out!Clock(Mid!m_word, ready)

ResetEdge == In!ResetEdge /\ Mid!ResetEdge(In!m_word) /\ Out!ResetEdge

Init == In!Init /\ Mid!Init /\ Out!Init

Flow == \E word \in In!Words, ready \in BOOLEAN : Clock(word, ready)
Next == Flow \/ ResetEdge

Spec == Init /\ [][Next]_vars

-----------------------------------------------------------------------------

TypeOK == In!TypeOK /\ Mid!TypeOK /\ Out!TypeOK

inside == Out!held \o Mid!stored \o In!held

Channel == INSTANCE FifoSpec WITH q <- inside, Cap <- ElasticDepth + 4

\* The chain is one FIFO of DEPTH + 4 beats: no beat is lost or duplicated on a
\* ready that is a cycle old, at either face of either skid.
IsFifo == Channel!Spec

(* Liveness: the clock runs (fairness: MCPrimitives).                      *)

\* A beat inside reaches the output register, unless a reset drops it: the
\* three registered readies never wait on each other.
Emerges == inside # << >> ~> (Out!m_word # NoData \/ inside = << >>)
=============================================================================
