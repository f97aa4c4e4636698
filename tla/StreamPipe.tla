----------------------------- MODULE StreamPipe -----------------------------
(***************************************************************************)
(* rtl/stream/stream_pipe.sv: STAGES free-running register stages in front *)
(* of an elastic buffer, admitted by credits.  Nothing can stall the       *)
(* stages, so a beat let in without a credit would be lost at the buffer.  *)
(***************************************************************************)
EXTENDS Naturals, Sequences, FiniteSets

CONSTANTS Data, NoData,
          Stages,     \* parameter STAGES
          OutDepth    \* parameter OUT_DEPTH

ASSUME StagesAssumption == Stages \in Nat
ASSUME DataAssumption   == NoData \notin Data
ASSUME OutDepthAssumption == OutDepth \in Nat /\ OutDepth >= Stages + 2

VARIABLES credits,    \* credits_q
          rdy,        \* rdy_q
          line,       \* vld_q and pl_q: the beat in each stage, or NoData
          mem, wr_ptr, rd_ptr, count, buf_rdy   \* u_out_buf

Buf == INSTANCE ElasticBuffer WITH Depth <- OutDepth, rdy <- buf_rdy

bufVars == <<mem, wr_ptr, rd_ptr, count, buf_rdy>>
vars    == <<credits, rdy, line, bufVars>>

Words    == Data \cup {NoData}
Position == 1 .. Stages

Admitted(word)  == IF rdy THEN word ELSE NoData
LineWord(word)  == IF Stages = 0 THEN Admitted(word) ELSE line[Stages]
Release(ready)  == Buf!m_word # NoData /\ ready

\* Wrong on purpose: a credit lost when one is spent and returned together.
credits_lost(word, ready) ==
  IF Admitted(word) # NoData THEN credits - 1
  ELSE IF Release(ready) THEN credits + 1 ELSE credits

credits_d(word, ready) ==
  IF Admitted(word) # NoData /\ ~Release(ready) THEN credits - 1
  ELSE IF Release(ready) /\ Admitted(word) = NoData THEN credits + 1 ELSE credits

\* One rising edge: the upstream offers `word`, the downstream is `ready`.
Clock(word, ready) ==
  /\ credits' = credits_d(word, ready)
  /\ rdy' = (credits' # 0)
  /\ line' = [i \in Position |-> IF i = 1 THEN Admitted(word) ELSE line[i - 1]]
  /\ Buf!Clock(LineWord(word), ready)

ResetEdge(word) ==
  /\ credits' = OutDepth /\ rdy' = FALSE
  /\ line' = [i \in Position |-> NoData]
  /\ Buf!ResetEdge(LineWord(word))

Init == /\ credits = OutDepth /\ rdy = FALSE
        /\ line = [i \in Position |-> NoData]
        /\ Buf!Init

Flow  == \E word \in Words, ready \in BOOLEAN : Clock(word, ready)
Reset == \E word \in Words : ResetEdge(word)
Next  == Flow \/ Reset

Spec == Init /\ [][Next]_vars

-----------------------------------------------------------------------------

TypeOK == /\ credits \in 0 .. OutDepth /\ rdy \in BOOLEAN
          /\ line \in [Position -> Words]
          /\ Buf!TypeOK

\* The beats in the delay line.
in_line == {i \in Position : line[i] # NoData}

\* Every credit is held at the gate, or spent on a beat in the line or in the
\* buffer: none leaks and none is minted, so the gate neither closes for good
\* nor overfills the buffer (a_credit_conservation, a_credits_bounded).
CreditConservation == credits + Cardinality(in_line) + count = OutDepth

\* The end of the line never presents a beat to a buffer that refuses it: what
\* replaces the stall this pipe does not have (a_buffer_has_room).
RoomWhenPresented ==
  (IF Stages = 0 THEN rdy ELSE line[Stages] # NoData) => buf_rdy

\* The beats of the first n stages, and of the whole pipe, oldest first.
Beat(word) == IF word = NoData THEN << >> ELSE <<word>>
beats[n \in 0 .. Stages] == IF n = 0 THEN << >> ELSE Beat(line[n]) \o beats[n - 1]
inside == Buf!stored \o beats[Stages]

Channel == INSTANCE FifoSpec WITH q <- inside, Cap <- OutDepth

\* The pipe is a FIFO of OUT_DEPTH beats that a reset empties.
IsFifo == Channel!Spec

-----------------------------------------------------------------------------
(* Liveness: the clock runs (fairness: MCPrimitives).                      *)

\* A beat inside is offered at the output, unless a reset drops it.
Emerges == inside # << >> ~> (Buf!m_word # NoData \/ inside = << >>)
=============================================================================
