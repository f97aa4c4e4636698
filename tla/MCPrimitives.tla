---------------------------- MODULE MCPrimitives ----------------------------
(***************************************************************************)
(* A bench for the small primitives: each behavior exercises one device,   *)
(* chosen in the initial state; the others stay as their Init leaves them. *)
(* The pipe is the EXTENDS, the other devices are instances.               *)
(***************************************************************************)
EXTENDS StreamPipe

CONSTANTS
  Depth,        \* of the FIFO and of the registered-ready buffer
  ShowAhead,    \* of the FIFO
  Width,        \* of the Gray pointers
  SyncStages,   \* of both crossings
  Event,        \* what CdcPulse carries
  ElasticDepth  \* of the buffer between the skids of the loopback

\* What the parameter checks of each device ask (ShowAhead is a flag).
ASSUME BenchAssumption ==
  /\ Depth \in Nat /\ Depth >= 2 /\ ShowAhead \in BOOLEAN
  /\ Width \in Nat /\ Width >= 2
  /\ SyncStages \in Nat /\ SyncStages >= 2
  /\ ElasticDepth \in Nat /\ ElasticDepth >= 2

VARIABLES
  dut,
  due,   \* the words a stream device took in and has not given out, oldest first
  tick,  \* turns over on every edge, so that one which changes nothing else is a step
  f_mem, f_wr_ptr, f_rd_ptr, f_count, out, high, ovf, unf,               \* fifo
  e_rdy, e_mem, e_wr_ptr, e_rd_ptr, e_count,                             \* elastic
  in_out, in_skid, in_rdy, l_mem, l_wr_ptr, l_rd_ptr, l_count, mid_rdy,  \* loopback
  out_out, out_skid, out_rdy,
  wr_bin, wr_gray, wr_full, rd_seen, rd_bin, rd_gray, rd_empty, wr_seen, \* gray
  src_phase, toggle, overrun, echo_sync, dst_phase, fwd_sync, toggle_dst, \* pulse
  h_src_phase, src_state, req, src_data, ack_sync,                        \* handshake
  h_dst_phase, req_sync, ack, capture, dst_data, owed

Fifo == INSTANCE SyncFifo WITH
  mem <- f_mem, wr_ptr <- f_wr_ptr, rd_ptr <- f_rd_ptr, count <- f_count
Elastic == INSTANCE ElasticBuffer WITH
  rdy <- e_rdy, mem <- e_mem, wr_ptr <- e_wr_ptr, rd_ptr <- e_rd_ptr, count <- e_count
Loop == INSTANCE StreamLoopback WITH
  mem <- l_mem, wr_ptr <- l_wr_ptr, rd_ptr <- l_rd_ptr, count <- l_count
Gray  == INSTANCE GrayPointer
Pulse == INSTANCE CdcPulse WITH LongReset <- TRUE
Hand  == INSTANCE CdcHandshake WITH
  LongReset <- FALSE, OneSided <- TRUE,
  src_phase <- h_src_phase, dst_phase <- h_dst_phase

fifoVars    == <<f_mem, f_wr_ptr, f_rd_ptr, f_count, out, high, ovf, unf>>
elasticVars == <<e_rdy, e_mem, e_wr_ptr, e_rd_ptr, e_count>>
loopVars    == <<in_out, in_skid, in_rdy, l_mem, l_wr_ptr, l_rd_ptr, l_count, mid_rdy,
                 out_out, out_skid, out_rdy>>
grayVars    == <<wr_bin, wr_gray, wr_full, rd_seen, rd_bin, rd_gray, rd_empty, wr_seen>>
pulseVars   == <<src_phase, toggle, overrun, echo_sync, dst_phase, fwd_sync, toggle_dst>>
handVars    == <<h_src_phase, src_state, req, src_data, ack_sync,
                 h_dst_phase, req_sync, ack, capture, dst_data, owed>>
streamVars  == <<fifoVars, elasticVars, vars, loopVars>>
crossVars   == <<grayVars, pulseVars, handVars>>
benchVars   == <<dut, due, tick, streamVars, crossVars>>

BenchInit ==
  /\ dut \in {"fifo", "elastic", "pipe", "streaming", "loopback", "gray", "pulse", "handshake"}
  /\ due = << >> /\ tick = FALSE
  /\ Init /\ Fifo!Init /\ Elastic!Init /\ Loop!Init
  /\ Gray!Init /\ Pulse!Init /\ Hand!Init

\* Which device is under test: the others rest.
FifoRest      == dut = "fifo" /\ UNCHANGED <<dut, elasticVars, vars, loopVars, crossVars>>
ElasticRest   == dut = "elastic" /\ UNCHANGED <<dut, fifoVars, vars, loopVars, crossVars>>
PipeRest      == dut = "pipe" /\ UNCHANGED <<dut, fifoVars, elasticVars, loopVars, crossVars>>
StreamingRest == dut = "streaming" /\ UNCHANGED <<dut, fifoVars, elasticVars, loopVars, crossVars>>
LoopRest      == dut = "loopback" /\ UNCHANGED <<dut, fifoVars, elasticVars, vars, crossVars>>
GrayRest      == dut = "gray" /\ UNCHANGED <<dut, due, streamVars, pulseVars, handVars>>
PulseRest     == dut = "pulse" /\ UNCHANGED <<dut, due, streamVars, grayVars, handVars>>
HandRest      == dut = "handshake" /\ UNCHANGED <<dut, due, streamVars, grayVars, pulseVars>>

\* The handshakes of an edge: `word` is offered to a device that is ready or
\* not, the sink is ready or not for the word `out_word` it is shown.
Exchange(word, dut_ready, out_word, ready) ==
  LET rest == IF out_word # NoData /\ ready THEN SubSeq(due, 2, Len(due)) ELSE due
  IN  due' = IF word # NoData /\ dut_ready THEN Append(rest, word) ELSE rest

FifoEdge(word, ready) ==
  /\ \E clr \in BOOLEAN : Fifo!Clock(word, ready, clr)
  /\ Exchange(word, Fifo!s_ready, Fifo!m_word, ready)
ElasticEdge(word, ready) ==
  Elastic!Clock(word, ready) /\ Exchange(word, Elastic!s_ready, Elastic!m_word, ready)
PipeEdge(word, ready) ==
  Clock(word, ready) /\ Exchange(word, rdy, Buf!m_word, ready)
LoopEdge(word, ready) ==
  Loop!Clock(word, ready) /\ Exchange(word, Loop!In!s_ready, Loop!Out!m_word, ready)

FifoFlow    == FifoRest /\ \E word \in Words, ready \in BOOLEAN : FifoEdge(word, ready)
ElasticFlow == ElasticRest /\ \E word \in Words, ready \in BOOLEAN : ElasticEdge(word, ready)
PipeFlow    == PipeRest /\ \E word \in Words, ready \in BOOLEAN : PipeEdge(word, ready)
LoopFlow    == LoopRest /\ \E word \in Words, ready \in BOOLEAN : LoopEdge(word, ready)
Streaming   == StreamingRest /\ \E word \in Words : PipeEdge(word, TRUE)

StreamReset ==
  /\ due' = << >>
  /\ \E word \in Words : \/ FifoRest /\ Fifo!ResetEdge(word)
                         \/ ElasticRest /\ Elastic!ResetEdge(word)
                         \/ PipeRest /\ ResetEdge(word)
                         \/ LoopRest /\ Loop!ResetEdge

\* An edge of the source clock, of the destination clock, or of both.
PulseSrc == PulseRest /\ (Pulse!SrcTick \/ Pulse!BothTick)
PulseDst == PulseRest /\ (Pulse!DstTick \/ Pulse!BothTick)
HandSrc  == HandRest /\ (Hand!SrcTick \/ Hand!BothTick)
HandDst  == HandRest /\ (Hand!DstTick \/ Hand!BothTick)

Tick(edge) == edge /\ tick' = ~tick

BenchNext ==
  /\ tick' = ~tick
  /\ \/ FifoFlow \/ ElasticFlow \/ PipeFlow \/ LoopFlow \/ Streaming \/ StreamReset
     \/ GrayRest /\ Gray!Next
     \/ PulseRest /\ Pulse!Next
     \/ HandRest /\ Hand!Next

\* Every oscillator runs; producers, sinks and resets do as they please.
BenchSpec ==
  /\ BenchInit /\ [][BenchNext]_benchVars
  /\ WF_benchVars(Tick(PipeFlow)) /\ WF_benchVars(Tick(Streaming)) /\ WF_benchVars(Tick(LoopFlow))
  /\ WF_benchVars(Tick(PulseSrc)) /\ WF_benchVars(Tick(PulseDst))
  /\ WF_benchVars(Tick(HandSrc)) /\ WF_benchVars(Tick(HandDst))

-----------------------------------------------------------------------------
\* Type correctness of the stream devices, and of the crossings.
StreamTypesOK == TypeOK /\ Fifo!TypeOK /\ Elastic!TypeOK /\ Loop!TypeOK
CrossTypesOK  == Gray!TypeOK /\ Pulse!TypeOK /\ Hand!TypeOK

\* The beats inside the buffer under test.
contents == CASE dut = "fifo"     -> Fifo!held
              [] dut = "elastic"  -> Elastic!stored
              [] dut = "loopback" -> Loop!inside
              [] OTHER            -> inside

\* Each buffer is a queue that a reset empties, and holds exactly what went in at
\* one face and has not come out at the other, whatever its ready is registered
\* on: no beat is lost, repeated or overtaken (sync_fifo.sv,
\* stream_elastic_buffer.sv, stream_pipe.sv, stream_loopback.sv).  The mark of
\* the deep FIFO covers the levels it held.
BuffersAreFifos ==
  /\ [][contents' = due']_benchVars
  /\ IsFifo /\ Fifo!IsFifo /\ Elastic!IsFifo /\ Loop!IsFifo
  /\ Fifo!MarkCovers

\* Every credit of a pipe is at the gate, in the line or in the buffer, so the
\* line never presents a beat to a buffer without room
\* (a_credit_conservation and a_buffer_has_room in stream_pipe.sv).
CreditsCoverTheLine == StreamTypesOK /\ CreditConservation /\ RoomWhenPresented

\* A pipe whose buffer has STAGES + 2 places never throttles a sink that never
\* stalls, and its credits cover the line whatever the sink (stream_pipe.sv).
StreamsAtFullRate == [][CreditsCoverTheLine' /\ (dut = "streaming" => rdy')]_benchVars

\* A Gray pointer sampled on the move is its old or its new value and the flags
\* compared in Gray code are safe (cdc_pkg.sv, async_fifo.sv); a pulse accepted is
\* one strobe, and a source that is free faces a destination that has strobed all
\* of them (cdc_pulse.sv).
CrossingsAreSafe ==
  /\ [][CrossTypesOK' /\ Gray!SamplesAreReal /\ Gray!FlagsMeanDistances']_benchVars
  /\ Pulse!IsChannel /\ [][Pulse!BusyCoversStrobe']_benchVars

\* A beat inside a pipe, or inside a chain of registered readies, comes to the
\* output unless a reset drops it (stream_pipe.sv, stream_loopback.sv); a pulse
\* frees its source, and the handshake recovers from the reset of either domain
\* alone (cdc_pulse.sv, cdc_handshake.sv).
NothingWedges ==
  Emerges /\ Loop!Emerges /\ Pulse!StrobeFrees /\ Hand!NeverWedges
=============================================================================
