------------------------------ MODULE CdcPulse ------------------------------
(***************************************************************************)
(* rtl/cdc/cdc_pulse.sv: a one-cycle event between unrelated clocks.  The  *)
(* source flips a toggle, the destination turns an edge of the toggle into *)
(* a strobe and echoes the toggle back; until the echo has returned the    *)
(* source is busy and refuses (and reports) a second event.                *)
(***************************************************************************)
EXTENDS Naturals, Sequences, ClockDomains

CONSTANT Event   \* what the abstract channel carries

VARIABLES
  src_phase,     \* progress of the source domain through the current reset
  toggle,        \* toggle_q
  overrun,       \* overrun_q
  echo_sync,     \* u_sync_echo
  dst_phase,
  fwd_sync,      \* u_sync_fwd
  toggle_dst     \* toggle_dst_q

srcVars == <<toggle, overrun, echo_sync>>
dstVars == <<fwd_sync, toggle_dst>>
vars    == <<src_phase, dst_phase, srcVars, dstVars>>

Running == src_phase = "run" /\ dst_phase = "run"
Stale   == "stale" \in {src_phase, dst_phase}

-----------------------------------------------------------------------------
(* The source domain.                                                      *)

echo          == echo_sync[SyncStages]
src_busy      == toggle # echo

Accept(pulse) == pulse /\ ~src_busy

\* One rising edge of src_clk: `clr` is src_sticky_clear, `bit` what the first
\* flop of the echo chain takes.
SrcEdge(pulse, clr, bit) ==
  \/ /\ src_phase # "run"
     /\ toggle' = FALSE /\ overrun' = FALSE /\ echo_sync' = Filled(FALSE)
  \/ /\ src_phase = "run"
     /\ toggle' = IF Accept(pulse) THEN ~toggle ELSE toggle
     /\ overrun' = (~clr /\ (overrun \/ (pulse /\ src_busy)))
     /\ echo_sync' = Shift(echo_sync, bit)

-----------------------------------------------------------------------------
(* The destination domain.                                                 *)

dst_toggle == fwd_sync[SyncStages]
dst_pulse  == dst_toggle # toggle_dst

DstEdge(bit) ==
  \/ /\ dst_phase # "run"
     /\ toggle_dst' = FALSE /\ fwd_sync' = Filled(FALSE)
  \/ /\ dst_phase = "run"
     /\ toggle_dst' = dst_toggle
     /\ fwd_sync' = Shift(fwd_sync, bit)

-----------------------------------------------------------------------------
(* Clocks and resets.                                                      *)

SrcTick ==
  /\ src_phase' = NextPhase(src_phase, TRUE, FALSE)
  /\ dst_phase' = NextPhase(dst_phase, FALSE, TRUE)
  /\ \E pulse, clr \in BOOLEAN : SrcEdge(pulse, clr, toggle_dst)
  /\ UNCHANGED dstVars

DstTick ==
  /\ src_phase' = NextPhase(src_phase, FALSE, TRUE)
  /\ dst_phase' = NextPhase(dst_phase, TRUE, FALSE)
  /\ DstEdge(toggle)
  /\ UNCHANGED srcVars

\* Simultaneous edges: a synchronizer flop takes the old or the new level.
BothTick ==
  /\ src_phase' = NextPhase(src_phase, TRUE, TRUE)
  /\ dst_phase' = NextPhase(dst_phase, TRUE, TRUE)
  /\ \E pulse, clr, s, d \in BOOLEAN :
       /\ SrcEdge(pulse, clr, s)
       /\ DstEdge(d)
       /\ s \in {toggle_dst, toggle_dst'} /\ d \in {toggle, toggle'}

AssertReset == /\ src_phase' = "stale" /\ dst_phase' = "stale"
               /\ UNCHANGED <<srcVars, dstVars>>

ReleaseSrc == /\ MayRelease(src_phase)
              /\ src_phase' = "run"
              /\ UNCHANGED <<dst_phase, srcVars, dstVars>>

ReleaseDst == /\ MayRelease(dst_phase)
              /\ dst_phase' = "run"
              /\ UNCHANGED <<src_phase, srcVars, dstVars>>

Init ==
  /\ src_phase = "stale" /\ dst_phase = "stale"
  /\ toggle = FALSE /\ overrun = FALSE /\ toggle_dst = FALSE
  /\ echo_sync = Filled(FALSE) /\ fwd_sync = Filled(FALSE)

Next == SrcTick \/ DstTick \/ BothTick \/ AssertReset \/ ReleaseSrc \/ ReleaseDst

Spec == Init /\ [][Next]_vars

-----------------------------------------------------------------------------
(* Properties.                                                             *)

TypeOK ==
  /\ src_phase \in Phases /\ dst_phase \in Phases
  /\ toggle \in BOOLEAN /\ overrun \in BOOLEAN /\ toggle_dst \in BOOLEAN
  /\ echo_sync \in [Stage -> BOOLEAN] /\ fwd_sync \in [Stage -> BOOLEAN]

\* The event accepted and not yet strobed at the destination.
in_flight == IF ~Stale /\ toggle # toggle_dst THEN <<Event>> ELSE << >>

Channel == INSTANCE FifoSpec WITH q <- in_flight, Data <- {Event}, Cap <- 1

\* One strobe per accepted event, none without one (a_no_phantom_pulse), and no
\* second event accepted while one is in flight: the pair of toggles that
\* would cancel out and lose both never happens.
IsChannel ==
  Channel!Spec /\ [][in_flight # << >> /\ in_flight' = << >> => dst_pulse \/ Stale']_vars

\* The echo cannot lead the edge detector: a source that is not busy faces a
\* destination that has already emitted the strobe of every event accepted.
BusyCoversStrobe ==
  ~Stale /\ ~src_busy => ~dst_pulse /\ toggle_dst = toggle

-----------------------------------------------------------------------------
(* Liveness: both oscillators run (fairness: MCPrimitives).                *)

\* An accepted event reaches the destination and the source is freed, unless a
\* reset comes.
StrobeFrees == (Running /\ src_busy) ~> (~src_busy \/ ~Running)
=============================================================================
