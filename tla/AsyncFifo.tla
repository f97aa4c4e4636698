----------------------------- MODULE AsyncFifo -----------------------------
(***************************************************************************)
(* rtl/cdc/async_fifo.sv: the dual-clock FIFO every stream that changes    *)
(* clock domain crosses through (rtl/cdc/stream_cdc.sv wraps it).          *)
(*                                                                         *)
(* The two clocks are unrelated: a step of the model is a rising edge of   *)
(* wr_clk, of rd_clk, or of both at once.  Pointers are the binary values  *)
(* of $clog2(DEPTH)+1 bits, so they wrap at 2*Depth; module GrayPointer    *)
(* shows that what crosses in Gray code decodes to the old or to the new   *)
(* pointer and that the Gray full test is the test on distances used here. *)
(***************************************************************************)
EXTENDS Naturals, Sequences, ClockDomains

CONSTANTS
  Data,         \* payload words
  NoData,       \* the contents of storage nothing has written
  Depth,        \* parameter DEPTH
  OutReg        \* parameter OUT_REG

ASSUME DepthAssumption  == Depth \in Nat /\ Depth >= 2
ASSUME ModeAssumption   == OutReg \in BOOLEAN
ASSUME DataAssumption   == NoData \notin Data

VARIABLES
  wr_phase,     \* progress of the write domain through the current reset
  wr_bin,       \* wr_bin_q (wr_gray_q is its encoding)
  wr_full,      \* wr_full_q
  wr_high,      \* wr_high_q
  wr_ovf,       \* wr_ovf_q
  rd_sync,      \* u_sync_rd_ptr: the read pointer on its way to wr_clk
  rd_rst_sync,  \* u_sync_rd_rst: "the read domain is in reset"
  rd_phase, rd_bin, rd_empty, rd_high, rd_unf,
  wr_sync,      \* u_sync_wr_ptr
  wr_rst_sync,  \* u_sync_wr_rst
  out_valid, out_data,  \* the optional output register
  mem,          \* g_store.mem
  due,          \* for the properties only: the words that went in at the write
                \* port and have not come out at the read port, oldest first
  tick          \* turns over on every clock edge, so that an edge which changes
                \* nothing else is a step: fairness then says that clocks run,
                \* whatever producer and consumer do

wrVars  == <<wr_bin, wr_full, wr_high, wr_ovf, rd_sync, rd_rst_sync, mem>>
rdVars  == <<rd_bin, rd_empty, rd_high, rd_unf, wr_sync, wr_rst_sync,
             out_valid, out_data>>
vars    == <<wr_phase, rd_phase, wrVars, rdVars, due, tick>>

-----------------------------------------------------------------------------
(* Pointer arithmetic of PTR_W = $clog2(DEPTH)+1 bits.                     *)

Ptr     == 0 .. 2 * Depth - 1
\* Wrong on purpose: no wrap at the lap bit.
IncNoWrap(p) == p + 1

Inc(p)  == IF p = 2 * Depth - 1 THEN 0 ELSE p + 1
Addr(p) == IF p >= Depth THEN p - Depth ELSE p
Dist(a, b) == IF a >= b THEN a - b ELSE a + 2 * Depth - b  \* a - b, modular

-----------------------------------------------------------------------------
(* Reset: asserted in both domains at once, released in each on its own.   *)

wr_rst  == wr_phase # "run"
rd_rst  == rd_phase # "run"
Running == wr_phase = "run" /\ rd_phase = "run"

AssertReset ==
  /\ wr_phase' = "stale" /\ rd_phase' = "stale"
  /\ due' = << >>
  /\ UNCHANGED <<wrVars, rdVars, tick>>

ReleaseWr ==
  /\ MayRelease(wr_phase)
  /\ wr_phase' = "run"
  /\ UNCHANGED <<rd_phase, wrVars, rdVars, due, tick>>

ReleaseRd ==
  /\ MayRelease(rd_phase)
  /\ rd_phase' = "run"
  /\ UNCHANGED <<wr_phase, wrVars, rdVars, due, tick>>

-----------------------------------------------------------------------------
(* The write domain.                                                       *)

\* Wrong on purpose: full ignored.
wr_ready_full    == ~rd_rst_sync[SyncStages]

rd_bin_wsync == rd_sync[SyncStages]
wr_hold      == rd_rst_sync[SyncStages]
wr_ready     == ~wr_full /\ ~wr_hold
wr_occ       == Dist(wr_bin, rd_bin_wsync)

\* The producer's offer is a word, or NoData when wr_valid is low.
wr_en(offer)    == offer # NoData /\ wr_ready
WrNext(offer)   == IF wr_rst THEN 0 ELSE IF wr_en(offer) THEN Inc(wr_bin) ELSE wr_bin

\* One rising edge of wr_clk: `clr` is wr_sticky_clear, `ptr` and `rst` are
\* what the first synchronizer flops take.
WrEdge(offer, clr, ptr, rst) ==
  /\ mem' = IF wr_en(offer) THEN [mem EXCEPT ![Addr(wr_bin)] = offer] ELSE mem
  /\ wr_bin' = WrNext(offer)
  /\ \/ /\ wr_rst
        /\ wr_full' = FALSE /\ wr_high' = 0 /\ wr_ovf' = FALSE
        /\ rd_sync' = Filled(0)
        /\ rd_rst_sync' = Filled(TRUE)
     \/ /\ ~wr_rst
        /\ wr_full' = (Dist(WrNext(offer), rd_bin_wsync) = Depth)
        /\ wr_high' = IF clr \/ wr_occ > wr_high THEN wr_occ ELSE wr_high
        /\ wr_ovf'  = (~clr /\ (wr_ovf \/ (wr_en(offer) /\ wr_full)))
        /\ rd_sync' = Shift(rd_sync, ptr)
        /\ rd_rst_sync' = Shift(rd_rst_sync, rst)

-----------------------------------------------------------------------------
(* The read domain.                                                        *)

\* Wrong on purpose: the polarity of the reset bit.
rd_hold_inverted == ~wr_rst_sync[SyncStages]

wr_bin_rsync == wr_sync[SyncStages]
rd_hold      == wr_rst_sync[SyncStages]
core_valid   == ~rd_empty /\ ~rd_hold
core_data    == mem[Addr(rd_bin)]
rd_occ       == Dist(wr_bin_rsync, rd_bin)
rd_valid     == IF OutReg THEN out_valid ELSE core_valid
rd_data      == IF OutReg THEN out_data ELSE core_data

\* Wrong on purpose: the output register loads over a word nobody took.
core_ready_always(ready) == OutReg \/ ready

\* The consumer's rd_ready reaches the core through the output register.
core_ready(ready) == (OutReg /\ ~out_valid) \/ ready
rd_en(ready)      == core_valid /\ core_ready(ready)
RdNext(ready)     == IF rd_rst THEN 0 ELSE IF rd_en(ready) THEN Inc(rd_bin) ELSE rd_bin

\* One rising edge of rd_clk: `clr` is rd_sticky_clear.
RdEdge(ready, clr, ptr, rst) ==
  /\ out_data' = IF OutReg /\ core_ready(ready) THEN core_data ELSE out_data
  /\ rd_bin' = RdNext(ready)
  /\ \/ /\ rd_rst
        /\ rd_empty' = TRUE /\ rd_high' = 0 /\ rd_unf' = FALSE
        /\ out_valid' = FALSE
        /\ wr_sync' = Filled(0)
        /\ wr_rst_sync' = Filled(TRUE)
     \/ /\ ~rd_rst
        /\ rd_empty' = (RdNext(ready) = wr_bin_rsync)
        /\ rd_high'  = IF clr \/ rd_occ > rd_high THEN rd_occ ELSE rd_high
        /\ rd_unf'   = (~clr /\ (rd_unf \/ (rd_en(ready) /\ rd_empty)))
        /\ out_valid' = IF OutReg /\ core_ready(ready) THEN core_valid ELSE out_valid
        /\ wr_sync'  = Shift(wr_sync, ptr)
        /\ wr_rst_sync' = Shift(wr_rst_sync, rst)

-----------------------------------------------------------------------------
(* Clocks.                                                                 *)

Offers == Data \cup {NoData}

\* What the two handshakes of an edge do to the words due at the read port.
Exchanged(offer, ready) ==
  LET rest == IF rd_valid /\ ready THEN SubSeq(due, 2, Len(due)) ELSE due
  IN  IF ~Running THEN << >>
      ELSE IF wr_en(offer) THEN Append(rest, offer) ELSE rest

WrTick ==
  /\ tick' = ~tick
  /\ wr_phase' = NextPhase(wr_phase, TRUE, FALSE)
  /\ rd_phase' = NextPhase(rd_phase, FALSE, TRUE)
  /\ \E offer \in Offers, clr \in BOOLEAN :
       WrEdge(offer, clr, rd_bin, rd_rst) /\ due' = Exchanged(offer, FALSE)
  /\ UNCHANGED rdVars

RdTick ==
  /\ tick' = ~tick
  /\ wr_phase' = NextPhase(wr_phase, FALSE, TRUE)
  /\ rd_phase' = NextPhase(rd_phase, TRUE, FALSE)
  /\ \E ready, clr \in BOOLEAN :
       RdEdge(ready, clr, wr_bin, wr_rst) /\ due' = Exchanged(NoData, ready)
  /\ UNCHANGED wrVars

\* Wrong on purpose: the pointer crosses in binary, and resolves to anything.
SampledBinary(old, new) == IF new = old THEN {old} ELSE Ptr

\* What a flop takes from a Gray register that moves from old to new at the
\* very edge it samples on: either value when they are one step apart, any
\* value when a reset cleared the register in one jump.
Sampled(old, new) ==
  IF new = old \/ new = Inc(old) THEN {old, new} ELSE Ptr

BothTick ==
  /\ tick' = ~tick
  /\ wr_phase' = NextPhase(wr_phase, TRUE, TRUE)
  /\ rd_phase' = NextPhase(rd_phase, TRUE, TRUE)
  /\ \E offer \in Offers, ready, wclr, rclr \in BOOLEAN :
       \E wp \in Sampled(wr_bin, WrNext(offer)), rp \in Sampled(rd_bin, RdNext(ready)) :
         /\ WrEdge(offer, wclr, rp, rd_rst)
         /\ RdEdge(ready, rclr, wp, wr_rst)
         /\ due' = Exchanged(offer, ready)

Init ==
  /\ wr_phase = "stale" /\ rd_phase = "stale"
  /\ wr_bin = 0 /\ wr_full = FALSE /\ wr_high = 0 /\ wr_ovf = FALSE
  /\ rd_bin = 0 /\ rd_empty = TRUE /\ rd_high = 0 /\ rd_unf = FALSE
  /\ rd_sync = Filled(0) /\ rd_rst_sync = Filled(TRUE)
  /\ wr_sync = Filled(0) /\ wr_rst_sync = Filled(TRUE)
  /\ out_valid = FALSE /\ out_data = NoData
  /\ mem = [a \in 0 .. Depth - 1 |-> NoData]
  /\ due = << >> /\ tick = FALSE

Next == \/ WrTick \/ RdTick \/ BothTick
        \/ AssertReset \/ ReleaseWr \/ ReleaseRd

Spec == Init /\ [][Next]_vars

-----------------------------------------------------------------------------
(* Properties.                                                             *)

TypeOK ==
  /\ wr_phase \in Phases /\ rd_phase \in Phases
  /\ wr_bin \in Ptr /\ rd_bin \in Ptr
  /\ wr_high \in Ptr /\ rd_high \in Ptr
  /\ rd_sync \in [Stage -> Ptr] /\ wr_sync \in [Stage -> Ptr]
  /\ rd_rst_sync \in [Stage -> BOOLEAN] /\ wr_rst_sync \in [Stage -> BOOLEAN]
  /\ wr_full \in BOOLEAN /\ wr_ovf \in BOOLEAN
  /\ rd_empty \in BOOLEAN /\ rd_unf \in BOOLEAN /\ out_valid \in BOOLEAN
  /\ mem \in [0 .. Depth - 1 -> Data \cup {NoData}]
  /\ out_data \in Data \cup {NoData}

\* The words in storage, which neither domain can see exactly.
fill == Dist(wr_bin, rd_bin)

\* Both fill estimates err on the safe side at every instant, however stale
\* the synchronized pointers are: the read side never reads high, the write
\* side never reads low, and neither exceeds DEPTH (the comments on the
\* wr_occupancy and rd_occupancy ports, a_wr_occ_bound, a_rd_occ_bound).
Conservative == "stale" \in {wr_phase, rd_phase}
                \/ (rd_occ <= fill /\ fill <= wr_occ /\ wr_occ <= Depth)

\* The registered flags, one edge older than the pointers they were computed
\* from, never let a domain move when it must not: an accepted word has a free
\* slot, a word read has been written, and the two never meet in one slot.
FlagsSafe ==
  Running => /\ wr_ready => fill < Depth
             /\ core_valid => fill > 0
             /\ wr_ready /\ core_valid => Addr(wr_bin) # Addr(rd_bin)

\* The words inside, oldest first.
Plus(p, k) == IF p + k >= 2 * Depth THEN p + k - 2 * Depth ELSE p + k
held  == [i \in 1 .. fill |-> mem[Addr(Plus(rd_bin, i - 1))]]
queue == IF ~Running THEN << >>
         ELSE IF OutReg /\ out_valid THEN <<out_data>> \o held ELSE held

Channel == INSTANCE FifoSpec
             WITH q <- queue, Cap <- IF OutReg THEN Depth + 1 ELSE Depth

\* Whatever the two clocks do, the crossing is a FIFO of at most DEPTH words
\* (DEPTH + 1 with the output register) that a reset empties, and what is inside
\* is what went in at one port and has not come out at the other: no word is
\* lost at either face, delivered twice or overtaken.
IsFifo == Channel!Spec /\ [][queue' = due']_vars

-----------------------------------------------------------------------------
(* Liveness: both oscillators run.                                         *)

FairSpec == Spec /\ WF_vars(WrTick \/ BothTick) /\ WF_vars(RdTick \/ BothTick)

\* A word that has been written is offered to the reader, and a drained FIFO does
\* not refuse words forever on a stale read pointer, unless a reset comes.
NeitherSideWaits ==
  /\ queue # << >> ~> (rd_valid \/ ~Running)
  /\ (Running /\ queue = << >>) ~> (wr_ready \/ queue # << >> \/ ~Running)
=============================================================================
