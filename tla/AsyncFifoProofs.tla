-------------------------- MODULE AsyncFifoProofs --------------------------
(***************************************************************************)
(* Proofs about AsyncFifo for every depth, chain length and output mode,   *)
(* under the reset contract (LongReset).  The inductive invariant IInv     *)
(* orders the pointers: seen from wr_bin the read pointer and its copies   *)
(* in the synchronizer recede in order, at most DEPTH away; seen from      *)
(* rd_bin the write pointer's copies approach in order; and each flag, an  *)
(* edge old, is still safe for the copy the domain now sees.  On it rests  *)
(* DueInv, and on that the refinement of the abstract channel.             *)
(***************************************************************************)
EXTENDS AsyncFifo, SequenceTheorems, TLAPS

ResetContract == LongReset = TRUE

-----------------------------------------------------------------------------
(* Pointer arithmetic.                                                     *)

\* The distance between two pointers is a pointer.
LEMMA DistType == \A a, b \in Ptr : Dist(a, b) \in Ptr /\ Dist(a, b) \in Nat
  BY DepthAssumption DEF Ptr, Dist

\* Incrementing a pointer wraps it within its range.
LEMMA IncType == \A a \in Ptr : Inc(a) \in Ptr
  BY DepthAssumption DEF Ptr, Inc

\* A write makes the distance to any copy of the read pointer one larger.
LEMMA DistInc ==
  \A a, b \in Ptr : Dist(a, b) < Depth => Dist(Inc(a), b) = Dist(a, b) + 1
  BY DepthAssumption DEF Ptr, Dist, Inc

\* A read makes the distance from any copy of the write pointer one smaller.
LEMMA DistDec ==
  \A a, b \in Ptr : Dist(a, b) > 0 => Dist(a, Inc(b)) = Dist(a, b) - 1
  BY DepthAssumption DEF Ptr, Dist, Inc

\* The distance is zero exactly between equal pointers.
LEMMA DistZero == \A a, b \in Ptr : Dist(a, b) = 0 <=> a = b
  BY DepthAssumption DEF Ptr, Dist

\* Zero is a pointer, and the chain has a first and a last flop.
LEMMA Basics == /\ 0 \in Ptr
                /\ 1 \in Stage /\ SyncStages \in Stage
                /\ \A i \in Stage : i # 1 => i - 1 \in Stage
                /\ \A i \in Stage : i \in Nat
  BY DepthAssumption, StagesAssumption DEF Ptr, Stage

-----------------------------------------------------------------------------
(* The inductive invariant.                                                *)

NoneStale == wr_phase # "stale" /\ rd_phase # "stale"

\* A domain leaves reset only after both have been cleared.
PhaseInv == /\ wr_phase = "stale" => rd_phase \in {"stale", "clear"}
            /\ rd_phase = "stale" => wr_phase \in {"stale", "clear"}

WrZero == /\ wr_bin = 0 /\ wr_full = FALSE /\ wr_high = 0
          /\ \A i \in Stage : rd_sync[i] = 0 /\ rd_rst_sync[i] = TRUE

RdZero == /\ rd_bin = 0 /\ rd_empty = TRUE /\ rd_high = 0 /\ out_valid = FALSE
          /\ \A i \in Stage : wr_sync[i] = 0 /\ wr_rst_sync[i] = TRUE

\* A domain that has had an edge in reset is at its reset values, and so are
\* both while the crossing as a whole is held.
ZeroInv == /\ wr_phase \in {"clear", "seen"} => WrZero
           /\ rd_phase \in {"clear", "seen"} => RdZero
           /\ NoneStale /\ ~Running => WrZero /\ RdZero

\* Older copies of the read pointer are farther behind the write pointer.
RdCopies == /\ \A i \in Stage : /\ Dist(wr_bin, rd_bin) <= Dist(wr_bin, rd_sync[i])
                                /\ Dist(wr_bin, rd_sync[i]) <= Depth
            /\ \A i, j \in Stage :
                  i <= j => Dist(wr_bin, rd_sync[i]) <= Dist(wr_bin, rd_sync[j])

\* Older copies of the write pointer are nearer to the read pointer.
WrCopies == /\ \A i \in Stage : Dist(wr_sync[i], rd_bin) <= Dist(wr_bin, rd_bin)
            /\ \A i, j \in Stage :
                  i <= j => Dist(wr_sync[j], rd_bin) <= Dist(wr_sync[i], rd_bin)

\* A flag that lets its domain move is right about the copy it now sees.
FlagInv == /\ ~wr_full => Dist(wr_bin, rd_bin_wsync) < Depth
           /\ ~rd_empty => Dist(wr_bin_rsync, rd_bin) > 0
           /\ wr_high <= Depth /\ rd_high <= Depth

IInv == /\ TypeOK
        /\ PhaseInv
        /\ ZeroInv
        /\ NoneStale => RdCopies /\ WrCopies /\ FlagInv

-----------------------------------------------------------------------------

\* The initial state satisfies the invariant.
LEMMA InitInv == Init => IInv
<1> SUFFICES ASSUME Init PROVE IInv
  OBVIOUS
<1> USE DEF Init, Filled
<1>1. TypeOK
  BY Basics DEF TypeOK, Phases
<1>2. PhaseInv /\ ZeroInv
  BY DEF PhaseInv, ZeroInv, NoneStale
<1> QED
  BY <1>1, <1>2 DEF IInv, NoneStale

-----------------------------------------------------------------------------
(* One edge of each clock, whatever the other does.                        *)

\* An edge of wr_clk keeps the types of the write domain.
LEMMA WrEdgeType ==
  ASSUME TypeOK, NEW offer \in Offers, NEW clr \in BOOLEAN, NEW ptr \in Ptr,
         NEW rst \in BOOLEAN, WrEdge(offer, clr, ptr, rst)
  PROVE  /\ wr_bin' \in Ptr /\ wr_full' \in BOOLEAN /\ wr_high' \in Ptr
         /\ wr_ovf' \in BOOLEAN /\ rd_sync' \in [Stage -> Ptr]
         /\ rd_rst_sync' \in [Stage -> BOOLEAN]
         /\ mem' \in [0 .. Depth - 1 -> Data \cup {NoData}]
<1> USE DEF TypeOK
<1>1. WrNext(offer) \in Ptr
  BY Basics, IncType DEF WrNext
<1>2. wr_occ \in Ptr
  BY DistType, Basics DEF wr_occ, rd_bin_wsync
<1>3. mem' \in [0 .. Depth - 1 -> Data \cup {NoData}]
  BY DEF WrEdge, Filled, Offers
<1>4. /\ Shift(rd_sync, ptr) \in [Stage -> Ptr]
      /\ Shift(rd_rst_sync, rst) \in [Stage -> BOOLEAN]
  BY Basics DEF Shift
<1> QED
  BY <1>1, <1>2, <1>3, <1>4, Basics DEF WrEdge, Filled

\* An edge of rd_clk keeps the types of the read domain.
LEMMA RdEdgeType ==
  ASSUME TypeOK, NEW ready \in BOOLEAN, NEW clr \in BOOLEAN, NEW ptr \in Ptr,
         NEW rst \in BOOLEAN, RdEdge(ready, clr, ptr, rst)
  PROVE  /\ rd_bin' \in Ptr /\ rd_empty' \in BOOLEAN /\ rd_high' \in Ptr
         /\ rd_unf' \in BOOLEAN /\ wr_sync' \in [Stage -> Ptr]
         /\ wr_rst_sync' \in [Stage -> BOOLEAN]
         /\ out_valid' \in BOOLEAN /\ out_data' \in Data \cup {NoData}
<1> USE DEF TypeOK
<1>1. RdNext(ready) \in Ptr
  BY Basics, IncType DEF RdNext
<1>2. rd_occ \in Ptr
  BY DistType, Basics DEF rd_occ, wr_bin_rsync
<1>3. core_data \in Data \cup {NoData}
  <2>1. Addr(rd_bin) \in 0 .. Depth - 1
    BY DepthAssumption DEF Addr, Ptr
  <2> QED BY <2>1 DEF core_data
<1>4. /\ Shift(wr_sync, ptr) \in [Stage -> Ptr]
      /\ Shift(wr_rst_sync, rst) \in [Stage -> BOOLEAN]
  BY Basics DEF Shift
<1>5. core_valid \in BOOLEAN
  BY DEF core_valid
<1>6. out_valid' \in BOOLEAN /\ out_data' \in Data \cup {NoData}
  BY <1>3, <1>5 DEF RdEdge
<1> QED
  BY <1>1, <1>2, <1>4, <1>6, Basics DEF RdEdge, Filled

\* What a flop samples at a simultaneous edge is a pointer.
LEMMA SampledType ==
  \A old, new \in Ptr : Sampled(old, new) \subseteq Ptr
  BY DEF Sampled

\* Type correctness is inductive.
LEMMA TypeStep == TypeOK /\ [Next]_vars => TypeOK'
<1> SUFFICES ASSUME TypeOK, [Next]_vars PROVE TypeOK'
  OBVIOUS
<1> USE DEF Phases
<1>1. /\ wr_bin \in Ptr /\ rd_bin \in Ptr /\ wr_rst \in BOOLEAN /\ rd_rst \in BOOLEAN
  BY DEF TypeOK, wr_rst, rd_rst
<1>2. \A own, other \in BOOLEAN, p \in Phases : NextPhase(p, own, other) \in Phases
  BY DEF NextPhase
<1>3. CASE WrTick
  <2>1. PICK offer \in Offers, clr \in BOOLEAN : WrEdge(offer, clr, rd_bin, rd_rst)
    BY <1>3 DEF WrTick
  <2>2. wr_phase' \in Phases /\ rd_phase' \in Phases
    BY <1>2, <1>3 DEF WrTick, TypeOK
  <2> QED
    BY <2>1, <2>2, <1>1, <1>3, WrEdgeType DEF WrTick, rdVars, TypeOK
<1>4. CASE RdTick
  <2>1. PICK ready \in BOOLEAN, clr \in BOOLEAN : RdEdge(ready, clr, wr_bin, wr_rst)
    BY <1>4 DEF RdTick
  <2>2. wr_phase' \in Phases /\ rd_phase' \in Phases
    BY <1>2, <1>4 DEF RdTick, TypeOK
  <2> QED
    BY <2>1, <2>2, <1>1, <1>4, RdEdgeType DEF RdTick, wrVars, TypeOK
<1>5. CASE BothTick
  <2>1. PICK offer \in Offers, ready \in BOOLEAN, wclr \in BOOLEAN, rclr \in BOOLEAN :
          \E wp \in Sampled(wr_bin, WrNext(offer)), rp \in Sampled(rd_bin, RdNext(ready)) :
            /\ WrEdge(offer, wclr, rp, rd_rst)
            /\ RdEdge(ready, rclr, wp, wr_rst)
    BY <1>5 DEF BothTick
  <2>2. WrNext(offer) \in Ptr /\ RdNext(ready) \in Ptr
    BY Basics, IncType DEF WrNext, RdNext, TypeOK
  <2>3. PICK wp \in Ptr, rp \in Ptr :
            /\ WrEdge(offer, wclr, rp, rd_rst)
            /\ RdEdge(ready, rclr, wp, wr_rst)
    BY <2>1, <2>2, <1>1, SampledType
  <2>4. wr_phase' \in Phases /\ rd_phase' \in Phases
    BY <1>2, <1>5 DEF BothTick, TypeOK
  <2> QED
    BY <2>3, <2>4, <1>1, WrEdgeType, RdEdgeType DEF TypeOK
<1>6. CASE AssertReset \/ ReleaseWr \/ ReleaseRd
  BY <1>6 DEF AssertReset, ReleaseWr, ReleaseRd, wrVars, rdVars, TypeOK
<1>7. CASE UNCHANGED vars
  BY <1>7 DEF vars, wrVars, rdVars, TypeOK
<1> QED
  BY <1>3, <1>4, <1>5, <1>6, <1>7 DEF Next

\* Every variable of async_fifo keeps its type, for every depth, chain length,
\* output mode and reset behaviour.
THEOREM TypeCorrect == Spec => []TypeOK
<1>1. Init => TypeOK
  BY InitInv DEF IInv
<1> QED
  BY <1>1, TypeStep, PTL DEF Spec

-----------------------------------------------------------------------------
(* The order of the pointers.                                              *)

\* An edge of wr_clk while the domain runs: the write pointer moves by at most
\* one, never past a full lap from the oldest copy of the read pointer, and the
\* new full flag is right about that copy.
LEMMA WrMove ==
  ASSUME TypeOK, RdCopies, FlagInv, wr_phase = "run",
         NEW offer \in Offers, NEW clr \in BOOLEAN, NEW ptr \in Ptr,
         NEW rst \in BOOLEAN, WrEdge(offer, clr, ptr, rst)
  PROVE  \E k \in {0, 1} :
           /\ \A b \in Ptr : Dist(wr_bin, b) <= wr_occ
                             => Dist(wr_bin', b) = Dist(wr_bin, b) + k
           /\ wr_occ + k <= Depth
           /\ ~wr_full' => wr_occ + k < Depth
           /\ wr_high' <= Depth
           /\ rd_sync' = Shift(rd_sync, ptr)
<1>1. wr_occ \in Nat /\ wr_occ <= Depth /\ rd_bin_wsync \in Ptr /\ wr_bin \in Ptr
  BY Basics, DistType DEF TypeOK, wr_occ, rd_bin_wsync, RdCopies
<1>2. /\ wr_bin' = WrNext(offer)
      /\ ~wr_full' => Dist(wr_bin', rd_bin_wsync) # Depth
      /\ wr_high' = IF clr \/ wr_occ > wr_high THEN wr_occ ELSE wr_high
      /\ rd_sync' = Shift(rd_sync, ptr)
  BY DEF WrEdge, Filled, wr_rst
<1>3. CASE wr_en(offer)
  <2>1. wr_bin' = Inc(wr_bin) /\ wr_occ < Depth
    BY <1>2, <1>3 DEF WrNext, wr_rst, wr_en, wr_ready, FlagInv, wr_occ
  <2>2. \A b \in Ptr : Dist(wr_bin, b) <= wr_occ
                        => Dist(wr_bin', b) = Dist(wr_bin, b) + 1
    BY <2>1, <1>1, DistInc, DistType, DepthAssumption
  <2>3. Dist(wr_bin', rd_bin_wsync) = wr_occ + 1
    BY <2>1, <2>2, <1>1 DEF wr_occ
  <2>4. wr_high' <= Depth
    BY <1>1, <1>2 DEF FlagInv
  <2>5. ~wr_full' => wr_occ + 1 < Depth
    BY <2>1, <2>3, <1>1, <1>2, DepthAssumption
  <2> QED
    BY <2>1, <2>2, <2>4, <2>5, <1>1, <1>2, DepthAssumption
<1>4. CASE ~wr_en(offer)
  <2>1. wr_bin' = wr_bin
    BY <1>2, <1>4 DEF WrNext, wr_rst
  <2>2. wr_high' <= Depth
    BY <1>1, <1>2 DEF FlagInv
  <2>3. \A b \in Ptr : Dist(wr_bin', b) = Dist(wr_bin, b) + 0
    BY <2>1, <1>1, DistType
  <2>4. ~wr_full' => wr_occ + 0 < Depth
    BY <2>1, <1>1, <1>2, DepthAssumption DEF wr_occ
  <2> QED
    BY <2>2, <2>3, <2>4, <1>1, <1>2, DepthAssumption
<1> QED
  BY <1>3, <1>4

\* An edge of rd_clk while the domain runs, in the mirror direction.
LEMMA RdMove ==
  ASSUME TypeOK, RdCopies, WrCopies, FlagInv, rd_phase = "run",
         NEW ready \in BOOLEAN, NEW clr \in BOOLEAN, NEW ptr \in Ptr,
         NEW rst \in BOOLEAN, RdEdge(ready, clr, ptr, rst)
  PROVE  \E l \in {0, 1} :
           /\ \A a \in Ptr : Dist(a, rd_bin) >= rd_occ
                             => Dist(a, rd_bin') = Dist(a, rd_bin) - l
           /\ rd_occ >= l
           /\ ~rd_empty' => rd_occ > l
           /\ rd_high' <= Depth
           /\ wr_sync' = Shift(wr_sync, ptr)
           /\ l = 0 => rd_bin' = rd_bin
           /\ l = 1 => rd_bin' = Inc(rd_bin)
<1>1. rd_occ \in Nat /\ rd_occ <= Depth /\ wr_bin_rsync \in Ptr /\ rd_bin \in Ptr
  <2>1. /\ rd_occ \in Nat /\ wr_bin_rsync \in Ptr /\ rd_bin \in Ptr
        /\ Dist(wr_bin, rd_bin) \in Nat /\ wr_occ \in Nat
    BY Basics, DistType DEF TypeOK, rd_occ, wr_bin_rsync, wr_occ, rd_bin_wsync
  <2>2. rd_occ <= Dist(wr_bin, rd_bin) /\ Dist(wr_bin, rd_bin) <= wr_occ /\ wr_occ <= Depth
    BY Basics DEF RdCopies, WrCopies, rd_occ, wr_bin_rsync, wr_occ, rd_bin_wsync
  <2> QED BY <2>1, <2>2, DepthAssumption
<1>2. /\ rd_bin' = RdNext(ready)
      /\ ~rd_empty' => rd_bin' # wr_bin_rsync
      /\ rd_high' = IF clr \/ rd_occ > rd_high THEN rd_occ ELSE rd_high
      /\ wr_sync' = Shift(wr_sync, ptr)
  BY DEF RdEdge, Filled, rd_rst
<1>3. rd_high' <= Depth
  BY <1>1, <1>2 DEF FlagInv
<1>4. CASE rd_en(ready)
  <2>1. rd_bin' = Inc(rd_bin) /\ rd_occ > 0
    BY <1>2, <1>4 DEF RdNext, rd_rst, rd_en, core_valid, FlagInv, rd_occ
  <2>2. \A a \in Ptr : Dist(a, rd_bin) >= rd_occ
                        => Dist(a, rd_bin') = Dist(a, rd_bin) - 1
    BY <2>1, <1>1, DistDec, DistType
  <2>3. Dist(wr_bin_rsync, rd_bin') = rd_occ - 1
    BY <2>1, <2>2, <1>1 DEF rd_occ
  <2>4. rd_bin' \in Ptr
    BY <2>1, <1>1, IncType
  <2>5. ~rd_empty' => rd_occ > 1
    BY <2>1, <2>3, <2>4, <1>1, <1>2, DistZero
  <2> QED
    BY <2>1, <2>2, <2>5, <1>1, <1>2, <1>3
<1>5. CASE ~rd_en(ready)
  <2>1. rd_bin' = rd_bin
    BY <1>2, <1>5 DEF RdNext, rd_rst
  <2>2. \A a \in Ptr : Dist(a, rd_bin') = Dist(a, rd_bin) - 0
    BY <2>1, <1>1, DistType
  <2>3. ~rd_empty' => rd_occ > 0
    BY <2>1, <1>1, <1>2, DistZero DEF rd_occ
  <2> QED
    BY <2>1, <2>2, <2>3, <1>1, <1>2, <1>3
<1> QED
  BY <1>4, <1>5

Ordered == RdCopies /\ WrCopies /\ FlagInv

\* Two domains at their reset values are in order.
LEMMA ZeroOrdered == TypeOK /\ WrZero /\ RdZero => Ordered
<1> SUFFICES ASSUME TypeOK, WrZero, RdZero PROVE Ordered
  OBVIOUS
<1>1. Dist(0, 0) = 0
  BY DistZero, Basics
<1>2. RdCopies
  BY <1>1, DepthAssumption DEF RdCopies, WrZero, RdZero
<1>3. WrCopies
  BY <1>1 DEF WrCopies, WrZero, RdZero
<1>4. FlagInv
  BY <1>1, Basics, DepthAssumption DEF FlagInv, WrZero, RdZero, rd_bin_wsync
<1> QED
  BY <1>2, <1>3, <1>4 DEF Ordered

\* The same in the next state.
LEMMA ZeroOrderedNext == TypeOK' /\ WrZero' /\ RdZero' => Ordered'
<1> SUFFICES ASSUME TypeOK', WrZero', RdZero' PROVE Ordered'
  OBVIOUS
<1>1. Dist(0, 0) = 0
  BY DistZero, Basics
<1>2. RdCopies'
  BY <1>1, DepthAssumption DEF RdCopies, WrZero, RdZero
<1>3. WrCopies'
  BY <1>1 DEF WrCopies, WrZero, RdZero
<1>4. FlagInv'
  BY <1>1, Basics, DepthAssumption DEF FlagInv, WrZero, RdZero, rd_bin_wsync
<1> QED
  BY <1>2, <1>3, <1>4 DEF Ordered

\* The three places a pointer distance is taken from, in order.
LEMMA OccOrder ==
  ASSUME TypeOK, Ordered
  PROVE  /\ rd_occ \in Nat /\ Dist(wr_bin, rd_bin) \in Nat /\ wr_occ \in Nat
         /\ rd_occ <= Dist(wr_bin, rd_bin) /\ Dist(wr_bin, rd_bin) <= wr_occ
         /\ wr_occ <= Depth
         /\ \A i \in Stage : /\ Dist(wr_bin, rd_sync[i]) <= wr_occ
                             /\ Dist(wr_sync[i], rd_bin) >= rd_occ
<1>1. \A i \in Stage : i <= SyncStages
  BY DEF Stage
<1>2. /\ rd_occ \in Nat /\ Dist(wr_bin, rd_bin) \in Nat /\ wr_occ \in Nat
  BY Basics, DistType DEF TypeOK, rd_occ, wr_bin_rsync, wr_occ, rd_bin_wsync
<1>3. \A i \in Stage : /\ Dist(wr_bin, rd_sync[i]) <= wr_occ
                        /\ Dist(wr_sync[i], rd_bin) >= rd_occ
  <2> SUFFICES ASSUME NEW i \in Stage
               PROVE  /\ Dist(wr_bin, rd_sync[i]) <= wr_occ
                      /\ Dist(wr_sync[i], rd_bin) >= rd_occ
    OBVIOUS
  <2>1. Dist(wr_bin, rd_sync[i]) <= wr_occ
    BY <1>1, Basics DEF Ordered, RdCopies, wr_occ, rd_bin_wsync
  <2>2. Dist(wr_sync[i], rd_bin) \in Nat /\ rd_occ <= Dist(wr_sync[i], rd_bin)
    BY <1>1, Basics, DistType DEF Ordered, WrCopies, rd_occ, wr_bin_rsync, TypeOK
  <2> QED BY <2>1, <2>2, <1>2
<1> QED
  BY <1>2, <1>3, Basics DEF Ordered, RdCopies, WrCopies, rd_occ, wr_bin_rsync,
     wr_occ, rd_bin_wsync

\* The pointers stay in order when the write pointer moves by k, the read
\* pointer by l, and each chain takes its old contents or shifts in a value
\* its source register held before or after the edge.
LEMMA OrderStep ==
  ASSUME TypeOK, TypeOK', Ordered,
         NEW k \in {0, 1}, NEW l \in {0, 1}, NEW rp, NEW wp,
         \A b \in Ptr : Dist(wr_bin, b) <= wr_occ
                        => Dist(wr_bin', b) = Dist(wr_bin, b) + k,
         \A a \in Ptr : Dist(a, rd_bin) >= rd_occ
                        => Dist(a, rd_bin') = Dist(a, rd_bin) - l,
         wr_occ + k <= Depth, rd_occ >= l,
         wr_high' <= Depth, rd_high' <= Depth,
         ~wr_full' => wr_occ + k < Depth,
         ~rd_empty' => rd_occ > l,
         rd_sync' = rd_sync \/ (rp \in {rd_bin, rd_bin'} /\ rd_sync' = Shift(rd_sync, rp)),
         wr_sync' = wr_sync \/ (wp \in {wr_bin, wr_bin'} /\ wr_sync' = Shift(wr_sync, wp))
  PROVE  Ordered'
<1> DEFINE f == Dist(wr_bin, rd_bin)
<1>1. /\ wr_bin \in Ptr /\ rd_bin \in Ptr /\ wr_bin' \in Ptr /\ rd_bin' \in Ptr
      /\ \A i \in Stage : /\ rd_sync[i] \in Ptr /\ wr_sync[i] \in Ptr
                          /\ Dist(wr_bin, rd_sync[i]) \in Nat
                          /\ Dist(wr_sync[i], rd_bin) \in Nat
                          /\ Dist(wr_bin', rd_sync'[i]) \in Nat
                          /\ Dist(wr_sync'[i], rd_bin') \in Nat
  BY DistType DEF TypeOK
<1>2. /\ f \in Nat /\ f <= wr_occ /\ rd_occ <= f /\ wr_occ \in Nat /\ rd_occ \in Nat
  BY OccOrder
<1>3. Dist(wr_bin', rd_bin) = f + k /\ Dist(wr_bin, rd_bin') = f - l
  BY <1>1, <1>2
<1>4. Dist(wr_bin', rd_bin') = f + k - l
  BY <1>1, <1>2, <1>3
<1>5. \A i \in Stage : Dist(wr_bin', rd_sync[i]) = Dist(wr_bin, rd_sync[i]) + k
  BY <1>1, OccOrder
<1>6. \A i \in Stage : Dist(wr_sync[i], rd_bin') = Dist(wr_sync[i], rd_bin) - l
  BY <1>1, OccOrder
<1>7. \A i, j \in Stage : i <= j => /\ Dist(wr_bin, rd_sync[i]) <= Dist(wr_bin, rd_sync[j])
                                     /\ Dist(wr_sync[j], rd_bin) <= Dist(wr_sync[i], rd_bin)
  BY DEF Ordered, RdCopies, WrCopies
<1>8. \A i \in Stage : /\ f <= Dist(wr_bin, rd_sync[i]) /\ Dist(wr_bin, rd_sync[i]) <= wr_occ
                        /\ Dist(wr_sync[i], rd_bin) <= f /\ rd_occ <= Dist(wr_sync[i], rd_bin)
  <2>1. \A i \in Stage : f <= Dist(wr_bin, rd_sync[i]) /\ Dist(wr_sync[i], rd_bin) <= f
    BY DEF Ordered, RdCopies, WrCopies
  <2> QED BY <2>1, <1>1, <1>2, OccOrder
<1>9. RdCopies'
  <2>1. CASE rd_sync' = rd_sync
    BY <2>1, <1>1, <1>2, <1>4, <1>5, <1>7, <1>8, DepthAssumption DEF RdCopies
  <2>2. CASE rp \in {rd_bin, rd_bin'} /\ rd_sync' = Shift(rd_sync, rp)
    <3>1. /\ rd_sync'[1] = rp
          /\ \A i \in Stage : i # 1 => i - 1 \in Stage /\ rd_sync'[i] = rd_sync[i - 1]
      BY <2>2, Basics DEF Shift
    <3>2. f + k - l <= Dist(wr_bin', rd_sync'[1]) /\ Dist(wr_bin', rd_sync'[1]) <= f + k
      BY <3>1, <2>2, <1>2, <1>3, <1>4
    <3>3. \A i \in Stage : i # 1 => /\ Dist(wr_bin', rd_sync'[i]) = Dist(wr_bin, rd_sync[i - 1]) + k
                                     /\ Dist(wr_bin', rd_sync'[i]) >= f + k
                                     /\ Dist(wr_bin', rd_sync'[i]) <= wr_occ + k
      BY <3>1, <1>1, <1>2, <1>5, <1>8
    <3>4. \A i \in Stage : /\ f + k - l <= Dist(wr_bin', rd_sync'[i])
                            /\ Dist(wr_bin', rd_sync'[i]) <= Depth
      BY <3>2, <3>3, <1>1, <1>2, Basics, DepthAssumption
    <3>5. ASSUME NEW i \in Stage, NEW j \in Stage, i <= j
          PROVE  Dist(wr_bin', rd_sync'[i]) <= Dist(wr_bin', rd_sync'[j])
      <4>1. CASE j = 1
        BY <4>1, <3>5, <1>1 DEF Stage
      <4>2. CASE j # 1 /\ i = 1
        BY <4>2, <3>2, <3>3, <1>1, <1>2
      <4>3. CASE j # 1 /\ i # 1
        <5>1. i - 1 \in Stage /\ j - 1 \in Stage /\ i - 1 <= j - 1
          BY <4>3, <3>5, Basics
        <5> QED BY <5>1, <4>3, <3>3, <1>1, <1>7
      <4> QED BY <4>1, <4>2, <4>3
    <3> QED BY <3>4, <3>5, <1>4 DEF RdCopies
  <2> QED BY <2>1, <2>2
<1>10. WrCopies'
  <2>1. CASE wr_sync' = wr_sync
    BY <2>1, <1>1, <1>2, <1>4, <1>6, <1>7, <1>8 DEF WrCopies
  <2>2. CASE wp \in {wr_bin, wr_bin'} /\ wr_sync' = Shift(wr_sync, wp)
    <3>1. /\ wr_sync'[1] = wp
          /\ \A i \in Stage : i # 1 => i - 1 \in Stage /\ wr_sync'[i] = wr_sync[i - 1]
      BY <2>2, Basics DEF Shift
    <3>2. f - l <= Dist(wr_sync'[1], rd_bin') /\ Dist(wr_sync'[1], rd_bin') <= f + k - l
      BY <3>1, <2>2, <1>2, <1>3, <1>4
    <3>3. \A i \in Stage : i # 1 => /\ Dist(wr_sync'[i], rd_bin') = Dist(wr_sync[i - 1], rd_bin) - l
                                     /\ Dist(wr_sync'[i], rd_bin') <= f - l
      BY <3>1, <1>1, <1>2, <1>6, <1>8
    <3>4. \A i \in Stage : Dist(wr_sync'[i], rd_bin') <= f + k - l
      BY <3>2, <3>3, <1>1, <1>2, Basics
    <3>5. ASSUME NEW i \in Stage, NEW j \in Stage, i <= j
          PROVE  Dist(wr_sync'[j], rd_bin') <= Dist(wr_sync'[i], rd_bin')
      <4>1. CASE j = 1
        BY <4>1, <3>5, <1>1 DEF Stage
      <4>2. CASE j # 1 /\ i = 1
        BY <4>2, <3>2, <3>3, <1>1, <1>2
      <4>3. CASE j # 1 /\ i # 1
        <5>1. i - 1 \in Stage /\ j - 1 \in Stage /\ i - 1 <= j - 1
          BY <4>3, <3>5, Basics
        <5> QED BY <5>1, <4>3, <3>3, <1>1, <1>7
      <4> QED BY <4>1, <4>2, <4>3
    <3> QED BY <3>4, <3>5, <1>4 DEF WrCopies
  <2> QED BY <2>1, <2>2
<1>11. FlagInv'
  <2>1. Dist(wr_bin', rd_bin_wsync') <= wr_occ + k
    <3>1. CASE rd_sync' = rd_sync
      BY <3>1, <1>1, <1>2, <1>5, <1>8, Basics DEF rd_bin_wsync
    <3>2. CASE rd_sync' = Shift(rd_sync, rp)
      <4>1. rd_bin_wsync' = rd_sync[SyncStages - 1] /\ SyncStages - 1 \in Stage
        BY <3>2, StagesAssumption DEF rd_bin_wsync, Shift, Stage
      <4> QED BY <4>1, <1>1, <1>2, <1>5, <1>8
    <3> QED BY <3>1, <3>2
  <2>2. Dist(wr_bin_rsync', rd_bin') >= rd_occ - l
    <3>1. CASE wr_sync' = wr_sync
      BY <3>1, <1>1, <1>2, <1>6, <1>8, Basics DEF wr_bin_rsync
    <3>2. CASE wr_sync' = Shift(wr_sync, wp)
      <4>1. wr_bin_rsync' = wr_sync[SyncStages - 1] /\ SyncStages - 1 \in Stage
        BY <3>2, StagesAssumption DEF wr_bin_rsync, Shift, Stage
      <4> QED BY <4>1, <1>1, <1>2, <1>6, <1>8
    <3> QED BY <3>1, <3>2
  <2>3. Dist(wr_bin', rd_bin_wsync') \in Nat /\ Dist(wr_bin_rsync', rd_bin') \in Nat
    BY <1>1, Basics DEF rd_bin_wsync, wr_bin_rsync
  <2> QED BY <2>1, <2>2, <2>3, <1>2, DepthAssumption DEF FlagInv
<1> QED
  BY <1>9, <1>10, <1>11 DEF Ordered

-----------------------------------------------------------------------------
(* Reset.                                                                  *)

\* An edge in reset, or an edge while the other side is seen in reset, leaves
\* the write domain at its reset values.
LEMMA WrQuiet ==
  ASSUME TypeOK, NEW offer \in Offers, NEW clr \in BOOLEAN, NEW ptr, NEW rst,
         WrEdge(offer, clr, ptr, rst),
         wr_rst \/ (WrZero /\ ptr = 0 /\ rst = TRUE)
  PROVE  WrZero'
<1>1. CASE wr_rst
  BY <1>1 DEF WrEdge, Filled, WrZero, WrNext
<1>2. CASE ~wr_rst /\ WrZero /\ ptr = 0 /\ rst = TRUE
  <2>1. ~wr_en(offer)
    BY <1>2, Basics DEF wr_en, wr_ready, wr_hold, WrZero
  <2>2. wr_bin' = 0 /\ rd_bin_wsync = 0 /\ wr_bin = 0
    BY <1>2, <2>1, Basics DEF WrEdge, Filled, WrNext, WrZero, rd_bin_wsync
  <2>3. Dist(0, 0) = 0
    BY Basics, DistZero
  <2>4. wr_full' = FALSE /\ wr_high' = 0
    <3>1. WrNext(offer) = 0 /\ wr_occ = 0 /\ wr_high = 0
      BY <1>2, <2>1, <2>2, <2>3 DEF WrNext, wr_occ, WrZero
    <3>2. (Dist(WrNext(offer), rd_bin_wsync) = Depth) = FALSE
      BY <2>2, <2>3, <3>1, DepthAssumption
    <3> QED BY <1>2, <3>1, <3>2 DEF WrEdge
  <2>5. /\ rd_sync' = Shift(rd_sync, 0) /\ rd_rst_sync' = Shift(rd_rst_sync, TRUE)
    BY <1>2 DEF WrEdge
  <2>6. \A i \in Stage : rd_sync'[i] = 0 /\ rd_rst_sync'[i] = TRUE
    BY <1>2, <2>5, Basics DEF Shift, WrZero
  <2> QED BY <2>2, <2>4, <2>6 DEF WrZero
<1> QED
  BY <1>1, <1>2

\* The mirror of WrQuiet.
LEMMA RdQuiet ==
  ASSUME TypeOK, NEW ready \in BOOLEAN, NEW clr \in BOOLEAN, NEW ptr, NEW rst,
         RdEdge(ready, clr, ptr, rst),
         rd_rst \/ (RdZero /\ ptr = 0 /\ rst = TRUE)
  PROVE  RdZero'
<1>1. CASE rd_rst
  BY <1>1 DEF RdEdge, Filled, RdZero, RdNext
<1>2. CASE ~rd_rst /\ RdZero /\ ptr = 0 /\ rst = TRUE
  <2>1. core_valid = FALSE
    BY <1>2, Basics DEF core_valid, rd_hold, RdZero
  <2>2. rd_bin' = 0 /\ wr_bin_rsync = 0 /\ rd_bin = 0
    BY <1>2, <2>1, Basics DEF RdEdge, Filled, RdNext, rd_en, RdZero, wr_bin_rsync
  <2>3. Dist(0, 0) = 0
    BY Basics, DistZero
  <2>4. rd_empty' = TRUE /\ rd_high' = 0 /\ out_valid' = FALSE
    BY <1>2, <2>1, <2>2, <2>3 DEF RdEdge, Filled, RdNext, rd_occ, RdZero
  <2>5. /\ wr_sync' = Shift(wr_sync, 0) /\ wr_rst_sync' = Shift(wr_rst_sync, TRUE)
    BY <1>2 DEF RdEdge
  <2>6. \A i \in Stage : wr_sync'[i] = 0 /\ wr_rst_sync'[i] = TRUE
    BY <1>2, <2>5, Basics DEF Shift, RdZero
  <2> QED BY <2>2, <2>4, <2>6 DEF RdZero
<1> QED
  BY <1>1, <1>2

\* How the reset phases move at a clock edge.
LEMMA PhaseStep ==
  /\ \A own, other \in BOOLEAN : NextPhase("run", own, other) = "run"
  /\ \A own, other \in BOOLEAN : NextPhase("seen", own, other) = "seen"
  /\ \A own \in BOOLEAN : NextPhase("clear", own, FALSE) = "clear"
  /\ \A own \in BOOLEAN : NextPhase("clear", own, TRUE) = "seen"
  /\ \A other \in BOOLEAN : NextPhase("stale", TRUE, other) = "clear"
  /\ \A other \in BOOLEAN : NextPhase("stale", FALSE, other) = "stale"
  BY DEF NextPhase

\* The invariant's reset half and its order half after an edge that takes both
\* domains, or the one that ticks, to their reset values.
LEMMA ZeroNext == TypeOK' /\ PhaseInv' /\ WrZero' /\ RdZero' => IInv'
  BY ZeroOrderedNext DEF IInv, ZeroInv, Ordered

\* IInv is preserved by an edge of wr_clk alone.
LEMMA WrTickInv == IInv /\ TypeOK' /\ WrTick => IInv'
<1> SUFFICES ASSUME IInv, TypeOK', WrTick PROVE IInv'
  OBVIOUS
<1> USE DEF Phases
<1>1. PICK offer \in Offers, clr \in BOOLEAN : WrEdge(offer, clr, rd_bin, rd_rst)
  BY DEF WrTick
<1>2. /\ wr_phase' = NextPhase(wr_phase, TRUE, FALSE)
      /\ rd_phase' = NextPhase(rd_phase, FALSE, TRUE)
      /\ UNCHANGED rdVars /\ TypeOK
  BY DEF WrTick, IInv
<1>3. PhaseInv'
  BY <1>2, PhaseStep DEF PhaseInv, IInv, TypeOK
<1>4. CASE Running
  <2>1. wr_phase' = "run" /\ rd_phase' = "run"
    BY <1>2, <1>4, PhaseStep DEF Running
  <2>2. Ordered
    BY <1>4 DEF IInv, Ordered, Running, NoneStale
  <2>3. rd_bin \in Ptr /\ rd_rst \in BOOLEAN
    BY <1>2 DEF TypeOK, rd_rst
  <2>4. PICK k \in {0, 1} :
           /\ \A b \in Ptr : Dist(wr_bin, b) <= wr_occ
                             => Dist(wr_bin', b) = Dist(wr_bin, b) + k
           /\ wr_occ + k <= Depth
           /\ ~wr_full' => wr_occ + k < Depth
           /\ wr_high' <= Depth
           /\ rd_sync' = Shift(rd_sync, rd_bin)
    BY <1>1, <1>2, <1>4, <2>2, <2>3, WrMove DEF Ordered, Running
  <2>5. /\ rd_bin' = rd_bin /\ rd_high' = rd_high /\ wr_sync' = wr_sync
        /\ rd_empty' = rd_empty
    BY <1>2 DEF rdVars
  <2>6. \A a \in Ptr : Dist(a, rd_bin) >= rd_occ => Dist(a, rd_bin') = Dist(a, rd_bin) - 0
    BY <2>3, <2>5, DistType
  <2>7. rd_occ >= 0 /\ (~rd_empty' => rd_occ > 0) /\ rd_high' <= Depth
    BY <1>2, <2>2, <2>5, OccOrder DEF Ordered, FlagInv, rd_occ
  <2>8. Ordered'
    BY <1>2, <2>2, <2>4, <2>5, <2>6, <2>7, OrderStep
  <2> QED
    BY <1>3, <2>1, <2>8 DEF IInv, ZeroInv, Ordered, Running
<1>5. CASE NoneStale /\ ~Running
  <2>1. WrZero /\ RdZero
    BY <1>5 DEF IInv, ZeroInv
  <2>2. wr_rst \/ rd_rst = TRUE
    BY <1>5 DEF Running, wr_rst, rd_rst
  <2>3. WrZero'
    BY <1>1, <1>2, <2>1, <2>2, WrQuiet DEF RdZero
  <2>4. RdZero'
    BY <1>2, <2>1 DEF RdZero, rdVars
  <2> QED BY <1>3, <2>3, <2>4, ZeroNext
<1>6. CASE ~NoneStale
  <2>1. wr_rst
    BY <1>2, <1>6 DEF IInv, PhaseInv, NoneStale, wr_rst
  <2>2. WrZero'
    BY <1>1, <1>2, <2>1, WrQuiet
  <2>3. CASE rd_phase = "stale"
    <3>1. rd_phase' = "stale"
      BY <1>2, <2>3, PhaseStep
    <3> QED BY <1>3, <2>2, <3>1 DEF IInv, ZeroInv, NoneStale
  <2>4. CASE rd_phase # "stale"
    <3>1. RdZero
      BY <1>6, <2>4, <1>2 DEF IInv, ZeroInv, PhaseInv, NoneStale
    <3>2. RdZero'
      BY <1>2, <3>1 DEF RdZero, rdVars
    <3> QED BY <1>3, <2>2, <3>2, ZeroNext
  <2> QED BY <2>3, <2>4
<1> QED
  BY <1>4, <1>5, <1>6 DEF Running, NoneStale

\* IInv is preserved by an edge of rd_clk alone.
LEMMA RdTickInv == IInv /\ TypeOK' /\ RdTick => IInv'
<1> SUFFICES ASSUME IInv, TypeOK', RdTick PROVE IInv'
  OBVIOUS
<1> USE DEF Phases
<1>1. PICK ready \in BOOLEAN, clr \in BOOLEAN : RdEdge(ready, clr, wr_bin, wr_rst)
  BY DEF RdTick
<1>2. /\ wr_phase' = NextPhase(wr_phase, FALSE, TRUE)
      /\ rd_phase' = NextPhase(rd_phase, TRUE, FALSE)
      /\ UNCHANGED wrVars /\ TypeOK
  BY DEF RdTick, IInv
<1>3. PhaseInv'
  BY <1>2, PhaseStep DEF PhaseInv, IInv, TypeOK
<1>4. CASE Running
  <2>1. wr_phase' = "run" /\ rd_phase' = "run"
    BY <1>2, <1>4, PhaseStep DEF Running
  <2>2. Ordered
    BY <1>4 DEF IInv, Ordered, Running, NoneStale
  <2>3. wr_bin \in Ptr /\ wr_rst \in BOOLEAN
    BY <1>2 DEF TypeOK, wr_rst
  <2>4. PICK l \in {0, 1} :
           /\ \A a \in Ptr : Dist(a, rd_bin) >= rd_occ
                             => Dist(a, rd_bin') = Dist(a, rd_bin) - l
           /\ rd_occ >= l
           /\ ~rd_empty' => rd_occ > l
           /\ rd_high' <= Depth
           /\ wr_sync' = Shift(wr_sync, wr_bin)
    BY <1>1, <1>2, <1>4, <2>2, <2>3, RdMove DEF Ordered, Running
  <2>5. /\ wr_bin' = wr_bin /\ wr_high' = wr_high /\ rd_sync' = rd_sync
        /\ wr_full' = wr_full
    BY <1>2 DEF wrVars
  <2>6. \A b \in Ptr : Dist(wr_bin, b) <= wr_occ => Dist(wr_bin', b) = Dist(wr_bin, b) + 0
    BY <2>3, <2>5, DistType
  <2>7. wr_occ + 0 <= Depth /\ (~wr_full' => wr_occ + 0 < Depth) /\ wr_high' <= Depth
    BY <1>2, <2>2, <2>5, OccOrder DEF Ordered, FlagInv, wr_occ
  <2>8. Ordered'
    BY <1>2, <2>2, <2>4, <2>5, <2>6, <2>7, OrderStep
  <2> QED
    BY <1>3, <2>1, <2>8 DEF IInv, ZeroInv, Ordered, Running
<1>5. CASE NoneStale /\ ~Running
  <2>1. WrZero /\ RdZero
    BY <1>5 DEF IInv, ZeroInv
  <2>2. rd_rst \/ wr_rst = TRUE
    BY <1>5 DEF Running, wr_rst, rd_rst
  <2>3. RdZero'
    BY <1>1, <1>2, <2>1, <2>2, RdQuiet DEF WrZero
  <2>4. WrZero'
    BY <1>2, <2>1 DEF WrZero, wrVars
  <2> QED BY <1>3, <2>3, <2>4, ZeroNext
<1>6. CASE ~NoneStale
  <2>1. rd_rst
    BY <1>2, <1>6 DEF IInv, PhaseInv, NoneStale, rd_rst
  <2>2. RdZero'
    BY <1>1, <1>2, <2>1, RdQuiet
  <2>3. CASE wr_phase = "stale"
    <3>1. wr_phase' = "stale"
      BY <1>2, <2>3, PhaseStep
    <3> QED BY <1>3, <2>2, <3>1 DEF IInv, ZeroInv, NoneStale
  <2>4. CASE wr_phase # "stale"
    <3>1. WrZero
      BY <1>6, <2>4, <1>2 DEF IInv, ZeroInv, PhaseInv, NoneStale
    <3>2. WrZero'
      BY <1>2, <3>1 DEF WrZero, wrVars
    <3> QED BY <1>3, <2>2, <3>2, ZeroNext
  <2> QED BY <2>3, <2>4
<1> QED
  BY <1>4, <1>5, <1>6 DEF Running, NoneStale

\* IInv is preserved when both clocks have an edge at once.
LEMMA BothTickInv == IInv /\ TypeOK' /\ BothTick => IInv'
<1> SUFFICES ASSUME IInv, TypeOK', BothTick PROVE IInv'
  OBVIOUS
<1> USE DEF Phases
<1>0. TypeOK
  BY DEF IInv
<1>1. PICK offer \in Offers, ready \in BOOLEAN, wclr \in BOOLEAN, rclr \in BOOLEAN :
         \E wp \in Sampled(wr_bin, WrNext(offer)), rp \in Sampled(rd_bin, RdNext(ready)) :
            /\ WrEdge(offer, wclr, rp, rd_rst)
            /\ RdEdge(ready, rclr, wp, wr_rst)
  BY DEF BothTick
<1>2. PICK wp \in Sampled(wr_bin, WrNext(offer)), rp \in Sampled(rd_bin, RdNext(ready)) :
            /\ WrEdge(offer, wclr, rp, rd_rst)
            /\ RdEdge(ready, rclr, wp, wr_rst)
  BY <1>1
<1>3. /\ wr_phase' = NextPhase(wr_phase, TRUE, TRUE)
      /\ rd_phase' = NextPhase(rd_phase, TRUE, TRUE)
  BY DEF BothTick
<1>4. /\ wr_bin' = WrNext(offer) /\ rd_bin' = RdNext(ready)
      /\ wr_bin \in Ptr /\ rd_bin \in Ptr /\ wr_bin' \in Ptr /\ rd_bin' \in Ptr
      /\ wr_rst \in BOOLEAN /\ rd_rst \in BOOLEAN
  BY <1>0, <1>2 DEF WrEdge, Filled, RdEdge, Filled, TypeOK, wr_rst, rd_rst
<1>5. wp \in Ptr /\ rp \in Ptr
  BY <1>4, SampledType
<1>6. PhaseInv'
  BY <1>3, <1>0, PhaseStep DEF PhaseInv, IInv, TypeOK
<1>7. CASE Running
  <2>1. wr_phase' = "run" /\ rd_phase' = "run"
    BY <1>3, <1>7, PhaseStep DEF Running
  <2>2. Ordered
    BY <1>7 DEF IInv, Ordered, Running, NoneStale
  <2>3. PICK k \in {0, 1} :
           /\ \A b \in Ptr : Dist(wr_bin, b) <= wr_occ
                             => Dist(wr_bin', b) = Dist(wr_bin, b) + k
           /\ wr_occ + k <= Depth
           /\ ~wr_full' => wr_occ + k < Depth
           /\ wr_high' <= Depth
           /\ rd_sync' = Shift(rd_sync, rp)
    BY <1>0, <1>2, <1>4, <1>5, <1>7, <2>2, WrMove DEF Ordered, Running
  <2>4. PICK l \in {0, 1} :
           /\ \A a \in Ptr : Dist(a, rd_bin) >= rd_occ
                             => Dist(a, rd_bin') = Dist(a, rd_bin) - l
           /\ rd_occ >= l
           /\ ~rd_empty' => rd_occ > l
           /\ rd_high' <= Depth
           /\ wr_sync' = Shift(wr_sync, wp)
    BY <1>0, <1>2, <1>4, <1>5, <1>7, <2>2, RdMove DEF Ordered, Running
  <2>5. wp \in {wr_bin, wr_bin'} /\ rp \in {rd_bin, rd_bin'}
    <3>1. wr_bin' = wr_bin \/ wr_bin' = Inc(wr_bin)
      BY <1>4, <1>7 DEF WrNext, wr_rst, Running
    <3>2. rd_bin' = rd_bin \/ rd_bin' = Inc(rd_bin)
      BY <1>4, <1>7 DEF RdNext, rd_rst, Running
    <3> QED BY <1>4, <3>1, <3>2 DEF Sampled
  <2>6. Ordered'
    BY <1>0, <2>2, <2>3, <2>4, <2>5, OrderStep
  <2> QED
    BY <1>6, <2>1, <2>6 DEF IInv, ZeroInv, Ordered, Running
<1>8. CASE NoneStale /\ ~Running
  <2>1. WrZero /\ RdZero
    BY <1>8 DEF IInv, ZeroInv
  <2>2. wr_rst \/ rd_rst
    BY <1>8 DEF Running, wr_rst, rd_rst
  <2>3. WrNext(offer) = 0 /\ RdNext(ready) = 0
    BY <2>1, Basics DEF WrNext, RdNext, wr_en, rd_en, wr_ready, core_valid,
       wr_hold, rd_hold, WrZero, RdZero
  <2>4. wp = 0 /\ rp = 0
    BY <2>1, <2>3 DEF Sampled, WrZero, RdZero
  <2>5. WrZero'
    BY <1>0, <1>2, <1>4, <2>1, <2>2, <2>4, WrQuiet
  <2>6. RdZero'
    BY <1>0, <1>2, <1>4, <2>1, <2>2, <2>4, RdQuiet
  <2> QED BY <1>6, <2>5, <2>6, ZeroNext
<1>9. CASE ~NoneStale
  <2>1. wr_rst /\ rd_rst
    BY <1>0, <1>9 DEF IInv, PhaseInv, NoneStale, wr_rst, rd_rst
  <2>2. WrZero'
    BY <1>0, <1>2, <2>1, WrQuiet
  <2>3. RdZero'
    BY <1>0, <1>2, <2>1, RdQuiet
  <2> QED BY <1>6, <2>2, <2>3, ZeroNext
<1> QED
  BY <1>7, <1>8, <1>9 DEF Running, NoneStale

\* IInv is preserved by the reset assertion and, under the reset contract, by
\* each release: both domains are at their reset values by then.
LEMMA ResetInv ==
  ResetContract /\ IInv /\ TypeOK' /\ (AssertReset \/ ReleaseWr \/ ReleaseRd) => IInv'
<1> SUFFICES ASSUME ResetContract, IInv, TypeOK', AssertReset \/ ReleaseWr \/ ReleaseRd
             PROVE  IInv'
  OBVIOUS
<1> USE DEF Phases
<1>1. CASE AssertReset
  BY <1>1 DEF AssertReset, IInv, PhaseInv, ZeroInv, NoneStale
<1>2. CASE ReleaseWr \/ ReleaseRd
  <2>1. NoneStale
    BY <1>2 DEF ReleaseWr, ReleaseRd, MayRelease, ResetContract, IInv, PhaseInv,
       NoneStale
  <2>2. WrZero /\ RdZero
    BY <1>2, <2>1 DEF ReleaseWr, ReleaseRd, MayRelease, ResetContract, IInv, ZeroInv,
       Running
  <2>3. WrZero' /\ RdZero'
    BY <1>2, <2>2 DEF ReleaseWr, ReleaseRd, wrVars, rdVars, WrZero, RdZero
  <2>4. PhaseInv'
    BY <1>2, <2>1 DEF ReleaseWr, ReleaseRd, PhaseInv, NoneStale
  <2> QED BY <2>3, <2>4, ZeroNext
<1> QED
  BY <1>1, <1>2

\* Nothing changes: the invariant stays.
LEMMA StutterInv == IInv /\ UNCHANGED vars => IInv'
  BY DEF IInv, TypeOK, PhaseInv, ZeroInv, WrZero, RdZero, RdCopies, WrCopies,
     FlagInv, NoneStale, Running, rd_bin_wsync, wr_bin_rsync, vars, wrVars, rdVars

\* The invariant holds throughout every execution.
LEMMA Invariance == ResetContract /\ Spec => []IInv
<1> SUFFICES ASSUME ResetContract PROVE Spec => []IInv
  OBVIOUS
<1>1. IInv /\ [Next]_vars => IInv'
  BY TypeStep, WrTickInv, RdTickInv, BothTickInv, ResetInv, StutterInv
     DEF Next, IInv
<1> QED
  BY InitInv, <1>1, PTL DEF Spec

-----------------------------------------------------------------------------
(* What follows from it.                                                   *)

\* Both fill estimates err on the safe side, at every instant and for every
\* depth and chain length.
THEOREM ConservativeAlways == ResetContract /\ Spec => []Conservative
<1>1. IInv => Conservative
  BY OccOrder DEF IInv, Ordered, NoneStale, Conservative, fill
<1> QED
  BY <1>1, Invariance, PTL

\* A domain that is allowed to move has a free slot, respectively a word, and
\* the two never meet in one slot.
THEOREM FlagsSafeAlways == ResetContract /\ Spec => []FlagsSafe
<1>1. IInv => FlagsSafe
  <2> SUFFICES ASSUME IInv, Running PROVE
        /\ wr_ready => fill < Depth
        /\ core_valid => fill > 0
        /\ wr_ready /\ core_valid => Addr(wr_bin) # Addr(rd_bin)
    BY DEF FlagsSafe
  <2>1. Ordered /\ TypeOK
    BY DEF IInv, Ordered, NoneStale, Running
  <2>2. wr_ready => fill < Depth
    BY <2>1, OccOrder, DepthAssumption DEF wr_ready, Ordered, FlagInv, wr_occ, fill
  <2>3. core_valid => fill > 0
    BY <2>1, OccOrder, DepthAssumption DEF core_valid, Ordered, FlagInv, rd_occ, fill
  <2>4. wr_ready /\ core_valid => Addr(wr_bin) # Addr(rd_bin)
    BY <2>1, <2>2, <2>3, DepthAssumption DEF TypeOK, Ptr, Addr, fill, Dist
  <2> QED BY <2>2, <2>3, <2>4
<1> QED
  BY <1>1, Invariance, PTL
-----------------------------------------------------------------------------
(* The crossing is a FIFO: the words inside, oldest first, are the words   *)
(* due at the read port, and every step serves them as the abstract        *)
(* channel would.                                                          *)

\* Whether the output register holds a word, as a number.
held_out == IF OutReg /\ out_valid THEN 1 ELSE 0

\* What the storage holds between the pointers, and what the output register
\* holds, are words, never storage nothing has written.
WordInv == /\ held \in [1 .. fill -> Data]
           /\ held_out = 1 => out_data \in Data

\* The refinement's invariant: the words inside are the words due.
DueInv == /\ Running => WordInv
          /\ due = queue

\* The words of a storage h that a clock edge leaves: those of f but the first l,
\* and behind them d when one was put.
Moved(f, n, l, p, d, h) == /\ \A i \in 1 .. n - l : h[i] = f[i + l]
                           /\ p = 1 => h[n - l + 1] = d

\* The words of storage m in the n slots from pointer r on.
Between(m, r, n) == [i \in 1 .. n |-> m[Addr(Plus(r, i - 1))]]

\* The storage m after a put (p = 1) of d at address a.
Stored(m, p, a, d) == IF p = 1 THEN [m EXCEPT ![a] = d] ELSE m

\* A pointer after a move (l = 1).
Stepped(r, l) == IF l = 1 THEN Inc(r) ELSE r

\* The output register's word after an edge: the oldest of the words f when one
\* passed on (l = 1), else the word a it had.
Refilled(l, f, a) == IF l = 1 THEN f[1] ELSE a

\* A function on the first k numbers.
Indexed(h, k) == h = [i \in 1 .. k |-> h[i]]

\* The sequence q is the n words f, behind d when o = 1.
Lined(q, n, o, d, f) ==
  /\ q \in Seq(Data) /\ Len(q) = n + o
  /\ \A i \in 1 .. n + o : q[i] = IF i <= o THEN d ELSE f[i - o]

\* The words f behind the word of an output register, when it holds one (o = 1).
Behind(o, a, f) == IF o = 1 THEN <<a>> \o f ELSE f

\* The slots between the pointers lie within the storage, the oldest at the
\* read address and the next free one at the write address; while there is room
\* none of them is at the write address.
LEMMA SlotAddr ==
  ASSUME NEW w \in Ptr, NEW r \in Ptr, Dist(w, r) <= Depth
  PROVE  /\ \A i \in 0 .. Dist(w, r) : Addr(Plus(r, i)) \in 0 .. Depth - 1
         /\ Addr(Plus(r, 0)) = Addr(r)
         /\ Addr(Plus(r, Dist(w, r))) = Addr(w)
         /\ Dist(w, r) < Depth =>
              \A i \in 0 .. Dist(w, r) - 1 : Addr(Plus(r, i)) # Addr(w)
  BY DepthAssumption DEF Ptr, Dist, Addr, Plus

\* Reading one word renumbers the slots by one.
LEMMA SlotShift ==
  ASSUME NEW r \in Ptr
  PROVE  \A i \in 0 .. Depth : Addr(Plus(Inc(r), i)) = Addr(Plus(r, i + 1))
  BY DepthAssumption DEF Ptr, Inc, Addr, Plus

\* The words of n slots behind an output register that may hold one, as a
\* sequence.
LEMMA WordsShape ==
  ASSUME NEW n \in Nat, NEW f \in [1 .. n -> Data], NEW o \in {0, 1}, NEW d,
         o = 1 => d \in Data
  PROVE  Lined(Behind(o, d, f), n, o, d, f)
<1> DEFINE q == Behind(o, d, f)
<1> USE DEF Behind, Lined
<1>1. f \in Seq(Data)
  BY SeqDef
<1>2. Len(f) = n
  <2>1. DOMAIN f = 1 .. n /\ DOMAIN f = 1 .. Len(f) /\ Len(f) \in Nat
    BY <1>1, LenProperties
  <2> QED BY <2>1
<1>3. CASE o = 1
  <2>1. <<d>> \in Seq(Data) /\ Len(<<d>>) = 1 /\ <<d>>[1] = d
    BY <1>3
  <2>2. /\ q \in Seq(Data) /\ Len(q) = 1 + n
        /\ \A i \in 1 .. 1 + n : q[i] = IF i <= 1 THEN <<d>>[i] ELSE f[i - 1]
    BY <1>1, <1>2, <1>3, <2>1, ConcatProperties
  <2>3. \A i \in 1 .. n + o : q[i] = IF i <= o THEN d ELSE f[i - o]
    BY <1>3, <2>1, <2>2
  <2> QED BY <1>3, <2>2, <2>3
<1>4. CASE o = 0
  BY <1>1, <1>2, <1>4
<1> QED
  BY <1>3, <1>4

\* The queue as a sequence while the crossing runs.
LEMMA QueueShape ==
  ASSUME TypeOK, Running, WordInv
  PROVE  queue \in Seq(Data) /\ Len(queue) = fill + held_out
<1>1. fill \in Nat /\ held_out \in {0, 1}
  BY DistType DEF TypeOK, fill, held_out
<1>2. queue = Behind(held_out, out_data, held)
  BY DEF queue, held_out, Behind
<1>3. held \in [1 .. fill -> Data] /\ (held_out = 1 => out_data \in Data)
  BY DEF WordInv
<1>4. Lined(queue, fill, held_out, out_data, held)
  BY <1>1, <1>2, <1>3, WordsShape
<1> QED
  BY <1>4 DEF Lined

\* A sequence after one get and one put, either of which may be absent.
Served(s, g, p, d) ==
  LET rest == IF g = 1 THEN Tail(s) ELSE s
  IN  IF p = 1 THEN Append(rest, d) ELSE rest

\* It is the sequence whose words are renumbered by the get and whose last word
\* is the one put.
LEMMA ServedShape ==
  ASSUME NEW s \in Seq(Data), NEW t \in Seq(Data), NEW g \in {0, 1}, NEW p \in {0, 1},
         NEW d, p = 1 => d \in Data, Len(s) >= g, Len(t) = Len(s) - g + p,
         Moved(s, Len(s), g, p, d, t)
  PROVE  t = Served(s, g, p, d)
<1> USE DEF Moved
<1> DEFINE rest == IF g = 1 THEN Tail(s) ELSE s
<1>1. Len(s) \in Nat
  BY LenProperties
<1>2. /\ rest \in Seq(Data) /\ Len(rest) = Len(s) - g
      /\ \A i \in 1 .. Len(s) - g : rest[i] = s[i + g]
  <2>1. CASE g = 1
    <3>1. s # << >>
      BY <2>1, EmptySeq
    <3>2. /\ Tail(s) \in Seq(Data) /\ Len(Tail(s)) = Len(s) - 1
          /\ \A i \in 1 .. Len(Tail(s)) : Tail(s)[i] = s[i + 1]
      BY <3>1, HeadTailProperties
    <3> QED BY <2>1, <3>2
  <2>2. CASE g = 0
    BY <2>2, <1>1
  <2> QED BY <2>1, <2>2
<1> HIDE DEF rest
<1>3. CASE p = 1
  <2>1. /\ Append(rest, d) \in Seq(Data) /\ Len(Append(rest, d)) = Len(rest) + 1
        /\ \A i \in 1 .. Len(rest) : Append(rest, d)[i] = rest[i]
        /\ Append(rest, d)[Len(rest) + 1] = d
    BY <1>2, <1>3, AppendProperties
  <2>2. Len(t) = Len(Append(rest, d))
    BY <1>2, <1>3, <2>1
  <2>3. \A i \in 1 .. Len(t) : t[i] = Append(rest, d)[i]
    BY <1>1, <1>2, <1>3, <2>1
  <2>4. t = Append(rest, d)
    BY <2>1, <2>2, <2>3, SeqEqual
  <2> QED BY <1>3, <2>4 DEF Served, rest
<1>4. CASE p = 0
  <2>1. Len(t) = Len(rest) /\ \A i \in 1 .. Len(t) : t[i] = rest[i]
    BY <1>1, <1>2, <1>4
  <2>2. t = rest
    BY <1>2, <2>1, SeqEqual
  <2> QED BY <1>4, <2>2 DEF Served, rest
<1> QED
  BY <1>3, <1>4
\* The storage at a clock edge: the write side fills the free slot (p = 1), the
\* read side moves past the oldest (l = 1), and the words between the pointers
\* are renumbered accordingly.
LEMMA StorageStep ==
  ASSUME NEW w \in Ptr, NEW r \in Ptr, NEW n, n = Dist(w, r), n <= Depth,
         NEW m \in [0 .. Depth - 1 -> Data \cup {NoData}],
         NEW p \in {0, 1}, NEW l \in {0, 1}, NEW d,
         NEW k, k = Dist(Stepped(w, p), Stepped(r, l)),
         p = 1 => n < Depth,
         l = 1 => n > 0
  PROVE  /\ k = n + p - l
         /\ Moved(Between(m, r, n), n, l, p, d,
                  Between(Stored(m, p, Addr(w), d), Stepped(r, l), k))
<1> DEFINE z == Stored(m, p, Addr(w), d)
           x == Stepped(w, p)
           y == Stepped(r, l)
           f == Between(m, r, n)
           h == Between(z, y, k)
<1>0. /\ p = 1 => z = [m EXCEPT ![Addr(w)] = d] /\ x = Inc(w)
      /\ p = 0 => z = m /\ x = w
      /\ l = 1 => y = Inc(r)
      /\ l = 0 => y = r
      /\ x \in Ptr /\ y \in Ptr /\ k = Dist(x, y)
  BY IncType DEF Stored, Stepped
<1>00. /\ \A i \in 1 .. n : f[i] = m[Addr(Plus(r, i - 1))]
       /\ \A i \in 1 .. k : h[i] = z[Addr(Plus(y, i - 1))]
  BY DEF Between
<1> HIDE DEF z, x, y, f, h
<1>1. n \in Nat /\ k \in Nat /\ l \in Nat /\ p \in Nat
  BY <1>0, DistType
<1>2. k = n + p - l
  <2>1. CASE p = 0 /\ l = 0
    BY <2>1, <1>0, <1>1
  <2>2. CASE p = 1 /\ l = 0
    BY <2>2, <1>0, <1>1, DistInc
  <2>3. CASE p = 0 /\ l = 1
    BY <2>3, <1>0, <1>1, DistDec
  <2>4. CASE p = 1 /\ l = 1
    <3>1. Dist(x, r) = n + 1
      BY <2>4, <1>0, DistInc
    <3>2. Dist(x, y) = n + 1 - 1
      BY <2>4, <3>1, <1>0, <1>1, DistDec
    <3> QED BY <2>4, <3>2, <1>0, <1>1
  <2> QED BY <2>1, <2>2, <2>3, <2>4
<1>3. /\ \A i \in 0 .. n : Addr(Plus(r, i)) \in 0 .. Depth - 1
      /\ Addr(Plus(r, n)) = Addr(w)
      /\ n < Depth => \A i \in 0 .. n - 1 : Addr(Plus(r, i)) # Addr(w)
  BY SlotAddr
<1>4. \A i \in 0 .. n - 1 : z[Addr(Plus(r, i))] = m[Addr(Plus(r, i))]
  <2>1. CASE p = 0
    BY <2>1, <1>0
  <2>2. CASE p = 1
    <3>1. \A a \in 0 .. Depth - 1 : a # Addr(w) => z[a] = m[a]
      BY <2>2, <1>0
    <3>2. \A i \in 0 .. n - 1 : i \in 0 .. n
      BY <1>1
    <3> QED BY <2>2, <3>1, <3>2, <1>3
  <2> QED BY <2>1, <2>2
<1>5. p = 1 => z[Addr(Plus(r, n))] = d
  <2>1. n \in 0 .. n
    BY <1>1
  <2> QED BY <2>1, <1>0, <1>3
<1>6. \A i \in 0 .. k - 1 : Addr(Plus(y, i)) = Addr(Plus(r, i + l))
  <2>1. CASE l = 0
    BY <2>1, <1>0, <1>1
  <2>2. CASE l = 1
    <3>1. \A i \in 0 .. k - 1 : i \in 0 .. Depth
      BY <2>2, <1>1, <1>2, DepthAssumption
    <3> QED BY <2>2, <3>1, <1>0, SlotShift
  <2> QED BY <2>1, <2>2
<1>7. \A i \in 1 .. k : h[i] = z[Addr(Plus(r, i + l - 1))]
  <2> SUFFICES ASSUME NEW i \in 1 .. k PROVE h[i] = z[Addr(Plus(r, i + l - 1))]
    OBVIOUS
  <2>1. i - 1 \in 0 .. k - 1 /\ (i - 1) + l = i + l - 1
    BY <1>1
  <2>2. Addr(Plus(y, i - 1)) = Addr(Plus(r, i + l - 1))
    BY <2>1, <1>6
  <2>3. h[i] = z[Addr(Plus(y, i - 1))]
    BY <1>00
  <2> QED BY <2>2, <2>3
<1>8. ASSUME NEW i \in 1 .. n - l PROVE h[i] = f[i + l]
  <2>1. i \in 1 .. k /\ i + l \in 1 .. n /\ i + l - 1 \in 0 .. n - 1
    BY <1>1, <1>2
  <2>2. f[i + l] = m[Addr(Plus(r, i + l - 1))]
    BY <2>1, <1>1, <1>00
  <2> QED BY <2>1, <2>2, <1>4, <1>7
<1>9. ASSUME p = 1 PROVE h[n - l + 1] = d
  <2>1. n - l + 1 \in 1 .. k /\ (n - l + 1) + l - 1 = n
    BY <1>1, <1>2, <1>9
  <2> QED BY <2>1, <1>5, <1>7, <1>9
<1> QED
  BY <1>2, <1>8, <1>9 DEF Moved, z, y, f, h

\* A clock edge as the queue sees it: the consumer takes g words, the producer
\* puts p (the word d), and l words pass from the n in storage (f, then the k of
\* h) to the output register, which has o words (a), then u (b).
QueueEdge(n, k, f, h, g, p, l, d, o, u, a, b) ==
  /\ n \in Nat /\ k \in Nat /\ f \in [1 .. n -> Data]
  /\ g \in {0, 1} /\ p \in {0, 1} /\ l \in {0, 1} /\ o \in {0, 1} /\ u \in {0, 1}
  /\ p = 1 => d \in Data
  /\ l <= n /\ k = n + p - l
  /\ Indexed(h, k) /\ Moved(f, n, l, p, d, h)
  /\ u = o - g + l
  /\ o = 1 => a \in Data
  /\ u = 1 => b = Refilled(l, f, a)

\* Such an edge serves the queue.
LEMMA QueueStep ==
  ASSUME NEW n, NEW k, NEW f, NEW h, NEW g, NEW p, NEW l, NEW d, NEW o, NEW u, NEW a, NEW b,
         QueueEdge(n, k, f, h, g, p, l, d, o, u, a, b)
  PROVE  /\ h \in [1 .. k -> Data]
         /\ u = 1 => b \in Data
         /\ Behind(u, b, h) = Served(Behind(o, a, f), g, p, d)
<1> DEFINE q == Behind(o, a, f)
           s == Behind(u, b, h)
<1> HIDE DEF q, s
<1> USE DEF QueueEdge
<1>1. ASSUME NEW i \in 1 .. k PROVE h[i] \in Data
  <2>1. CASE i <= n - l
    <3>1. i \in 1 .. n - l /\ i + l \in 1 .. n
      BY <2>1
    <3>2. h[i] = f[i + l]
      BY <3>1 DEF Moved
    <3> QED BY <3>1, <3>2
  <2>2. CASE i > n - l
    <3>1. p = 1 /\ i = n - l + 1
      BY <2>2
    <3> QED BY <3>1 DEF Moved
  <2> QED BY <2>1, <2>2
<1>2. h \in [1 .. k -> Data]
  BY <1>1 DEF Indexed
<1>3. u = 1 => b \in Data
  <2> USE DEF Refilled
  <2>1. CASE l = 1
    <3>1. 1 \in 1 .. n
      BY <2>1
    <3> QED BY <2>1, <3>1
  <2>2. CASE l = 0
    BY <2>2
  <2> QED BY <2>1, <2>2
<1>4. /\ q \in Seq(Data) /\ Len(q) = n + o
      /\ \A i \in 1 .. n + o : q[i] = IF i <= o THEN a ELSE f[i - o]
  <2>1. Lined(q, n, o, a, f)
    BY WordsShape DEF q
  <2> QED BY <2>1 DEF Lined
<1>5. /\ s \in Seq(Data) /\ Len(s) = k + u
      /\ \A i \in 1 .. k + u : s[i] = IF i <= u THEN b ELSE h[i - u]
  <2>1. Lined(s, k, u, b, h)
    BY <1>2, <1>3, WordsShape DEF s
  <2> QED BY <2>1 DEF Lined
<1>6. Len(q) >= g /\ Len(s) = Len(q) - g + p
  BY <1>4, <1>5
<1>7. ASSUME NEW i \in 1 .. Len(q) - g PROVE s[i] = q[i + g]
  <2>1. i \in 1 .. k + u /\ i + g \in 1 .. n + o
    BY <1>4
  <2>2. CASE i <= u /\ l = 1
    <3>1. i = 1 /\ ~(i + g <= o) /\ i + g - o = 1
      BY <2>2
    <3>2. q[i + g] = f[1]
      BY <3>1, <2>1, <1>4
    <3> QED BY <3>1, <3>2, <2>1, <2>2, <1>5 DEF Refilled
  <2>3. CASE i <= u /\ l = 0
    <3>1. i + g <= o /\ u = 1
      BY <2>3
    <3> QED BY <3>1, <2>1, <2>3, <1>4, <1>5 DEF Refilled
  <2>4. CASE ~(i <= u)
    <3>1. s[i] = h[i - u]
      BY <2>1, <2>4, <1>5
    <3>2. i - u \in 1 .. n - l /\ (i - u) + l = i + g - o
      BY <2>1, <2>4, <1>4
    <3>3. h[i - u] = f[i + g - o]
      BY <3>2 DEF Moved
    <3>4. ~(i + g <= o)
      BY <2>1, <2>4
    <3>5. q[i + g] = f[i + g - o]
      BY <3>4, <2>1, <1>4
    <3> QED BY <3>1, <3>3, <3>5
  <2> QED BY <2>2, <2>3, <2>4
<1>8. ASSUME p = 1 PROVE s[Len(q) - g + 1] = d
  <2> DEFINE j == Len(q) - g + 1
  <2>1. j \in 1 .. k + u /\ ~(j <= u) /\ j - u = n - l + 1
    BY <1>4, <1>8
  <2> HIDE DEF j
  <2>2. s[j] = h[j - u]
    BY <2>1, <1>5
  <2>3. s[j] = d
    BY <2>1, <2>2, <1>8 DEF Moved
  <2> QED BY <2>3 DEF j
<1>9. s = Served(q, g, p, d)
  <2>1. Moved(q, Len(q), g, p, d, s)
    BY <1>7, <1>8 DEF Moved
  <2>2. q \in Seq(Data) /\ s \in Seq(Data)
    BY <1>4, <1>5
  <2> QED BY <2>1, <2>2, <1>6, ServedShape
<1> QED
  BY <1>2, <1>3, <1>9 DEF q, s

\* A clock edge, or two at once, while the crossing runs: the words inside stay
\* words, and the queue is served by what the two handshakes exchange.
LEMMA RunStep ==
  ASSUME TypeOK, TypeOK', Ordered, FlagsSafe, WordInv, Running, Running',
         NEW offer \in Offers, NEW g \in {0, 1}, NEW p \in {0, 1}, NEW l \in {0, 1},
         p = 1 <=> wr_en(offer),
         mem' = Stored(mem, p, Addr(wr_bin), offer), wr_bin' = Stepped(wr_bin, p),
         l = 1 => core_valid, rd_bin' = Stepped(rd_bin, l),
         held_out' = held_out - g + l,
         held_out' = 1 => out_data' = IF l = 1 THEN core_data ELSE out_data
  PROVE  WordInv' /\ queue' = Served(queue, g, p, offer)
<1>1. PICK n, k, f, h, o, u, a, b, q, s :
         /\ n = fill /\ k = fill' /\ f = held /\ h = held' /\ o = held_out /\ u = held_out'
         /\ a = out_data /\ b = out_data' /\ q = queue /\ s = queue'
  OBVIOUS
<1>2. /\ n \in Nat /\ k \in Nat /\ n <= Depth
      /\ wr_bin \in Ptr /\ rd_bin \in Ptr /\ rd_bin' \in Ptr /\ wr_bin' \in Ptr
      /\ mem \in [0 .. Depth - 1 -> Data \cup {NoData}]
      /\ o \in {0, 1} /\ u \in {0, 1}
  <2>1. fill \in Nat /\ fill' \in Nat /\ fill <= Depth
    BY OccOrder, DistType, DepthAssumption DEF TypeOK, fill
  <2> QED BY <1>1, <2>1 DEF TypeOK, held_out
<1>3. /\ p = 1 => n < Depth /\ offer \in Data
      /\ l = 1 => n > 0
  BY <1>1 DEF FlagsSafe, wr_en, Offers
<1>4. /\ f \in [1 .. n -> Data] /\ (o = 1 => a \in Data)
  BY <1>1 DEF WordInv
<1>5. /\ n = Dist(wr_bin, rd_bin) /\ k = Dist(Stepped(wr_bin, p), Stepped(rd_bin, l))
      /\ f = Between(mem, rd_bin, n)
      /\ h = Between(Stored(mem, p, Addr(wr_bin), offer), Stepped(rd_bin, l), k)
  <2>1. held' = Between(mem', rd_bin', fill') /\ fill' = Dist(wr_bin', rd_bin')
    BY DEF held, fill, Between
  <2>2. held = Between(mem, rd_bin, fill) /\ fill = Dist(wr_bin, rd_bin)
    BY DEF held, fill, Between
  <2> QED BY <2>1, <2>2, <1>1
<1>6. k = n + p - l /\ Moved(f, n, l, p, offer, h)
  BY <1>2, <1>3, <1>5, StorageStep
<1>7. l <= n /\ Indexed(h, k)
  BY <1>2, <1>3, <1>5 DEF Indexed, Between
<1>8. l = 1 => core_data = f[1]
  <2>1. l = 1 => 1 \in 1 .. n /\ 1 - 1 = 0
    BY <1>2, <1>3
  <2>2. Addr(Plus(rd_bin, 0)) = Addr(rd_bin)
    BY <1>2, <1>5, SlotAddr
  <2> QED BY <2>1, <2>2, <1>5 DEF core_data, Between
<1>9. /\ u = o - g + l
      /\ u = 1 => b = Refilled(l, f, a)
      /\ q = Behind(o, a, f) /\ s = Behind(u, b, h)
  <2>1. queue = Behind(held_out, out_data, held)
    BY DEF queue, held_out, Behind
  <2>2. queue' = Behind(held_out', out_data', held')
    BY DEF queue, held_out, Behind
  <2> QED BY <1>1, <1>8, <2>1, <2>2 DEF Refilled
<1>10. /\ h \in [1 .. k -> Data]
       /\ u = 1 => b \in Data
       /\ s = Served(q, g, p, offer)
  <2>1. p = 1 => offer \in Data
    BY <1>3
  <2>2. k = n + p - l
    BY <1>6
  <2>3. Moved(f, n, l, p, offer, h)
    BY <1>6
  <2>4. l <= n /\ Indexed(h, k) /\ u = o - g + l
    BY <1>7, <1>9
  <2>5. u = 1 => b = Refilled(l, f, a)
    BY <1>9
  <2>6. n \in Nat /\ k \in Nat /\ o \in {0, 1} /\ u \in {0, 1}
    BY <1>2
  <2>7. QueueEdge(n, k, f, h, g, p, l, offer, o, u, a, b)
    BY <2>1, <2>2, <2>3, <2>4, <2>5, <2>6, <1>4 DEF QueueEdge
  <2>8. /\ h \in [1 .. k -> Data]
        /\ u = 1 => b \in Data
        /\ Behind(u, b, h) = Served(Behind(o, a, f), g, p, offer)
    BY <2>7, QueueStep
  <2> QED BY <2>8, <1>9
<1>11. held' \in [1 .. fill' -> Data] /\ (held_out' = 1 => out_data' \in Data)
  BY <1>1, <1>10
<1> QED
  BY <1>1, <1>10, <1>11 DEF WordInv

\* Serving a queue of words that has room is a step of the abstract channel, or
\* leaves it alone.
LEMMA ServedIsStep ==
  ASSUME NEW g \in {0, 1}, NEW p \in {0, 1}, NEW d,
         p = 1 => d \in Data /\ Len(queue) < (IF OutReg THEN Depth + 1 ELSE Depth),
         g = 1 => queue # << >>,
         queue' = Served(queue, g, p, d)
  PROVE  Channel!Next \/ queue' = queue
  BY DEF Channel!Next, Channel!Put, Channel!Get, Channel!PutGet, Served
\* A reader who is shown a word, and a writer who is ready, are right about the
\* queue: it has a word, respectively room.
LEMMA QueueRoom ==
  ASSUME TypeOK, Running, WordInv, FlagsSafe
  PROVE  /\ queue \in Seq(Data)
         /\ rd_valid => queue # << >>
         /\ wr_ready => Len(queue) < (IF OutReg THEN Depth + 1 ELSE Depth)
<1>1. queue \in Seq(Data) /\ Len(queue) = fill + held_out
  BY QueueShape
<1>2. fill \in Nat /\ held_out \in {0, 1}
  BY DistType DEF TypeOK, fill, held_out
<1>3. rd_valid => Len(queue) > 0
  <2>1. CASE OutReg
    BY <2>1, <1>1, <1>2 DEF rd_valid, held_out
  <2>2. CASE ~OutReg
    BY <2>2, <1>1, <1>2 DEF rd_valid, FlagsSafe
  <2> QED BY <2>1, <2>2
<1>4. wr_ready => Len(queue) < (IF OutReg THEN Depth + 1 ELSE Depth)
  BY <1>1, <1>2, DepthAssumption DEF FlagsSafe, held_out
<1> QED
  BY <1>1, <1>3, <1>4, EmptySeq

\* What the two handshakes do to the words due is one service of them.
LEMMA ExchangeServes ==
  ASSUME Running, due \in Seq(Data), NEW offer, NEW ready \in BOOLEAN,
         NEW g \in {0, 1}, g = 1 <=> (rd_valid /\ ready),
         NEW p \in {0, 1}, p = 1 <=> wr_en(offer),
         g = 1 => due # << >>
  PROVE  Exchanged(offer, ready) = Served(due, g, p, offer)
<1>1. g = 1 => Tail(due) = SubSeq(due, 2, Len(due))
  BY TailIsSubSeq
<1> QED
  BY <1>1 DEF Exchanged, Served

\* An edge of wr_clk stores the accepted word.
LEMMA WrServes ==
  ASSUME NEW offer, NEW clr, NEW ptr, NEW rst, WrEdge(offer, clr, ptr, rst), ~wr_rst,
         NEW p \in {0, 1}, p = 1 <=> wr_en(offer)
  PROVE  mem' = Stored(mem, p, Addr(wr_bin), offer) /\ wr_bin' = Stepped(wr_bin, p)
  BY DEF WrEdge, WrNext, Stored, Stepped, Filled

\* An edge of rd_clk passes a word on when the output register, or the consumer,
\* takes it.
LEMMA RdServes ==
  ASSUME TypeOK, NEW ready \in BOOLEAN, NEW clr, NEW ptr, NEW rst,
         RdEdge(ready, clr, ptr, rst), ~rd_rst,
         NEW g \in {0, 1}, g = 1 <=> (rd_valid /\ ready),
         NEW l \in {0, 1}, l = 1 <=> rd_en(ready)
  PROVE  /\ rd_bin' = Stepped(rd_bin, l)
         /\ l = 1 => core_valid
         /\ held_out' = held_out - g + l
         /\ held_out' = 1 => out_data' = IF l = 1 THEN core_data ELSE out_data
<1>1. rd_bin' = Stepped(rd_bin, l) /\ (l = 1 => core_valid)
  BY DEF RdEdge, RdNext, Stepped, rd_en, Filled
<1>2. /\ out_valid' = IF OutReg /\ core_ready(ready) THEN core_valid ELSE out_valid
      /\ out_data' = IF OutReg /\ core_ready(ready) THEN core_data ELSE out_data
  BY DEF RdEdge, Filled
<1>3. out_valid \in BOOLEAN /\ core_valid \in BOOLEAN
  BY DEF TypeOK, core_valid
<1>4. CASE ~OutReg
  BY <1>1, <1>2, <1>3, <1>4 DEF held_out, rd_valid, rd_en, core_ready
<1>5. CASE OutReg /\ core_ready(ready)
  BY <1>1, <1>2, <1>3, <1>5 DEF held_out, rd_valid, rd_en, core_ready
<1>6. CASE OutReg /\ ~core_ready(ready)
  BY <1>1, <1>2, <1>3, <1>6 DEF held_out, rd_valid, rd_en, core_ready
<1> QED
  BY <1>1, <1>4, <1>5, <1>6

\* An edge while the crossing runs, put together.
LEMMA RunDue ==
  ASSUME TypeOK, TypeOK', Ordered, FlagsSafe, WordInv, Running, Running', due = queue,
         NEW offer \in Offers, NEW ready \in BOOLEAN,
         NEW g \in {0, 1}, g = 1 <=> (rd_valid /\ ready),
         NEW p \in {0, 1}, p = 1 <=> wr_en(offer), NEW l \in {0, 1},
         due' = Exchanged(offer, ready),
         mem' = Stored(mem, p, Addr(wr_bin), offer), wr_bin' = Stepped(wr_bin, p),
         l = 1 => core_valid, rd_bin' = Stepped(rd_bin, l),
         held_out' = held_out - g + l,
         held_out' = 1 => out_data' = IF l = 1 THEN core_data ELSE out_data
  PROVE  DueInv' /\ (Channel!Next \/ queue' = queue)
<1>1. /\ queue \in Seq(Data)
      /\ g = 1 => queue # << >>
      /\ p = 1 => offer \in Data /\ Len(queue) < (IF OutReg THEN Depth + 1 ELSE Depth)
  BY QueueRoom DEF wr_en, Offers
<1>2. WordInv' /\ queue' = Served(queue, g, p, offer)
  BY RunStep
<1>3. due' = Served(queue, g, p, offer)
  BY <1>1, ExchangeServes
<1>4. DueInv'
  BY <1>2, <1>3 DEF DueInv
<1> QED
  BY <1>1, <1>2, <1>4, ServedIsStep

\* A step that leaves or keeps the crossing in reset empties it.
LEMMA ResetDue ==
  ASSUME ~Running', due' = << >>
  PROVE  DueInv' /\ (Channel!Next \/ queue' = queue)
<1>1. queue' = << >>
  BY DEF queue
<1> QED
  BY <1>1 DEF DueInv, Channel!Next, Channel!Clear
\* An edge of wr_clk alone.
LEMMA WrTickDue ==
  ASSUME IInv, IInv', FlagsSafe, DueInv, WrTick
  PROVE  DueInv' /\ (Channel!Next \/ queue' = queue)
<1>1. PICK offer \in Offers, clr \in BOOLEAN :
         WrEdge(offer, clr, rd_bin, rd_rst) /\ due' = Exchanged(offer, FALSE)
  BY DEF WrTick
<1>2. /\ wr_phase' = NextPhase(wr_phase, TRUE, FALSE)
      /\ rd_phase' = NextPhase(rd_phase, FALSE, TRUE)
      /\ UNCHANGED rdVars
  BY DEF WrTick
<1>3. CASE Running
  <2>1. Running'
    BY <1>2, <1>3, PhaseStep DEF Running
  <2>2. TypeOK /\ TypeOK' /\ Ordered /\ WordInv /\ due = queue
    BY <1>3 DEF IInv, Ordered, DueInv, NoneStale, Running
  <2>3. PICK p \in {0, 1} : p = 1 <=> wr_en(offer)
    OBVIOUS
  <2>4. mem' = Stored(mem, p, Addr(wr_bin), offer) /\ wr_bin' = Stepped(wr_bin, p)
    BY <1>1, <1>3, <2>3, WrServes DEF wr_rst, Running
  <2>5. rd_bin' = Stepped(rd_bin, 0) /\ out_data' = out_data /\ held_out' = held_out
    BY <1>2 DEF rdVars, Stepped, held_out
  <2>6. held_out' = held_out - 0 + 0
    BY <2>5 DEF held_out
  <2>7. out_data' = IF 0 = 1 THEN core_data ELSE out_data
    BY <2>5
  <2>8. 0 \in {0, 1} /\ (0 = 1 <=> (rd_valid /\ FALSE)) /\ (0 = 1 => core_valid)
    OBVIOUS
  <2> QED
    BY <1>1, <1>3, <2>1, <2>2, <2>3, <2>4, <2>5, <2>6, <2>7, <2>8, RunDue
<1>4. CASE ~Running
  <2>1. ~Running'
    BY <1>2, <1>4 DEF Running, NextPhase, IInv, TypeOK, Phases
  <2>2. due' = << >>
    BY <1>1, <1>4 DEF Exchanged
  <2> QED BY <2>1, <2>2, ResetDue
<1> QED
  BY <1>3, <1>4

\* An edge of rd_clk alone.
LEMMA RdTickDue ==
  ASSUME IInv, IInv', FlagsSafe, DueInv, RdTick
  PROVE  DueInv' /\ (Channel!Next \/ queue' = queue)
<1>1. PICK ready \in BOOLEAN, clr \in BOOLEAN :
         RdEdge(ready, clr, wr_bin, wr_rst) /\ due' = Exchanged(NoData, ready)
  BY DEF RdTick
<1>2. /\ wr_phase' = NextPhase(wr_phase, FALSE, TRUE)
      /\ rd_phase' = NextPhase(rd_phase, TRUE, FALSE)
      /\ UNCHANGED wrVars
  BY DEF RdTick
<1>3. CASE Running
  <2>1. Running'
    BY <1>2, <1>3, PhaseStep DEF Running
  <2>2. TypeOK /\ TypeOK' /\ Ordered /\ WordInv /\ due = queue
    BY <1>3 DEF IInv, Ordered, DueInv, NoneStale, Running
  <2>3. PICK g \in {0, 1}, l \in {0, 1} : /\ g = 1 <=> (rd_valid /\ ready)
                                          /\ l = 1 <=> rd_en(ready)
    OBVIOUS
  <2>4. /\ rd_bin' = Stepped(rd_bin, l)
        /\ l = 1 => core_valid
        /\ held_out' = held_out - g + l
        /\ held_out' = 1 => out_data' = IF l = 1 THEN core_data ELSE out_data
    BY <1>1, <1>3, <2>2, <2>3, RdServes DEF rd_rst, Running
  <2>5. mem' = Stored(mem, 0, Addr(wr_bin), NoData) /\ wr_bin' = Stepped(wr_bin, 0)
    BY <1>2 DEF wrVars, Stored, Stepped
  <2>6. 0 \in {0, 1} /\ NoData \in Offers /\ (0 = 1 <=> wr_en(NoData))
    BY DEF Offers, wr_en
  <2> QED
    BY <1>1, <1>3, <2>1, <2>2, <2>3, <2>4, <2>5, <2>6, RunDue
<1>4. CASE ~Running
  <2>1. ~Running'
    BY <1>2, <1>4 DEF Running, NextPhase, IInv, TypeOK, Phases
  <2>2. due' = << >>
    BY <1>1, <1>4 DEF Exchanged
  <2> QED BY <2>1, <2>2, ResetDue
<1> QED
  BY <1>3, <1>4

\* Edges of both clocks at once.
LEMMA BothTickDue ==
  ASSUME IInv, IInv', FlagsSafe, DueInv, BothTick
  PROVE  DueInv' /\ (Channel!Next \/ queue' = queue)
<1>1. PICK offer \in Offers, ready \in BOOLEAN, wclr \in BOOLEAN, rclr \in BOOLEAN :
         /\ \E wp \in Sampled(wr_bin, WrNext(offer)), rp \in Sampled(rd_bin, RdNext(ready)) :
              WrEdge(offer, wclr, rp, rd_rst) /\ RdEdge(ready, rclr, wp, wr_rst)
         /\ due' = Exchanged(offer, ready)
  BY DEF BothTick
<1>2. PICK wp, rp : WrEdge(offer, wclr, rp, rd_rst) /\ RdEdge(ready, rclr, wp, wr_rst)
  BY <1>1
<1>3. /\ wr_phase' = NextPhase(wr_phase, TRUE, TRUE)
      /\ rd_phase' = NextPhase(rd_phase, TRUE, TRUE)
  BY DEF BothTick
<1>4. CASE Running
  <2>1. Running'
    BY <1>3, <1>4, PhaseStep DEF Running
  <2>2. TypeOK /\ TypeOK' /\ Ordered /\ WordInv /\ due = queue
    BY <1>4 DEF IInv, Ordered, DueInv, NoneStale, Running
  <2>3. PICK g \in {0, 1}, l \in {0, 1} : /\ g = 1 <=> (rd_valid /\ ready)
                                          /\ l = 1 <=> rd_en(ready)
    OBVIOUS
  <2>4. PICK p \in {0, 1} : p = 1 <=> wr_en(offer)
    OBVIOUS
  <2>5. /\ rd_bin' = Stepped(rd_bin, l)
        /\ l = 1 => core_valid
        /\ held_out' = held_out - g + l
        /\ held_out' = 1 => out_data' = IF l = 1 THEN core_data ELSE out_data
    BY <1>2, <1>4, <2>2, <2>3, RdServes DEF rd_rst, Running
  <2>6. mem' = Stored(mem, p, Addr(wr_bin), offer) /\ wr_bin' = Stepped(wr_bin, p)
    BY <1>2, <1>4, <2>4, WrServes DEF wr_rst, Running
  <2> QED
    BY <1>1, <1>4, <2>1, <2>2, <2>3, <2>4, <2>5, <2>6, RunDue
<1>5. CASE ~Running
  <2>1. ~Running'
    BY <1>3, <1>5 DEF Running, NextPhase, IInv, TypeOK, Phases
  <2>2. due' = << >>
    BY <1>1, <1>5 DEF Exchanged
  <2> QED BY <2>1, <2>2, ResetDue
<1> QED
  BY <1>4, <1>5

\* The assertion of the resets empties the crossing; a release finds it empty,
\* both domains at their reset values.
LEMMA ResetsDue ==
  ASSUME IInv, IInv', DueInv, AssertReset \/ ReleaseWr \/ ReleaseRd, ResetContract
  PROVE  DueInv' /\ (Channel!Next \/ queue' = queue)
<1>1. CASE AssertReset
  BY <1>1, ResetDue DEF AssertReset, Running
<1>2. CASE ReleaseWr \/ ReleaseRd
  <2>1. NoneStale /\ ~Running
    BY <1>2 DEF ReleaseWr, ReleaseRd, MayRelease, ResetContract, IInv, PhaseInv,
       NoneStale, Running, TypeOK, Phases
  <2>2. WrZero /\ RdZero /\ due = << >> /\ queue = << >>
    BY <2>1 DEF IInv, ZeroInv, DueInv, queue
  <2>3. fill' = 0 /\ held_out' = 0 /\ due' = << >>
    <3>1. wr_bin' = 0 /\ rd_bin' = 0 /\ out_valid' = FALSE /\ due' = << >>
      BY <1>2, <2>2 DEF ReleaseWr, ReleaseRd, wrVars, rdVars, WrZero, RdZero
    <3> QED BY <3>1, DistZero, Basics DEF fill, held_out
  <2>4. held' = << >> /\ held' \in [1 .. fill' -> Data]
    BY <2>3 DEF held
  <2>5. queue' = << >>
    BY <2>3, <2>4 DEF queue, held_out
  <2> QED BY <2>2, <2>3, <2>4, <2>5 DEF DueInv, WordInv
<1> QED
  BY <1>1, <1>2

\* The refinement, step by step: the words inside start as the empty channel.
LEMMA ChannelInit == Init => DueInv /\ Channel!Init
<1> SUFFICES ASSUME Init PROVE DueInv /\ Channel!Init
  OBVIOUS
<1>1. ~Running /\ due = << >>
  BY DEF Init, Running
<1>2. queue = << >>
  BY <1>1 DEF queue
<1> QED
  BY <1>1, <1>2 DEF DueInv, Channel!Init

\* Every step of the two clocks and of the resets is a step of the channel, or
\* leaves the words alone, and keeps them the words due.
LEMMA ChannelStep ==
  ASSUME ResetContract, IInv, IInv', FlagsSafe, DueInv, [Next]_vars
  PROVE  DueInv' /\ [Channel!Next]_queue /\ [queue' = due']_vars
<1>1. DueInv' /\ (Channel!Next \/ queue' = queue)
  <2>1. CASE Next
    BY <2>1, WrTickDue, RdTickDue, BothTickDue, ResetsDue DEF Next
  <2>2. CASE UNCHANGED vars
    BY <2>2 DEF vars, wrVars, rdVars, DueInv, WordInv, queue, held, fill, held_out, Running
  <2> QED BY <2>1, <2>2
<1> QED
  BY <1>1 DEF DueInv

\* Whatever the two clocks do, and for every depth, chain length and output mode,
\* the crossing is a FIFO of at most DEPTH words (DEPTH + 1 with the output
\* register) that a reset empties, and no word is lost at either face, delivered
\* twice or overtaken.
THEOREM CrossingIsFifo == ResetContract /\ Spec => IsFifo
<1> SUFFICES ASSUME ResetContract PROVE Spec => IsFifo
  OBVIOUS
<1>1. Spec => []IInv /\ []FlagsSafe
  BY Invariance, FlagsSafeAlways, PTL
<1>2. IInv /\ IInv' /\ FlagsSafe /\ DueInv /\ [Next]_vars
        => DueInv' /\ [Channel!Next]_queue /\ [queue' = due']_vars
  BY ChannelStep
<1> QED
  BY <1>1, <1>2, ChannelInit, PTL DEF Spec, IsFifo, Channel!Spec
=============================================================================
