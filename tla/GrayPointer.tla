---------------------------- MODULE GrayPointer ----------------------------
(***************************************************************************)
(* The pointers of rtl/cdc/async_fifo.sv bit by bit, with the encoding of  *)
(* rtl/packages/cdc_pkg.sv: what AsyncFifo assumes of them.  A flop that   *)
(* samples a register while the register changes takes each bit from       *)
(* either side of the change on its own.  One flop stands for a            *)
(* synchronizer (ClockDomains has the chain); there is no reset here.      *)
(***************************************************************************)
EXTENDS Naturals, FiniteSets

CONSTANT Width     \* PTR_W, one bit more than an address, at least 2

VARIABLES wr_bin, wr_gray, wr_full, rd_seen,   \* wr_clk
          rd_bin, rd_gray, rd_empty, wr_seen   \* rd_clk

wrVars == <<wr_bin, wr_gray, wr_full, rd_seen>>
rdVars == <<rd_bin, rd_gray, rd_empty, wr_seen>>
vars   == <<wrVars, rdVars>>

Bit  == 0 .. Width - 1
Ptr  == 0 .. 2 ^ Width - 1
Word == [Bit -> {0, 1}]

bits(p)    == [i \in Bit |-> (p \div 2 ^ i) % 2]

Inc(p)     == (p + 1) % 2 ^ Width
Dist(a, b) == (a + 2 ^ Width - b) % 2 ^ Width

\* Wrong on purpose: the pointer crosses in binary.
to_binary(p) == bits(p)

\* cdc_bin2gray: g = b ^ (b >> 1).
to_gray(p) == [i \in Bit |-> (bits(p)[i] + bits(p \div 2)[i]) % 2]

\* cdc_gray2bin: each bit is the parity of the Gray bits at or above it.
parity(g, i) == Cardinality({j \in i .. Width - 1 : g[j] = 1}) % 2
to_bin(g)    == CHOOSE p \in Ptr : \A i \in Bit : bits(p)[i] = parity(g, i)

\* The Gray value a full lap ahead: the top two bits inverted.
lap_ahead(g) == [i \in Bit |-> IF i >= Width - 2 THEN 1 - g[i] ELSE g[i]]

\* Bits that move while they are sampled resolve one by one.
Resolved(old, new) == {w \in Word : \A i \in Bit : w[i] \in {old[i], new[i]}}

WrNext(en) == IF en THEN Inc(wr_bin) ELSE wr_bin
RdNext(en) == IF en THEN Inc(rd_bin) ELSE rd_bin

WrEdge(en) ==
  /\ en => ~wr_full
  /\ wr_bin' = WrNext(en) /\ wr_gray' = to_gray(WrNext(en))
  /\ wr_full' = (to_gray(WrNext(en)) = lap_ahead(rd_seen))

RdEdge(en) ==
  /\ en => ~rd_empty
  /\ rd_bin' = RdNext(en) /\ rd_gray' = to_gray(RdNext(en))
  /\ rd_empty' = (to_gray(RdNext(en)) = wr_seen)

WrTick ==
  /\ \E en \in BOOLEAN : WrEdge(en)
  /\ rd_seen' = rd_gray
  /\ UNCHANGED rdVars

RdTick ==
  /\ \E en \in BOOLEAN : RdEdge(en)
  /\ wr_seen' = wr_gray
  /\ UNCHANGED wrVars

BothTick ==
  /\ \E wen, ren \in BOOLEAN : WrEdge(wen) /\ RdEdge(ren)
  /\ rd_seen' \in Resolved(rd_gray, rd_gray')
  /\ wr_seen' \in Resolved(wr_gray, wr_gray')

Init ==
  /\ wr_bin = 0 /\ wr_gray = to_gray(0) /\ wr_full = FALSE /\ rd_seen = to_gray(0)
  /\ rd_bin = 0 /\ rd_gray = to_gray(0) /\ rd_empty = TRUE /\ wr_seen = to_gray(0)

Next == WrTick \/ RdTick \/ BothTick
Spec == Init /\ [][Next]_vars

-----------------------------------------------------------------------------
TypeOK ==
  /\ wr_bin \in Ptr /\ rd_bin \in Ptr
  /\ {wr_gray, rd_gray, wr_seen, rd_seen} \subseteq Word
  /\ wr_full \in BOOLEAN /\ rd_empty \in BOOLEAN

\* A pointer sampled while it moves decodes to its old or its new value and
\* never to a third (cdc_pkg.sv, "Gray code"): what AsyncFifo calls Sampled.
SamplesAreReal ==
  /\ rd_seen' # rd_seen => to_bin(rd_seen') \in {rd_bin, rd_bin'}
  /\ wr_seen' # wr_seen => to_bin(wr_seen') \in {wr_bin, wr_bin'}

\* The flags compared in Gray code say what the distances of the pointers say:
\* full never misses a fill of DEPTH, empty never misses a fill of zero, and the
\* writer never laps the reader.
FlagsMeanDistances ==
  /\ Dist(wr_bin, rd_bin) <= 2 ^ (Width - 1)
  /\ Dist(wr_bin, rd_bin) = 2 ^ (Width - 1) => wr_full
  /\ Dist(wr_bin, rd_bin) = 0 => rd_empty
=============================================================================
