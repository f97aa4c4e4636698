------------------------------ MODULE FftVectors ------------------------------
(***************************************************************************)
(* The transform of Fft over two arithmetics.  Over the integers modulo    *)
(* 17, where 3 is a root of order 16 and 9 is a half, every operation is   *)
(* exact and the structure alone decides the answer.  Over the fixed point *)
(* of FixedPoint, frames of four samples of the extreme values of          *)
(* gen_fft_vectors, whose twiddles are the axis points of the table.       *)
(***************************************************************************)
EXTENDS FixedPoint, FiniteSets, FiniteSetsExt

VARIABLES exact, fixed   \* a transform over the ring, a transform in fixed point

P == 17
Power == [e \in 0 .. 15 |-> (3 ^ e) % P]
Half(sh) == IF sh = 1 THEN 9 ELSE 1
RingAdd(a, b, sh)      == [y |-> ((a + b) * Half(sh)) % P, f |-> {}]
RingSubtract(a, b, sh) == [y |-> ((a - b + P) * Half(sh)) % P, f |-> {}]
RingMinusJ(a)          == [y |-> (a * Power[4]) % P, f |-> {}]
RingTimes(x, l, e)     == [y |-> (x * Power[e * 2 ^ (4 - l)]) % P, f |-> {}]

\* frame_impulse, one per position, and a frame with no symmetry at all.
frame_impulse(n, pos) == [t \in 0 .. n - 1 |-> IF t = pos THEN 1 ELSE 0]
RingFrames == {frame_impulse(16, pos) : pos \in 0 .. 15} \cup {[t \in 0 .. 15 |-> (3 * t * t + 5) % P]}

Ring == INSTANCE Fft WITH LOG2N <- 4, Frames <- RingFrames, Spcs <- {1, 2}, fft <- exact,
          Add <- RingAdd, Subtract <- RingSubtract, MinusJ <- RingMinusJ, Times <- RingTimes

(***************************************************************************)
(* Fixed point: the butterfly's sum and difference are rounded at the      *)
(* shift and saturated once; -j negates one component, saturating; the     *)
(* twiddles are the quantised table's.  "far" is more than one step over.  *)
(***************************************************************************)
Names(f) == (IF f.pos THEN {"pos"} ELSE {}) \cup (IF f.neg THEN {"neg"} ELSE {})
q(v, sh)      == round_sat(v, sh, SAMPLE_W)
qflags(v, sh) ==
  Names(round_sat_flags(v, sh, SAMPLE_W))
  \cup (IF round_even(v, sh) > Q15_MAX + 1 THEN {"far"} ELSE {})
Component(v, sh) == [y |-> q(v, sh), f |-> qflags(v, sh)]
Pair(re, im) == [y |-> [re |-> re.y, im |-> im.y], f |-> re.f \cup im.f]
FxAdd(a, b, sh)      == Pair(Component(a.re + b.re, sh), Component(a.im + b.im, sh))
FxSubtract(a, b, sh) == Pair(Component(a.re - b.re, sh), Component(a.im - b.im, sh))
FxMinusJ(a) == [y |-> [re |-> a.im, im |-> neg_sat(a.re, SAMPLE_W)],
                f |-> Names(sat_flags(-a.re, SAMPLE_W))]

\* The axis points, exact in the table: 1 does not fit and is the largest sample, -1 fits.
cos_sin(quadrant) == <<<<1, 0>>, <<0, 1>>, <<-1, 0>>, <<0, -1>>>>[quadrant + 1]
q15(x)  == sat(x * 2 ^ FRAC_W, SAMPLE_W)
twiddle(quadrant) == LET cs == cos_sin(quadrant % 4) IN [re |-> q15(cs[1]), im |-> q15(-cs[2])]
FxTimes(x, l, e) ==
  LET w == twiddle(e * 2 ^ (2 - l))
  IN [y |-> cmul(x, w), f |-> Names(cmul_flags(x, w).re) \cup Names(cmul_flags(x, w).im)]

C(re, im) == [re |-> re, im |-> im]
Extremes == {C(Q15_MAX, Q15_MIN), C(Q15_MIN + 1, 0), C(Q15_MIN, Q15_MAX), C(Q15_MIN, Q15_MIN), C(0, 1)}
Fixed == INSTANCE Fft WITH LOG2N <- 2, Frames <- [0 .. 3 -> Extremes], Spcs <- {1, 2}, fft <- fixed,
           Add <- FxAdd, Subtract <- FxSubtract, MinusJ <- FxMinusJ, Times <- FxTimes

-----------------------------------------------------------------------------
(***************************************************************************)
(* What the cross-check of the generator measures: the DFT of the frame    *)
(* times one half per shift of the schedule that was used.                 *)
(***************************************************************************)
Popcount(sched) == Cardinality(sched)
Gain(sched) == (9 ^ Popcount(sched)) % P
RingDft(x, k) == FoldSet(LAMBDA t, s : (s + x[t] * Power[(k * t) % 16]) % P, 0, 0 .. 15)

(***************************************************************************)
(* With exact arithmetic every frame of every schedule and lane count is   *)
(* transformed into its DFT, scaled by a half per shift taken, and the     *)
(* order of the output is the documented one: slot p of beat j holds bin   *)
(* j + p * N/SPC when reordered, its bit-reversed beat when not            *)
(* (transform, fft_pkg: the stage, twiddle and merge rules together).      *)
(***************************************************************************)
TransformIsDft ==
  exact.at = "done" =>
    LET m == 16 \div exact.spc
        Beat(j) == IF exact.reorder THEN j ELSE Ring!bitrev(j, Ring!log2_exact(m))
    IN  /\ \A k \in 0 .. 15 : exact.bins[k] = (Gain(exact.sched) * RingDft(exact.x, k)) % P
        /\ \A j \in 0 .. m - 1, p \in 0 .. exact.spc - 1 :
             exact.out[j * exact.spc + p] = exact.bins[Beat(j) + p * m]

\* The DFT of four samples, whose twiddles are 1, -j, -1 and j.
TurnBy(a, r) == CASE r = 0 -> a [] r = 1 -> C(a.im, -a.re) [] r = 2 -> C(-a.re, -a.im) [] r = 3 -> C(-a.im, a.re)
Dft4(x, k) ==
  LET Term(t) == TurnBy(x[t], (k * t) % 4)
  IN C(Term(0).re + Term(1).re + Term(2).re + Term(3).re, Term(0).im + Term(1).im + Term(2).im + Term(3).im)
NoFlag(f) == \A g \in DOMAIN f.flags : f.flags[g] \cup f.turns[g] = {}
Magnitude(v) == IF v < 0 THEN -v ELSE v
Near(y, v, s) == Magnitude(y * 2 ^ s - v) <= 2 * 2 ^ s

(***************************************************************************)
(* The flags of a frame tell the truth about it.  A frame that raised none *)
(* is its scaled DFT to within two steps of rounding in every bin: nothing *)
(* saturated unseen.  A scaled sub-stage saturates upwards only, by one    *)
(* step (fft_pkg.sv:139-150), so a full schedule loses no more than that.  *)
(***************************************************************************)
FlagsTellTheTruth ==
  fixed.at = "done" =>
    /\ NoFlag(fixed) => \A k \in 0 .. 3 :
         LET y == fixed.bins[k]  v == Dft4(fixed.x, k)  s == Popcount(fixed.sched)
         IN Near(y.re, v.re, s) /\ Near(y.im, v.im, s)
    /\ \A g \in fixed.sched : fixed.flags[g] \subseteq {"pos"}

(***************************************************************************)
(* The assertion a_fft_merge_scaled_no_sat (fft_dit_merge.sv:292-294): a   *)
(* merge with its shift on never saturates, in a fully scaled transform.   *)
(***************************************************************************)
ScaledMergeNeverSaturates ==
  fixed.at = "done" /\ fixed.spc = 2 /\ fixed.sched = {0, 1} => fixed.flags[1] = {}
==============================================================================
