------------------------------ MODULE FixedPoint ------------------------------
(***************************************************************************)
(* model/python/fxp_reference.py: the arithmetic every block of the data   *)
(* path is measured against, over integers, for samples of any width.      *)
(* Operands stay inside the domain the module enforces, where int64 is     *)
(* exact.                                                                  *)
(***************************************************************************)
EXTENDS Integers, Sequences

CONSTANT SAMPLE_W   \* 16 in the code

ASSUME WidthAssumption == SAMPLE_W \in Nat /\ SAMPLE_W >= 2

FRAC_W     == SAMPLE_W - 1
PROD_W     == 2 * SAMPLE_W
PROD_SHIFT == FRAC_W

max_of(w) == 2 ^ (w - 1) - 1
min_of(w) == -(2 ^ (w - 1))
Q15_MAX   == max_of(SAMPLE_W)
Q15_MIN   == min_of(SAMPLE_W)
Q15       == Q15_MIN .. Q15_MAX

sat(v, w) == IF v > max_of(w) THEN max_of(w) ELSE IF v < min_of(w) THEN min_of(w) ELSE v
NoFlags   == [pos |-> FALSE, neg |-> FALSE]
sat_flags(v, w) == [pos |-> v > max_of(w), neg |-> v < min_of(w)]

trunc(v, s)         == v \div (2 ^ s)
round_half_up(v, s) == IF s = 0 THEN v ELSE (v + 2 ^ (s - 1)) \div (2 ^ s)

\* By floor quotient and remainder; a tie adds the quotient's low bit.
Nearest(q, r, half) == q + (IF r > half THEN 1 ELSE IF r < half THEN 0 ELSE q % 2)
round_even(v, s) ==
  IF s = 0 THEN v ELSE Nearest(v \div (2 ^ s), v % (2 ^ s), 2 ^ (s - 1))

\* Rounded first, saturated second.
saturated_first(v, s, w)  == round_even(sat(v, w + s), s)
round_sat(v, s, w)        == sat(round_even(v, s), w)
round_sat_flags(v, s, w)  == sat_flags(round_even(v, s), w)

add_sat(a, b, w) == sat(a + b, w)
sub_sat(a, b, w) == sat(a - b, w)
neg_sat(a, w)    == sat(-a, w)

mul_q15(a, b)    == a * b
mul_q15_rs(a, b) == round_sat(mul_q15(a, b), PROD_SHIFT, SAMPLE_W)

(***************************************************************************)
(* The complex product, by four real multiplies and by three.              *)
(***************************************************************************)
cmul_re_raw(a, b) == mul_q15(a.re, b.re) - mul_q15(a.im, b.im)
cmul_im_raw(a, b) == mul_q15(a.re, b.im) + mul_q15(a.im, b.re)
Rounded(v)        == round_sat(v, PROD_SHIFT, SAMPLE_W)
cmul(a, b) == [re |-> Rounded(cmul_re_raw(a, b)), im |-> Rounded(cmul_im_raw(a, b))]
cmul_flags(a, b) == [re |-> round_sat_flags(cmul_re_raw(a, b), PROD_SHIFT, SAMPLE_W),
                     im |-> round_sat_flags(cmul_im_raw(a, b), PROD_SHIFT, SAMPLE_W)]

cmul3_k1(a, b) == a.re * (b.re + b.im)
cmul3_k2(a, b) == b.im * (a.re + a.im)
cmul3_k3(a, b) == b.re * (a.im - a.re)
cmul3_re_raw(a, b) == cmul3_k1(a, b) - cmul3_k2(a, b)
cmul3_im_raw(a, b) == cmul3_k1(a, b) + cmul3_k3(a, b)
cmul3_agrees(a, b) ==
  cmul3_re_raw(a, b) = cmul_re_raw(a, b) /\ cmul3_im_raw(a, b) = cmul_im_raw(a, b)

\* What a sum of n products grows by: the least number of bits that counts them.
floor_log(n) == CHOOSE g \in 0 .. n : 2 ^ g <= n /\ n < 2 ^ (g + 1)
growth_bits(n) == CHOOSE g \in 0 .. n : 2 ^ g >= n /\ (g > 0 => 2 ^ (g - 1) < n)
acc_w(prod_w, n) == prod_w + growth_bits(n)
CMUL_PROD_W      == PROD_W + 1
cmul_prod_fits(v) == min_of(CMUL_PROD_W) <= v /\ v <= max_of(CMUL_PROD_W)

\* {im, re} in one word, and a field of it read back as a signed value.
pack_complex(re, im) == (im % (2 ^ SAMPLE_W)) * 2 ^ SAMPLE_W + (re % (2 ^ SAMPLE_W))
to_q15_bits(x) ==
  LET u == x % (2 ^ SAMPLE_W) IN IF u >= 2 ^ (SAMPLE_W - 1) THEN u - 2 ^ SAMPLE_W ELSE u
Unpack(word) == [re |-> to_q15_bits(word), im |-> to_q15_bits(word \div 2 ^ SAMPLE_W)]
==============================================================================
