------------------------------ MODULE FxpVectors ------------------------------
(***************************************************************************)
(* model/python/gen_fxp_vectors.py: the three files of golden vectors that *)
(* the RTL and the C++ arithmetic are compared with, for samples of any    *)
(* width.  A record holds operands and what the reference computes from    *)
(* them.  The seeded random records and the record names are left out, so  *)
(* what is shown of the directed records holds for every seed.             *)
(***************************************************************************)
EXTENDS FixedPoint, FiniteSets, SequencesExt

OPS == {"sat", "trunc", "round_even", "round_half_up", "round", "round_sat", "add_sat", "sub_sat",
        "neg_sat", "mul_q15", "mul_q15_rs", "cmul_re", "cmul_im", "acc_w", "growth_bits"}

Exact(y)             == [y |-> y, flags |-> NoFlags]
Flagged(raw, w)      == [y |-> sat(raw, w), flags |-> sat_flags(raw, w)]
RoundedTo(raw, s, w) == [y |-> round_sat(raw, s, w), flags |-> round_sat_flags(raw, s, w)]

evaluate(op, a, b, sh, w) ==
  CASE op = "sat"           -> Flagged(a, w)
    [] op = "trunc"         -> Exact(trunc(a, sh))
    [] op \in {"round_even", "round"} -> Exact(round_even(a, sh))
    [] op = "round_half_up" -> Exact(round_half_up(a, sh))
    [] op = "round_sat"     -> RoundedTo(a, sh, w)
    [] op = "add_sat"       -> Flagged(a + b, w)
    [] op = "sub_sat"       -> Flagged(a - b, w)
    [] op = "neg_sat"       -> Flagged(-a, w)
    [] op = "mul_q15"       -> Exact(mul_q15(to_q15_bits(a), to_q15_bits(b)))
    [] op = "mul_q15_rs"    -> RoundedTo(mul_q15(to_q15_bits(a), to_q15_bits(b)), PROD_SHIFT, SAMPLE_W)
    [] op = "cmul_re"       -> RoundedTo(cmul_re_raw(Unpack(a), Unpack(b)), PROD_SHIFT, SAMPLE_W)
    [] op = "cmul_im"       -> RoundedTo(cmul_im_raw(Unpack(a), Unpack(b)), PROD_SHIFT, SAMPLE_W)
    [] op = "acc_w"         -> Exact(acc_w(w, a))
    [] op = "growth_bits"   -> Exact(growth_bits(a))

Op(op, a, b, sh, w) == [op |-> op, a |-> a, b |-> b, sh |-> sh, w |-> w, out |-> evaluate(op, a, b, sh, w)]

\* The directed records of fxp_ops.vec.
SAT_WIDTHS == {4, SAMPLE_W, PROD_W}
TIE_SHIFTS == {1, FRAC_W, 2 * FRAC_W}
Q15_EDGES  == {Q15_MIN, Q15_MIN + 1, Q15_MIN \div 2, -1, 0, 1, -(Q15_MIN \div 2), Q15_MAX - 1, Q15_MAX}

directed_saturation ==
  LET Around(w) == LET hi == max_of(w)  lo == min_of(w)
                   IN  {hi, hi + 1, hi + 2, lo, lo - 1, lo - 2, 0, 1, -1, 3 * hi + 7, 3 * lo - 7}
  IN  UNION {{Op("sat", v, 0, 0, w) : v \in Around(w)} : w \in SAT_WIDTHS}
      \cup {Op("neg_sat", v, 0, 0, SAMPLE_W) : v \in {Q15_MIN, Q15_MAX, 0, 1}}
      \cup UNION {{Op("add_sat", max_of(w), 1, 0, w), Op("add_sat", min_of(w), -1, 0, w),
                   Op("sub_sat", max_of(w), -1, 0, w), Op("sub_sat", min_of(w), 1, 0, w),
                   Op("neg_sat", min_of(w), 0, 0, w)} : w \in SAT_WIDTHS}
      \cup {Op("add_sat", v, v, 0, SAMPLE_W) : v \in {Q15_MIN, Q15_MAX}}
      \cup {Op("sub_sat", Q15_MIN, Q15_MAX, 0, SAMPLE_W)}

without_ties ==
  UNION {{Op(op, k * 2 ^ s + r, 0, s, SAMPLE_W) : op \in {"round_even", "round_half_up", "round", "trunc"},
            k \in -3 .. 3, r \in {0, 2 ^ (s - 1) - 1, 2 ^ (s - 1) + 1}} : s \in TIE_SHIFTS}
directed_rounding ==
  UNION {{Op(op, k * 2 ^ s + r, 0, s, SAMPLE_W) : op \in {"round_even", "round_half_up", "round", "trunc"},
            k \in -3 .. 3, r \in {0, 2 ^ (s - 1) - 1, 2 ^ (s - 1), 2 ^ (s - 1) + 1}} : s \in TIE_SHIFTS}
  \cup {Op(op, v, 0, 0, SAMPLE_W) : op \in {"round_even", "round_half_up", "round", "trunc"},
          v \in {-5, -1, 0, 1, 5, Q15_MAX, Q15_MIN}}

directed_round_sat ==
  LET Near(w, sh) == {e * 2 ^ sh + d : e \in {max_of(w), min_of(w)},
                        d \in {0, 2 ^ (sh - 1), 2 ^ (sh - 1) + 1, -(2 ^ (sh - 1)), -(2 ^ (sh - 1)) - 1}}
  IN  {Op("round_sat", v, 0, FRAC_W, SAMPLE_W) : v \in Near(SAMPLE_W, FRAC_W) \cup {0, 2 ^ (FRAC_W - 1)}}
      \cup UNION {{Op("round_sat", max_of(w) * 2 ^ sh + 2 ^ (sh - 1), 0, sh, w),
                   Op("round_sat", min_of(w) * 2 ^ sh - 2 ^ (sh - 1), 0, sh, w)} : w \in SAT_WIDTHS, sh \in {1, 4}}

directed_multiply ==
  {Op(op, a, b, 0, SAMPLE_W) : op \in {"mul_q15", "mul_q15_rs"}, a, b \in Q15_EDGES}

C(re, im) == [re |-> re, im |-> im]
Half == 2 ^ (FRAC_W - 1)

directed_complex ==
  LET edges == {C(Q15_MIN, 0), C(Q15_MAX, 0), C(0, Q15_MIN), C(Q15_MIN, Q15_MIN), C(Q15_MAX, Q15_MAX),
                C(Half, Half), C(0, 0), C(1, -1)}
      Word(c) == pack_complex(c.re, c.im)
  IN  {Op(op, Word(a), Word(b), 0, SAMPLE_W) : op \in {"cmul_re", "cmul_im"}, a, b \in edges}

directed_acc_width ==
  {Op("growth_bits", n, 0, 0, SAMPLE_W) : n \in 1 .. 33}
  \cup {Op("acc_w", n, 0, 0, PROD_W) : n \in 1 .. 33}

OpVectors == directed_saturation \cup directed_rounding \cup directed_round_sat \cup directed_multiply
             \cup directed_complex \cup directed_acc_width

(***************************************************************************)
(* The directed records of cmult.vec.  add() refuses a pair for which the  *)
(* two factorizations differ or the exact product does not fit.            *)
(***************************************************************************)
Cm(a, b) == [a |-> a, b |-> b, p |-> C(cmul_re_raw(a, b), cmul_im_raw(a, b)),
             y |-> cmul(a, b), flags |-> cmul_flags(a, b)]
Admitted(r) == /\ {r.a.re, r.a.im, r.b.re, r.b.im} \subseteq Q15
               /\ cmul3_agrees(r.a, r.b) /\ cmul_prod_fits(r.p.re) /\ cmul_prod_fits(r.p.im)

CMULT_CORNERS ==
  {C(0, 0), C(Q15_MAX, 0), C(Q15_MIN, 0), C(0, Q15_MAX), C(0, Q15_MIN), C(Q15_MAX, Q15_MAX),
   C(Q15_MIN, Q15_MIN), C(Q15_MAX, Q15_MIN), C(Q15_MIN, Q15_MAX), C(Half, Half), C(1, -1), C(-1, 1)}
directed_cmult_corners == {Cm(a, b) : a, b \in CMULT_CORNERS}

positive_edge == {Cm(C(Q15_MIN, m), C(Q15_MIN, Half + d)) : m \in {1, 2}, d \in -8 .. 8}
negative_edge == {Cm(C(Q15_MIN, m), C(Q15_MAX, Half + d)) : m \in {4, 5, 6}, d \in -4 .. 4}
directed_cmult_round_boundary ==
  positive_edge \cup negative_edge
  \cup {Cm(C(Q15_MIN, Q15_MIN), C(Half + k, Half + k)) : k \in -4 .. 4}

directed_cmult_structure ==
  LET pre == {<<C(0, 0), C(Q15_MAX, Q15_MAX)>>, <<C(0, 0), C(Q15_MIN, Q15_MIN)>>,
              <<C(Q15_MAX, Q15_MAX), C(0, 0)>>, <<C(Q15_MIN, Q15_MIN), C(0, 0)>>,
              <<C(Q15_MIN, Q15_MAX), C(1, 1)>>, <<C(Q15_MAX, Q15_MIN), C(1, 1)>>,
              <<C(Q15_MAX, Q15_MAX), C(Q15_MAX, Q15_MAX)>>,
              <<C(Q15_MAX, Q15_MIN), C(Q15_MAX, -Q15_MAX)>>,
              <<C(Q15_MAX, -Q15_MAX), C(Q15_MIN, Q15_MAX)>>}
      units  == {C(Q15_MAX, 0), C(Q15_MIN, 0), C(0, Q15_MAX), C(0, Q15_MIN)}
      probes == {C(3, -5), C(Half, -Half)}
      small  == {C(re, im) : re, im \in -1 .. 1}
  IN  {Cm(x[1], x[2]) : x \in pre} \cup {Cm(a, b) : a, b \in small}
      \cup UNION {{Cm(p, u), Cm(u, p)} : p \in probes, u \in units}

CmultVectors == directed_cmult_corners \cup directed_cmult_round_boundary \cup directed_cmult_structure

(***************************************************************************)
(* fxp_accum.vec: a saturating accumulator, step by step.                  *)
(***************************************************************************)
Cleared == [acc |-> 0, now |-> NoFlags, sticky |-> NoFlags, count |-> 0]
Accumulate(width, st, x) ==
  LET now == sat_flags(st.acc + x, width)
  IN  [acc |-> sat(st.acc + x, width), now |-> now,
       sticky |-> [pos |-> st.sticky.pos \/ now.pos, neg |-> st.sticky.neg \/ now.neg],
       count |-> st.count + (IF now # NoFlags THEN 1 ELSE 0)]
add_sequence(width, xs) ==
  LET after[n \in 0 .. Len(xs)] == IF n = 0 THEN Cleared ELSE Accumulate(width, after[n - 1], xs[n])
  IN  [n \in DOMAIN xs |-> after[n]]

Repeat(x, n) == [i \in 1 .. n |-> x]
accum_sequences ==
  LET big == 5 * 2 ^ (SAMPLE_W - 4)
  IN  {[width |-> SAMPLE_W, xs |-> xs] : xs \in
         {Repeat(Half, 8), Repeat(-Half, 8), Repeat(big, 3) \o Repeat(-big, 6),
          [i \in 1 .. 12 |-> IF i % 2 = 1 THEN big ELSE -big]}}
      \cup UNION {{[width |-> acc_w(PROD_W, n), xs |-> Repeat(2 ^ (2 * FRAC_W), n)],
                   [width |-> acc_w(PROD_W, n), xs |-> Repeat(-(2 ^ (2 * FRAC_W)), n)]} : n \in {3, 4, 8, 16}}
      \cup {[width |-> PROD_W, xs |-> Repeat(2 ^ (2 * FRAC_W), 8)]}
-----------------------------------------------------------------------------
(***************************************************************************)
(* Implementations that are wrong in the ways such arithmetic usually is,  *)
(* as what they would answer for a record.                                 *)
(***************************************************************************)
LOCAL Wrapped(v, w) == LET u == v % (2 ^ w) IN IF u >= 2 ^ (w - 1) THEN u - 2 ^ w ELSE u
LOCAL HalfAway(v, s) ==
  IF s = 0 THEN v ELSE IF v >= 0 THEN round_half_up(v, s) ELSE -round_half_up(-v, s)
LOCAL TowardZero(v, s) == IF v >= 0 THEN trunc(v, s) ELSE -trunc(-v, s)
LOCAL Swapped(f) == [pos |-> f.neg, neg |-> f.pos]
LOCAL Terms(a, b) == sat(round_even(a, PROD_SHIFT) + round_even(b, PROD_SHIFT), SAMPLE_W)

OpFaults == {"half_up", "half_away", "toward_zero", "wraps", "symmetric", "flags_swapped",
             "saturates_first", "unsigned_fields", "growth_floor"}
WrongOp(fault, r) ==
  CASE fault = "half_up" /\ r.op \in {"round", "round_even"} -> Exact(round_half_up(r.a, r.sh))
    [] fault = "half_away" /\ r.op \in {"round", "round_even"} -> Exact(HalfAway(r.a, r.sh))
    [] fault = "toward_zero" /\ r.op = "trunc" -> Exact(TowardZero(r.a, r.sh))
    [] fault = "wraps" /\ r.op \in {"add_sat", "neg_sat"} ->
         [r.out EXCEPT !.y = Wrapped(IF r.op = "add_sat" THEN r.a + r.b ELSE -r.a, r.w)]
    [] fault = "symmetric" /\ r.op = "sub_sat" /\ r.out.flags.neg -> [r.out EXCEPT !.y = -max_of(r.w)]
    [] fault = "flags_swapped" /\ r.op = "round_sat" -> [r.out EXCEPT !.flags = Swapped(@)]
    [] fault = "saturates_first" /\ r.op = "round_sat" ->
         [r.out EXCEPT !.y = saturated_first(r.a, r.sh, r.w)]
    [] fault = "unsigned_fields" /\ r.op = "mul_q15" ->
         Exact((r.a % (2 ^ SAMPLE_W)) * (r.b % (2 ^ SAMPLE_W)))
    [] fault = "growth_floor" /\ r.op = "growth_bits" -> Exact(floor_log(r.a))
    [] OTHER -> r.out

CmFaults == {"half_up", "half_away", "rounds_terms", "short_product", "short_pre_add", "conjugate",
             "saturates_first", "no_im_flags"}
WrongCm(fault, r) ==
  LET Rounding(Round(_, _)) ==
        [r EXCEPT !.y = C(sat(Round(r.p.re, PROD_SHIFT), SAMPLE_W), sat(Round(r.p.im, PROD_SHIFT), SAMPLE_W))]
  IN  CASE fault = "half_up"       -> Rounding(round_half_up)
        [] fault = "half_away"     -> Rounding(HalfAway)
        [] fault = "rounds_terms"  -> [r EXCEPT !.y = C(Terms(r.a.re * r.b.re, -(r.a.im * r.b.im)),
                                                        Terms(r.a.re * r.b.im, r.a.im * r.b.re))]
        [] fault = "short_product" -> [r EXCEPT !.p = C(Wrapped(@.re, PROD_W), Wrapped(@.im, PROD_W))]
        [] fault = "short_pre_add" ->
             [r EXCEPT !.p.re = r.a.re * Wrapped(r.b.re + r.b.im, SAMPLE_W) - cmul3_k2(r.a, r.b)]
        [] fault = "conjugate"     -> [r EXCEPT !.p.im = cmul3_k1(r.a, r.b) - cmul3_k3(r.a, r.b)]
        [] fault = "saturates_first" ->
             [r EXCEPT !.y = C(saturated_first(r.p.re, PROD_SHIFT, SAMPLE_W),
                               saturated_first(r.p.im, PROD_SHIFT, SAMPLE_W))]
        [] OTHER                   -> [r EXCEPT !.flags.im = NoFlags]

AccFaults == {"latches", "sticky_lost", "counts_one"}
WrongStep(fault, width, st, x) ==
  LET right == Accumulate(width, st, x)
  IN  CASE fault = "latches"     -> IF st.sticky = NoFlags THEN right ELSE [right EXCEPT !.acc = st.acc]
        [] fault = "sticky_lost" -> [right EXCEPT !.sticky = right.now]
        [] OTHER                 -> [right EXCEPT !.count = IF right.sticky = NoFlags THEN 0 ELSE 1]

(***************************************************************************)
(* Every record generated is admitted, the accumulations at the width the  *)
(* policy gives never saturate, and each wrong implementation answers some *)
(* directed record of its file otherwise than the file says.               *)
(***************************************************************************)
SeenBy(file, fault) ==
  CASE file = "ops"   -> \E r \in OpVectors : WrongOp(fault, r) # r.out
    [] file = "cmult" -> \E r \in CmultVectors : WrongCm(fault, r) # r
    [] OTHER -> \E q \in accum_sequences :
         LET steps == add_sequence(q.width, q.xs)
         IN  \E n \in 1 .. Len(q.xs) - 1 :
               WrongStep(fault, q.width, steps[n], q.xs[n + 1]) # steps[n + 1]
Sound ==
  /\ \A r \in CmultVectors : Admitted(r)
  /\ \A q \in accum_sequences : q.width > PROD_W => add_sequence(q.width, q.xs)[Len(q.xs)].count = 0
==============================================================================
