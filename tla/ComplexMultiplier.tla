-------------------------- MODULE ComplexMultiplier --------------------------
(***************************************************************************)
(* rtl/common/complex_multiplier.sv: both variants, as a pipeline of one   *)
(* to five registers.  Every intermediate wraps at its declared width.     *)
(* The data registers are free-running; only the valid chain is reset.     *)
(***************************************************************************)
EXTENDS FixedPoint

CONSTANTS
  Operands,   \* the complex operands presented
  NoBeat      \* a cycle without valid_in

VARIABLES
  shape,   \* VARIANT and PIPE_STAGES
  stage,   \* the data registers that are there: in, pre, mult, post, out
  valid,   \* valid_ch[1 .. PIPE_STAGES]
  entered  \* ghost: what was presented in the last PIPE_STAGES cycles, newest first

cmultVars == <<shape, stage, valid, entered>>

PRE_W == SAMPLE_W + 1
K_W   == SAMPLE_W + PRE_W
SUM_W == CMUL_PROD_W + 1

Wrap(v, w) == LET u == v % (2 ^ w) IN IF u >= 2 ^ (w - 1) THEN u - 2 ^ w ELSE u

\* The priority in which the locations get a register as PIPE_STAGES grows.
EnMult(n) == n >= 2
EnPost(n) == n >= 3
EnOut(n)  == n >= 4
EnPre(n)  == n >= 5

\* The combinational pieces between two register locations.
PreAdd(x) ==
  [bsum |-> Wrap(x.b.re + x.b.im, PRE_W), asum |-> Wrap(x.a.re + x.a.im, PRE_W),
   adif |-> Wrap(x.a.im - x.a.re, PRE_W), a |-> x.a, b |-> x.b]
narrow_products(x) ==
  IF shape.variant = "MULT3"
  THEN [k1 |-> Wrap(x.a.re * x.bsum, PROD_W), k2 |-> Wrap(x.b.im * x.asum, PROD_W),
        k3 |-> Wrap(x.b.re * x.adif, PROD_W)]
  ELSE [rr |-> Wrap(x.a.re * x.b.re, PROD_W), ii |-> Wrap(x.a.im * x.b.im, PROD_W),
        ri |-> Wrap(x.a.re * x.b.im, PROD_W), ir |-> Wrap(x.a.im * x.b.re, PROD_W)]
Products(x) ==
  IF shape.variant = "MULT3"
  THEN [k1 |-> Wrap(x.a.re * x.bsum, K_W), k2 |-> Wrap(x.b.im * x.asum, K_W),
        k3 |-> Wrap(x.b.re * x.adif, K_W)]
  ELSE [rr |-> Wrap(x.a.re * x.b.re, PROD_W), ii |-> Wrap(x.a.im * x.b.im, PROD_W),
        ri |-> Wrap(x.a.re * x.b.im, PROD_W), ir |-> Wrap(x.a.im * x.b.re, PROD_W)]
PostAdd(x) ==
  IF shape.variant = "MULT3"
  THEN [re |-> Wrap(Wrap(x.k1 - x.k2, SUM_W), CMUL_PROD_W),
        im |-> Wrap(Wrap(x.k1 + x.k3, SUM_W), CMUL_PROD_W)]
  ELSE [re |-> Wrap(x.rr - x.ii, CMUL_PROD_W), im |-> Wrap(x.ri + x.ir, CMUL_PROD_W)]
RoundOut(x) ==
  [p |-> x, y |-> [re |-> Wrap(Rounded(x.re), SAMPLE_W), im |-> Wrap(Rounded(x.im), SAMPLE_W)],
   flags |-> [re |-> round_sat_flags(x.re, PROD_SHIFT, SAMPLE_W),
              im |-> round_sat_flags(x.im, PROD_SHIFT, SAMPLE_W)]]

Zero == [a |-> [re |-> 0, im |-> 0], b |-> [re |-> 0, im |-> 0]]

\* The value at each location before its register.
AtPre  == PreAdd(stage.in)
AtMult == Products(IF EnPre(shape.stages) THEN stage.pre ELSE AtPre)
AtPost == PostAdd(IF EnMult(shape.stages) THEN stage.mult ELSE AtMult)
AtOut  == RoundOut(IF EnPost(shape.stages) THEN stage.post ELSE AtPost)
Result == IF EnOut(shape.stages) THEN stage.out ELSE AtOut

CmultInit ==
  /\ shape \in [variant : {"MULT3", "MULT4"}, stages : 1 .. 5]
  /\ stage = [in |-> Zero, pre |-> PreAdd(Zero), mult |-> Products(PreAdd(Zero)),
              post |-> PostAdd(Products(PreAdd(Zero))),
              out |-> RoundOut(PostAdd(Products(PreAdd(Zero))))]
  /\ valid = [s \in 1 .. shape.stages |-> FALSE]
  /\ entered = << >>

Shifted(seq, x, n) == SubSeq(<<x>> \o seq, 1, IF Len(seq) < n THEN Len(seq) + 1 ELSE n)

\* The register that is not there holds nothing worth keeping.
Kept(there, v, old) == IF there THEN v ELSE old
Clock(x) ==
  /\ stage' = [in   |-> x,
               pre  |-> Kept(EnPre(shape.stages), AtPre, stage.pre),
               mult |-> Kept(EnMult(shape.stages), AtMult, stage.mult),
               post |-> Kept(EnPost(shape.stages), AtPost, stage.post),
               out  |-> Kept(EnOut(shape.stages), AtOut, stage.out)]
  /\ UNCHANGED shape

\* A cycle with a beat, a cycle without one (the data is then anything), a reset cycle.
Beat(x) ==
  /\ Clock(x) /\ entered' = Shifted(entered, x, shape.stages)
  /\ valid' = [s \in DOMAIN valid |-> IF s = 1 THEN TRUE ELSE valid[s - 1]]
Gap(x) ==
  /\ Clock(x) /\ entered' = Shifted(entered, NoBeat, shape.stages)
  /\ valid' = [s \in DOMAIN valid |-> IF s = 1 THEN FALSE ELSE valid[s - 1]]
Reset(x) ==
  /\ Clock(x) /\ entered' = << >>
  /\ valid' = [s \in DOMAIN valid |-> FALSE]

CmultNext == \E x \in Operands : Beat(x) \/ Gap(x) \/ Reset(x)
CmultSpec == CmultInit /\ [][CmultNext]_cmultVars
-----------------------------------------------------------------------------
(***************************************************************************)
(* Whatever the variant and the depth, what is on the ports in a cycle     *)
(* with valid_out is the reference's product, exact and rounded, with its  *)
(* flags, of the operands of PIPE_STAGES cycles before, and valid_out is   *)
(* high exactly when there were any: no intermediate loses a bit.          *)
(***************************************************************************)
ProductIsReference ==
  LET n == shape.stages
      beat == Len(entered) = n /\ entered[n] # NoBeat
      out == Result
  IN  /\ valid[n] <=> beat
      /\ beat => LET x == entered[n]
                 IN  /\ out.p = [re |-> cmul_re_raw(x.a, x.b), im |-> cmul_im_raw(x.a, x.b)]
                     /\ out.y = cmul(x.a, x.b) /\ out.flags = cmul_flags(x.a, x.b)
==============================================================================
