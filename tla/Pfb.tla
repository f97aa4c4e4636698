--------------------------------- MODULE Pfb ---------------------------------
(***************************************************************************)
(* model/python/pfb_model.py with scripts/generate_coefficients.py: the    *)
(* reference of the polyphase bank, from a prototype to the coefficient    *)
(* file, and from there to the beats of a golden file or of any stream.    *)
(***************************************************************************)
EXTENDS FixedPoint, FiniteSets, FiniteSetsExt

CONSTANTS Geometries,     \* <<phases, taps>>
          FreeGeometries, \* those driven with a free stream
          Prototypes,     \* the prototypes of a geometry, as functions on 0 .. phases * taps - 1
                          \* of complex numbers in units of 2^-(FRAC_W + SCALE_BITS)
          SCALE_BITS,     \* 20 in the code
          Samples,        \* the samples of the free stream
          MaxBeats,       \* bound on the free stream
          GOLDEN_BEATS    \* 96 in the code

VARIABLES
  pfb,     \* geometry, bank and one history per lane; what it is driven with
  inputs,  \* ghost: the beats since the history was zero, newest first
  row   \* the last beat out: value, flags and accumulator of every lane

pfbVars == <<pfb, inputs, row>>

Quiet == [re |-> 0, im |-> 0]
Phases(g) == 0 .. g[1] - 1
Taps(g)   == 0 .. g[2] - 1

(***************************************************************************)
(* The bank: branch p of the prototype, quantised, phase-major.            *)
(***************************************************************************)
contiguous(proto, g) == [p \in Phases(g) |-> [k \in Taps(g) |-> proto[p * g[2] + k]]]
decompose(proto, g)  == [p \in Phases(g) |-> [k \in Taps(g) |-> proto[k * g[1] + p]]]
quantise_q15(v)      == round_sat(v, SCALE_BITS, SAMPLE_W)
quantise_complex(z)  == [re |-> quantise_q15(z.re), im |-> quantise_q15(z.im)]
set_designed(proto, g) ==
  [i \in 0 .. g[1] * g[2] - 1 |-> quantise_complex(decompose(proto, g)[i \div g[2]][i % g[2]])]
set_ident(g) ==
  [i \in 0 .. g[1] * g[2] - 1 |-> IF i % g[2] = 0 THEN [re |-> Q15_MAX, im |-> 0] ELSE Quiet]
set_max(g) ==
  [i \in 0 .. g[1] * g[2] - 1 |-> IF i % 2 = 0 THEN [re |-> Q15_MAX, im |-> Q15_MIN]
                                                ELSE [re |-> Q15_MIN, im |-> Q15_MAX]]
LaneCoeff(bank, g, p) == [k \in Taps(g) |-> bank[p * g[2] + k]]

(***************************************************************************)
(* One lane: tap 0 is the sample being consumed, and the history moves on  *)
(* after the evaluation.                                                   *)
(***************************************************************************)
ZeroHistory(g) == [k \in 1 .. g[2] - 1 |-> Quiet]
acc(g, coeff, samples) ==
  [re |-> MapThenSumSet(LAMBDA k : cmul_re_raw(samples[k + 1], coeff[k]), Taps(g)),
   im |-> MapThenSumSet(LAMBDA k : cmul_im_raw(samples[k + 1], coeff[k]), Taps(g))]
Quantised(a) ==
  [y |-> [re |-> Rounded(a.re), im |-> Rounded(a.im)], acc |-> a,
   f |-> [re |-> round_sat_flags(a.re, PROD_SHIFT, SAMPLE_W),
          im |-> round_sat_flags(a.im, PROD_SHIFT, SAMPLE_W)]]
Advanced(g, history, x) == SubSeq(<<x>> \o history, 1, g[2] - 1)

acc_width(taps) == acc_w(PROD_W, 2 * taps)

(***************************************************************************)
(* The golden stimulus: the segments of a file, in order, cut at its end.  *)
(***************************************************************************)
SegmentLength(taps) == IF taps + 2 > 8 THEN taps + 2 ELSE 8
Segments(taps) ==
  LET seg == SegmentLength(taps)
  IN <<<<"zeros", seg>>, <<"impulse", 1>>, <<"zeros", seg>>, <<"constant", seg>>,
       <<"sinusoid", 2 * seg>>, <<"max", seg \div 2>>, <<"min", seg \div 2>>, <<"random", GOLDEN_BEATS>>>>
EndOf(taps, i) == MapThenSumSet(LAMBDA j : Segments(taps)[j][2], 1 .. i)
SegmentOf(taps, m) ==
  Segments(taps)[CHOOSE i \in 1 .. 8 : m < EndOf(taps, i) /\ (i > 1 => m >= EndOf(taps, i - 1))][1]
\* One sample per lane: the tone is one cycle every four beats, a draw is any sample.
golden_stimulus(g, m) ==
  LET segment == SegmentOf(g[2], m)
      Three == (3 * Q15_MAX) \div 4
      Tone == <<[re |-> Three, im |-> 0], [re |-> 0, im |-> Three],
                [re |-> -Three, im |-> 0], [re |-> 0, im |-> -Three]>>
      Drawn(p) == [re |-> (7 * m + 5 * p) % Q15_MAX, im |-> -((3 * m * m + p) % Q15_MAX)]
  IN [p \in Phases(g) |->
        CASE segment = "zeros"    -> Quiet
          [] segment = "impulse"  -> [re |-> Q15_MAX, im |-> Q15_MIN]
          [] segment = "constant" -> [re |-> Q15_MAX \div 3, im |-> -(Q15_MAX \div 4)]
          [] segment = "sinusoid" -> Tone[(m % 4) + 1]
          [] segment = "max"      -> [re |-> Q15_MAX, im |-> Q15_MAX]
          [] segment = "min"      -> [re |-> Q15_MIN, im |-> Q15_MIN]
          [] segment = "random"   -> Drawn(p)]

-----------------------------------------------------------------------------
None == <<>>
\* A model starts on a bank, for a free stream or for a golden file of some set.
Bank(set, proto, g) ==
  CASE set = "designed" -> set_designed(proto, g)
    [] set = "ident"    -> set_ident(g)
    [] set = "max"      -> set_max(g)
PfbInit ==
  \E g \in Geometries, set \in {"designed", "ident", "max"}, drive \in {"free", "golden"} :
    \E proto \in Prototypes[g] :
      /\ drive = "free" => g \in FreeGeometries
      /\ pfb = [g |-> g, set |-> set, proto |-> proto, drive |-> drive, bank |-> Bank(set, proto, g),
                history |-> [p \in Phases(g) |-> ZeroHistory(g)], rows |-> 0, seen |-> {}]
      /\ inputs = << >> /\ row = None

Step(beat) ==
  LET g == pfb.g
      Lane(p) == Quantised(acc(g, LaneCoeff(pfb.bank, g, p), <<beat[p]>> \o pfb.history[p]))
  IN /\ row' = [p \in Phases(g) |-> Lane(p)]
     /\ inputs' = SubSeq(<<beat>> \o inputs, 1, IF Len(inputs) < g[2] THEN Len(inputs) + 1 ELSE g[2])
     /\ pfb' = [pfb EXCEPT !.history = [p \in Phases(g) |-> Advanced(g, @[p], beat[p])],
                           !.rows = @ + 1,
                           !.seen = IF pfb.drive = "golden" THEN @ \cup {SegmentOf(g[2], pfb.rows)} ELSE @]

FreeBeat ==
  /\ pfb.drive = "free" /\ pfb.rows < MaxBeats
  /\ \E beat \in [Phases(pfb.g) -> Samples] : Step(beat)

ResetModel ==
  /\ pfb.drive = "free" /\ pfb.rows < MaxBeats
  /\ pfb' = [pfb EXCEPT !.history = [p \in Phases(pfb.g) |-> ZeroHistory(pfb.g)]]
  /\ inputs' = << >> /\ row' = None

GoldenRow ==
  /\ pfb.drive = "golden" /\ pfb.rows < GOLDEN_BEATS
  /\ Step(golden_stimulus(pfb.g, pfb.rows))

PfbNext == FreeBeat \/ ResetModel \/ GoldenRow

-----------------------------------------------------------------------------
(***************************************************************************)
(* Lane p answers with the convolution of its own samples, zero before the *)
(* first, with taps p, p + phases, ... of the prototype, each quantised    *)
(* once, accumulated exactly within acc_width, and rounded and flagged     *)
(* once, on every stream and across resets: no lane reads another's        *)
(* samples, coefficients or history (LaneModel, PfbModel, decompose).      *)
(***************************************************************************)
Wanted(p, k) ==
  CASE pfb.set = "designed" -> quantise_complex(pfb.proto[k * pfb.g[1] + p])
    [] pfb.set = "ident"    -> IF k = 0 THEN [re |-> Q15_MAX, im |-> 0] ELSE Quiet
    [] pfb.set = "max"      -> IF (p * pfb.g[2] + k) % 2 = 0 THEN [re |-> Q15_MAX, im |-> Q15_MIN]
                               ELSE [re |-> Q15_MIN, im |-> Q15_MAX]
LaneIsFilter ==
  row # None => \A p \in Phases(pfb.g) :
    LET Past == {k \in Taps(pfb.g) : k < Len(inputs)}
        a == [re |-> MapThenSumSet(LAMBDA k : cmul_re_raw(inputs[k + 1][p], Wanted(p, k)), Past),
              im |-> MapThenSumSet(LAMBDA k : cmul_im_raw(inputs[k + 1][p], Wanted(p, k)), Past)]
        w == acc_width(pfb.g[2])
    IN row[p] = Quantised(a) /\ {a.re, a.im} \subseteq min_of(w) .. max_of(w)

(***************************************************************************)
(* "GOLDEN_BEATS ... every stimulus segment below gets a run of its own"   *)
(* (generate_coefficients.py:109-113): a finished file has every segment.  *)
(***************************************************************************)
EverySegmentIsThere ==
  pfb.drive = "golden" /\ pfb.rows = GOLDEN_BEATS =>
    pfb.seen = {Segments(pfb.g[2])[i][1] : i \in 1 .. 8}
==============================================================================
