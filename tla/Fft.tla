--------------------------------- MODULE Fft ---------------------------------
(***************************************************************************)
(* model/python/gen_fft_vectors.py, transform(): SPC lanes of radix-2^2    *)
(* decimation in frequency, joined by one radix-2 merge.  The arithmetic   *)
(* is a parameter: an operation returns a value y and the set f of flags   *)
(* it raised, so one algorithm is read over fixed point, where it rounds   *)
(* and saturates, and over an exact ring, where it must be a DFT.          *)
(***************************************************************************)
EXTENDS Integers, Sequences, Functions, FiniteSetsExt

CONSTANTS LOG2N,            \* frames of 2^LOG2N samples
          Frames,           \* the frames offered: functions on 0 .. 2^LOG2N - 1
          Spcs,             \* samples per beat: 1 or 2
          Add(_, _, _), Subtract(_, _, _),   \* of two samples, at a shift
          MinusJ(_),        \* multiply by -j
          Times(_, _, _)    \* Times(x, l, e): x * W_(2^l)^e

VARIABLE fft

N == 2 ^ LOG2N
Index(n) == 0 .. n - 1
log2_exact(v) == CHOOSE k \in 0 .. LOG2N : 2 ^ k = v
Bit(v, i) == (v \div 2 ^ i) % 2
bitrev(v, w) == FoldSet(LAMBDA i, r : r + Bit(v, i) * 2 ^ (w - 1 - i), 0, Index(w))

bf_is_bf2ii(s)         == s % 2 = 1
stage_has_twiddle(n, s) == bf_is_bf2ii(s) /\ s + 1 < n
group_l2l(n, s)        == n - s + 1
r22_swapped(l, p) ==
  LET q == p % 2 ^ l IN (q % 2 ^ (l - 2)) * (2 * Bit(q, l - 1) + Bit(q, l - 2))
r22_tw_exp(l, p) ==
  LET q == p % 2 ^ l IN (q % 2 ^ (l - 2)) * (Bit(q, l - 1) + 2 * Bit(q, l - 2))
shift_of(sched, g) == IF g \in sched THEN 1 ELSE 0   \* the schedule, as its set bits

Values(r) == [i \in DOMAIN r |-> r[i].y]
Raised(r) == UNION {r[i].f : i \in DOMAIN r}

(***************************************************************************)
(* One BF2I or BF2II sub-stage over blocks of 2^(n-s): a butterfly of each *)
(* block's halves, BF2II turning the second half of odd blocks by -j.      *)
(***************************************************************************)
Arriving(v, n, s, i) ==
  IF bf_is_bf2ii(s) /\ Bit(i, n - s) = 1 THEN MinusJ(v[i]) ELSE [y |-> v[i], f |-> {}]
butterfly_stage(v, n, s, sched) ==
  LET half  == 2 ^ (n - s) \div 2
      sh    == shift_of(sched, s)
  IN [i \in DOMAIN v |->
        IF Bit(i, n - s - 1) = 0
        THEN Add(v[i], Arriving(v, n, s, i + half).y, sh)
        ELSE Subtract(v[i - half], Arriving(v, n, s, i).y, sh)]
turn_flags(v, n, s) ==
  UNION {Arriving(v, n, s, i).f : i \in {k \in DOMAIN v : Bit(k, n - s - 1) = 1}}
twiddle_stage(v, n, s) ==
  LET l == group_l2l(n, s) IN [i \in DOMAIN v |-> Times(v[i], l, r22_tw_exp(l, i))]

\* The merge, beats 2j and 2j + 1 from entry j of each lane.
Turned(o, n) == [j \in DOMAIN o |-> Times(o[j], n + 1, bitrev(j, n))]
merge(e, t, n, sched) ==
  LET sh == shift_of(sched, n)
  IN [b \in Index(2 * 2 ^ n) |->
        IF b % 2 = 0 THEN Add(e[b \div 2], t[b \div 2], sh)
                     ELSE Subtract(e[b \div 2], t[b \div 2], sh)]

\* Where the beats are in the spectrum, and in what order they leave.
bins_of(beats, spc, n) ==
  LET m == 2 ^ n
      Slot(k) == bitrev(k % m, n) * spc + (k \div m)
  IN [k \in Index(N) |-> beats[Slot(k)]]
as_computed(beats, spc, n) == beats
natural_order(beats, spc, n) ==
  [i \in Index(N) |-> beats[bitrev(i \div spc, n) * spc + (i % spc)]]

(***************************************************************************)
(* The loop of transform(), lane by lane.  `flags[g]` is what the additions *)
(* of sub-stage g raised and `turns[g]` what its multiplications did, one   *)
(* word of the code.                                                       *)
(***************************************************************************)
Flagless == [g \in Index(LOG2N) |-> {}]
FftInit ==
  \E x \in Frames, spc \in Spcs, sched \in SUBSET Index(LOG2N), reorder \in BOOLEAN :
    fft = [at |-> "butterfly", x |-> x, spc |-> spc, sched |-> sched, reorder |-> reorder,
           lanes |-> [p \in Index(spc) |-> [t \in Index(N \div spc) |-> x[t * spc + p]]],
           lane |-> 0, s |-> 0, flags |-> Flagless, turns |-> Flagless,
           beats |-> <<>>, bins |-> <<>>, out |-> <<>>]

n_lane == log2_exact(N \div fft.spc)
AfterStage(f) ==
  IF f.s + 1 < n_lane THEN [f EXCEPT !.s = @ + 1, !.at = "butterfly"]
  ELSE IF f.lane + 1 < f.spc THEN [f EXCEPT !.lane = @ + 1, !.s = 0, !.at = "butterfly"]
  ELSE [f EXCEPT !.at = IF f.spc = 1 THEN "place" ELSE "turn",
                 !.beats = IF f.spc = 1 THEN f.lanes[0] ELSE <<>>]

ButterflyStage ==
  /\ fft.at = "butterfly"
  /\ LET v == fft.lanes[fft.lane]
         r == butterfly_stage(v, n_lane, fft.s, fft.sched)
         f == [fft EXCEPT !.lanes[fft.lane] = Values(r),
                          !.flags[fft.s] = @ \cup Raised(r),
                          !.turns[fft.s] = @ \cup turn_flags(v, n_lane, fft.s)]
     IN fft' = IF stage_has_twiddle(n_lane, fft.s) THEN [f EXCEPT !.at = "twiddle"]
               ELSE AfterStage(f)

TwiddleStage ==
  /\ fft.at = "twiddle"
  /\ LET r == twiddle_stage(fft.lanes[fft.lane], n_lane, fft.s)
     IN fft' = AfterStage([fft EXCEPT !.lanes[fft.lane] = Values(r),
                                      !.turns[fft.s] = @ \cup Raised(r)])

MergeTurn ==
  /\ fft.at = "turn"
  /\ LET r == Turned(fft.lanes[1], n_lane)
     IN fft' = [fft EXCEPT !.at = "merge", !.lanes[1] = Values(r),
                           !.turns[n_lane] = @ \cup Raised(r)]

Merge ==
  /\ fft.at = "merge"
  /\ LET r == merge(fft.lanes[0], fft.lanes[1], n_lane, fft.sched)
     IN fft' = [fft EXCEPT !.at = "place", !.beats = Values(r),
                           !.flags[n_lane] = @ \cup Raised(r)]

Place ==
  /\ fft.at = "place"
  /\ fft' = [fft EXCEPT !.at = "done", !.bins = bins_of(fft.beats, fft.spc, n_lane),
               !.out = IF fft.reorder THEN natural_order(fft.beats, fft.spc, n_lane)
                       ELSE as_computed(fft.beats, fft.spc, n_lane)]

Again == fft.at = "done" /\ UNCHANGED fft   \* the record is kept

FftNext == ButterflyStage \/ TwiddleStage \/ MergeTurn \/ Merge \/ Place \/ Again

FftTypeOK ==
  /\ fft.at \in {"butterfly", "twiddle", "turn", "merge", "place", "done"}
  /\ fft.spc \in Spcs /\ fft.lane \in Index(fft.spc) /\ fft.s \in Index(LOG2N)
  /\ \A g \in Index(LOG2N) : fft.flags[g] \cup fft.turns[g] \subseteq {"pos", "neg"}
==============================================================================
