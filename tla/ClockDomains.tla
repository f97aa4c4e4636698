---------------------------- MODULE ClockDomains ----------------------------
(***************************************************************************)
(* What every crossing under rtl/cdc shares: the flip-flop synchronizer    *)
(* chain of rtl/cdc/cdc_sync2.sv and the life of a per-domain reset        *)
(* (sim/verilator/harness: all resets are asserted together, each is       *)
(* released on an edge of its own clock).                                  *)
(***************************************************************************)
EXTENDS Naturals

CONSTANTS
  SyncStages,   \* parameter SYNC_STAGES
  LongReset     \* a reset lasts until the other clock has seen it

ASSUME StagesAssumption == SyncStages \in Nat /\ SyncStages >= 2
ASSUME ResetAssumption  == LongReset \in BOOLEAN

Stage == 1 .. SyncStages

\* One edge of a cdc_sync2 chain whose input is d.
Shift(chain, d) == [i \in Stage |-> IF i = 1 THEN d ELSE chain[i - 1]]

\* What its reset leaves in the chain.
Filled(d) == [i \in Stage |-> d]

(* A domain's reset.  "stale": asserted, the domain has had no edge yet    *)
(* and its registers are what they were; "clear": it has had one; "seen":  *)
(* the other clock has had an edge since then; "run": released.            *)
Phases == {"stale", "clear", "seen", "run"}

\* The phase of a domain after an edge of its own clock (own) and of the
\* other clock (other).
NextPhase(phase, own, other) ==
  CASE phase = "stale" /\ own   -> "clear"
    [] phase = "clear" /\ other -> "seen"
    [] OTHER                    -> phase

MayRelease(phase) == phase = "seen" \/ (~LongReset /\ phase = "clear")
=============================================================================
