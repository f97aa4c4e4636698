------------------------------ MODULE PktFabric ------------------------------
(***************************************************************************)
(* rtl/packet/pkt_fabric.sv: ingress adapters, stages of switches wired as *)
(* a butterfly, egress points, one clock.  Flits run forward through one   *)
(* register per hop; a credit runs back over one hop in the cycle in which *)
(* its flit leaves a buffer.                                               *)
(***************************************************************************)
EXTENDS PktEndpoints, PktSwitchStage, FiniteSets

CONSTANTS
  MaxLen,      \* PKT_MAX_FLITS
  Enables,     \* Enables[p]: what the consumer at p may take from in one cycle,
               \* a set of sets of channels
  Guaranteed,  \* the channels it takes from again and again
  KillSites    \* switch buffers whose credit return the fault hook may hold

ASSUME TrafficAssumption ==
  /\ MaxLen \in Nat /\ SeqMod \in Nat \ {0}
  /\ Traffic \subseteq [src : Port, dest : Port, vc : VC, len : 1 .. MaxLen]

Seqs == INSTANCE SequencesExt

vars == <<ingVars, swVars, egrVars>>

\* The flit on the input side of stage s, and of the egress.
sw_link(x) == IF x[1] = 0 THEN ing_out[x[2]] ELSE sw_out[x[1] - 1, x[2]][OutPipe + 1]
egr_link(p) == sw_out[Stages - 1, p][OutPipe + 1]

Edge(offer, en, kill) ==
  LET sends   == Sends
      credits == {b \in Buffer : in_credit_out(b, Pops(sends), kill)}
      drained == {x \in Port \X VC : x[2] \in out_grant(x[1], en[x[1]])}
      back    == {c \in Buffer : IF c[1] = Stages - 1 THEN <<c[2], c[3]>> \in drained
                                 ELSE <<c[1] + 1, c[2], c[3]>> \in credits}
  IN /\ IngressEdge(offer, [p \in Port |-> {v \in VC : <<0, p, v>> \in credits}])
     /\ SwitchEdge([x \in Output |-> sw_link(x)], sends, back, kill)
     /\ EgressEdge([p \in Port |-> egr_link(p)], en)

Init == IngressInit /\ SwitchInit /\ EgressInit

Presented == {f \in [Port -> UNION {Offers(p) : p \in Port} \cup {NoFlit}] :
                \A p \in Port : f[p] \in Offers(p) \cup {NoFlit}}

Taken == {f \in [Port -> SUBSET VC] : \A p \in Port : f[p] \in Enables[p]}

\* Where the hook makes a difference: a credit would return in this cycle.
Withheld == {b \in KillSites : in_credit_out(b, Pops(Sends), {})}

\* A reset, common to the fabric, is a return to Init: the registers it does not
\* clear are guarded by ones it does.
Next == \E offer \in Presented, en \in Taken, kill \in SUBSET Withheld :
          Edge(offer, en, kill)

Spec == Init /\ [][Next]_vars

-----------------------------------------------------------------------------
(* Properties.                                                             *)

TypeOK ==
  /\ ing_ptr \in [Port -> VC] /\ egr_ptr \in [Port -> VC] /\ sa_ptr \in [Output -> VC]
  /\ va_ptr \in [Buffer -> Local] /\ sw_route \in [Buffer -> Local]
  /\ sw_lock \in [Buffer -> 0 .. Free]
  /\ sw_credit \in [Buffer -> 0 .. VcDepth] /\ sw_held \in [Buffer -> 0 .. VcDepth]
  /\ \A p \in Port : ing_credit[p] \in [VC -> 0 .. VcDepth]

OnLink(words, v) ==
  Cardinality({i \in DOMAIN words : words[i] # NoFlit /\ words[i].vc = v})
Used(b) == Len(FifoWords(sw_fifo[b])) + sw_held[b]

\* Credits are conserved on every hop: held by the sender, riding with a flit on
\* the link, in the buffer behind it, or withheld - never minted, never lost
\* (pkt_switch_stage.sv section 3; no flit ever meets a full buffer).
CreditsConserved ==
  /\ TypeOK
  /\ \A p \in Port, v \in VC :
       ing_credit[p][v] + OnLink(<<ing_out[p]>>, v) + Used(<<0, p, v>>) = VcDepth
  /\ \A c \in Buffer :
       sw_credit[c] + OnLink(sw_out[c[1], c[2]], c[3])
         + (IF c[1] = Stages - 1 THEN Len(FifoWords(egr_fifo[c[2]][c[3]]))
            ELSE Used(<<c[1] + 1, c[2], c[3]>>)) = VcDepth

\* "Exactly one output can pop a given buffer, because a buffer's route is
\* unique and its output VC is locked to it" (pkt_switch_stage.sv).
OneTaker == \A b \in Buffer : Cardinality({c \in Sends : Source(c) = b}) <= 1

\* Packets arrive whole, contiguous on their channel and at their destination,
\* whatever shares their links (a_egr_length, a_egr_dest).
PacketsWhole == OneTaker /\ \A p \in Port : egr_err[p] = {}

\* The one path from port s to port d: where it enters stage k, and where it ends.
path(s, d, k) == LET r == Radix ^ (Stages - k) IN (d \div r) * r + (s % r)

OfLane(s, d, v, f) == f # NoFlit /\ f.src = s /\ f.dest = d /\ f.vc = v

\* Those of `words`, in their order (SelectSeq as a function, which can be reasoned about).
Between(s, d, v, words) ==
  LET kept[n \in 0 .. Len(words)] ==
        IF n = 0 THEN << >>
        ELSE IF OfLane(s, d, v, words[n]) THEN Append(kept[n - 1], words[n]) ELSE kept[n - 1]
  IN kept[Len(words)]

\* Hop k of the path: the buffer of stage k, or of the egress, and the link into it.
hop(s, d, v, k) ==
  LET p == path(s, d, k)
  IN FifoWords(IF k = Stages THEN egr_fifo[d][v] ELSE sw_fifo[k, p, v])
     \o (IF k = 0 THEN <<ing_out[s]>> ELSE Seqs!Reverse(sw_out[k - 1, p]))

\* `words` behind the first n of `hops`.
Joined(words, hops, n) ==
  LET upto[k \in 0 .. n] == IF k = 0 THEN words ELSE hops[k - 1] \o upto[k - 1]
  IN upto[n]

\* The flits from s to d on channel v that are inside the fabric, oldest first.
Transit(s, d, v) ==
  Between(s, d, v, Joined(FifoWords(ing_fifo[s][v]),
                          [k \in 0 .. Stages |-> hop(s, d, v, k)], Stages + 1))

FlitOf(s, d, v) ==
  {[src |-> s, dest |-> d, vc |-> v, len |-> t.len, seq |-> n, idx |-> i] :
     t \in {t \in Traffic : t.src = s /\ t.dest = d /\ t.vc = v},
     n \in 0 .. SeqMod - 1, i \in 1 .. MaxLen}

Lane(s, d, v) == INSTANCE FifoSpec WITH
  q <- Transit(s, d, v), Data <- FlitOf(s, d, v),
  Cap <- EndDepth + 1 + (Stages + 1) * VcDepth

AtExit(s, d, v) ==
  Transit(s, d, v) # << >> /\ egr_fifo[d][v].out = Head(Transit(s, d, v))

\* Order is kept within a (source, channel, destination) triple, nothing is
\* lost, duplicated or invented: each triple is a queue that a flit leaves only
\* from the output register of its egress (pkt_fabric.sv section 1).
IsFifoPerLane ==
  /\ \A t \in Traffic : Lane(t.src, t.dest, t.vc)!Init
  /\ [][\A t \in Traffic :
         \/ UNCHANGED Transit(t.src, t.dest, t.vc)
         \/ Lane(t.src, t.dest, t.vc)!Put
         \/ /\ AtExit(t.src, t.dest, t.vc)
            /\ Lane(t.src, t.dest, t.vc)!Get \/ Lane(t.src, t.dest, t.vc)!PutGet]_vars

-----------------------------------------------------------------------------
(* Liveness.  The clock runs; in infinitely many cycles every consumer     *)
(* takes from the channels in Guaranteed, no credit is held, and a source  *)
(* with a packet open goes on with it.                                     *)

Serve == \E offer \in Presented :
  /\ \A p \in Port : ing_open[p] # NoFlit => offer[p] # NoFlit
  /\ Edge(offer, [p \in Port |-> Guaranteed], {})

FairSpec == Spec /\ WF_vars(Serve)

Clear(v) ==
  /\ \A p \in Port : ing_fifo[p][v] = EmptyFifo /\ egr_fifo[p][v] = EmptyFifo
  /\ \A p \in Port : OnLink(<<ing_out[p]>>, v) = 0
  /\ \A c \in Buffer : c[3] = v => sw_fifo[c] = EmptyFifo /\ OnLink(sw_out[c[1], c[2]], v) = 0

\* Virtual channels isolate: what has entered on a channel that is consumed
\* leaves, even when another channel is blocked for ever (pkt_fabric.sv section
\* 2), no input starves and no withheld credit stays away.  Sources send a
\* bounded number of packets, so a channel nobody starves on clears.
Drains == \A v \in Guaranteed : ~Clear(v) ~> Clear(v)

\* "A head is overtaken at most (RADIX*N_VC - 1) packets' worth of flits",
\* whatever the backpressure: "bounded by the arbitration policy alone"
\* (test_packet.cpp, DECISIONS.md on the fairness metric).
OvertakesBounded == \A b \in Buffer : sw_wait[b] <= 2 * Radix * N_VC * MaxLen
=============================================================================
