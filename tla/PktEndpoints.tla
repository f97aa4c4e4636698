----------------------------- MODULE PktEndpoints -----------------------------
(***************************************************************************)
(* The two ends of the fabric, one of each per port.                       *)
(*                                                                         *)
(* rtl/packet/pkt_ingress.sv frames a source's messages into flits,        *)
(* buffers them per virtual channel and shares the link into the fabric    *)
(* flit by flit.  Sources are well behaved: they declare the length they   *)
(* send and keep the channel of an open packet.  Parity and its fault      *)
(* hook, packet types and the error tallies are left out.                  *)
(***************************************************************************)
EXTENDS PacketNet

CONSTANTS
  SeqMod,       \* 2 ^ PKT_SEQ_W
  Traffic,      \* the packets that are sent: records [src, dest, vc, len]
  MaxPackets    \* bound: MaxPackets[p] packets are sent by source p

VARIABLES
  ing_open,     \* state_q, cur_vc_q, cur_len_q, flit_cnt_q: the last flit framed
                \* of an open packet, or NoFlit in S_HDR
  ing_seq,      \* seq_q
  ing_sent,     \* packets framed (bounds the run, no register of the code)
  ing_fifo, ing_credit,
  ing_ptr,      \* the pointer of u_link_arb
  ing_out       \* out_valid_q, out_flit_q

ingVars == <<ing_open, ing_seq, ing_sent, ing_fifo, ing_credit, ing_ptr, ing_out>>

\* The flits source p may present: a header, or the next flit of its packet.
Offers(p) ==
  IF ing_open[p] # NoFlit
  THEN {[ing_open[p] EXCEPT !.idx = @ + 1]}
  ELSE {[src |-> p, dest |-> t.dest, vc |-> t.vc, len |-> t.len,
         seq |-> ing_seq[p][t.vc], idx |-> 1] :
          t \in {t \in Traffic : t.src = p /\ ing_sent[p] < MaxPackets[p]}}

s_ready(p, flit) == fifo_s_ready(ing_fifo[p][flit.vc], EndDepth)

Framed(p, flit) == IF flit # NoFlit /\ s_ready(p, flit) THEN flit ELSE NoFlit

send_req(p) == {v \in VC : ing_fifo[p][v].out # NoFlit /\ ing_credit[p][v] > 0}
send_grant(p) == Grant(send_req(p), ing_ptr[p], N_VC)

\* One edge of every port: `offer[p]` is presented, `back[p]` are the channels
\* whose credit comes back.
IngressEdge(offer, back) ==
  LET new == [p \in Port |-> IF offer[p] = NoFlit THEN NoFlit ELSE Framed(p, offer[p])]
      go  == [p \in Port |-> send_grant(p)]
  IN /\ ing_open' = [p \in Port |-> IF new[p] = NoFlit THEN ing_open[p]
                                    ELSE IF eof(new[p]) THEN NoFlit ELSE new[p]]
     /\ ing_seq' = [p \in Port |-> [v \in VC |->
          IF new[p] # NoFlit /\ sof(new[p]) /\ new[p].vc = v
          THEN (ing_seq[p][v] + 1) % SeqMod ELSE ing_seq[p][v]]]
     /\ ing_sent' = [p \in Port |->
          IF new[p] # NoFlit /\ sof(new[p]) THEN ing_sent[p] + 1 ELSE ing_sent[p]]
     /\ ing_fifo' = [p \in Port |-> [v \in VC |->
          FifoEdge(ing_fifo[p][v],
                   IF new[p] # NoFlit /\ new[p].vc = v THEN new[p] ELSE NoFlit,
                   v \in go[p], EndDepth)]]
     /\ ing_credit' = [p \in Port |-> [v \in VC |->
          CreditEdge(ing_credit[p][v], v \in go[p], v \in back[p])]]
     /\ ing_ptr' = [p \in Port |-> PtrNext(send_req(p), ing_ptr[p], N_VC)]
     /\ ing_out' = [p \in Port |->
          IF go[p] = {} THEN NoFlit
          ELSE ing_fifo[p][CHOOSE v \in go[p] : TRUE].out]

IngressInit ==
  /\ ing_open = [p \in Port |-> NoFlit]
  /\ ing_seq = [p \in Port |-> [v \in VC |-> 0]]
  /\ ing_sent = [p \in Port |-> 0]
  /\ ing_fifo = [p \in Port |-> [v \in VC |-> EmptyFifo]]
  /\ ing_credit = [p \in Port |-> [v \in VC |-> VcDepth]]
  /\ ing_ptr = [p \in Port |-> 0]
  /\ ing_out = [p \in Port |-> NoFlit]

-----------------------------------------------------------------------------
(* rtl/packet/pkt_egress.sv checks on arrival that packets are whole,      *)
(* buffers them per virtual channel and presents one flit stream.  The     *)
(* parity, type and channel-tag checks are left out: a flit of the model   *)
(* cannot be corrupted.                                                    *)

VARIABLES
  egr_open, egr_rem,   \* open_q, rem_q
  egr_err,             \* err_sticky: the kinds of fault seen
  egr_fifo,
  egr_ptr              \* the pointer of u_out_arb

egrVars == <<egr_open, egr_rem, egr_err, egr_fifo, egr_ptr>>

e_length(p, flit) ==
  LET open == egr_open[p][flit.vc]
      rem  == egr_rem[p][flit.vc]
  IN \/ sof(flit) /\ (open \/ eof(flit) # (flit.len = 1))
     \/ ~sof(flit) /\ ~open
     \/ ~sof(flit) /\ open /\ eof(flit) /\ rem # 1
     \/ ~sof(flit) /\ open /\ ~eof(flit) /\ rem <= 1

e_dest(p, flit) == sof(flit) /\ flit.dest # p

\* `en` is the set of channels the consumer takes a flit of in this cycle:
\* m_vc_en where m_ready is high, nothing where it is low.
out_req(p, en)   == {v \in en : egr_fifo[p][v].out # NoFlit}
out_grant(p, en) == Grant(out_req(p, en), egr_ptr[p], N_VC)

\* One edge of every port: `link[p]` arrives, `en[p]` as above.
EgressEdge(link, en) ==
  LET hit(p, v) == link[p] # NoFlit /\ link[p].vc = v
  IN /\ egr_open' = [p \in Port |-> [v \in VC |->
          IF ~hit(p, v) THEN egr_open[p][v]
          ELSE IF sof(link[p]) THEN link[p].len > 1
          ELSE egr_open[p][v] /\ ~eof(link[p])]]
     /\ egr_rem' = [p \in Port |-> [v \in VC |->
          IF ~hit(p, v) THEN egr_rem[p][v]
          ELSE IF sof(link[p]) THEN link[p].len - 1
          ELSE IF egr_rem[p][v] > 0 THEN egr_rem[p][v] - 1 ELSE 0]]
     /\ egr_err' = [p \in Port |-> egr_err[p] \cup
          {e \in {"length", "dest"} : link[p] # NoFlit /\
             (IF e = "length" THEN e_length(p, link[p]) ELSE e_dest(p, link[p]))}]
     /\ egr_fifo' = [p \in Port |-> [v \in VC |->
          FifoEdge(egr_fifo[p][v], IF hit(p, v) THEN link[p] ELSE NoFlit,
                   v \in out_grant(p, en[p]), EndDepth)]]
     /\ egr_ptr' = [p \in Port |-> PtrNext(out_req(p, en[p]), egr_ptr[p], N_VC)]

EgressInit ==
  /\ egr_open = [p \in Port |-> [v \in VC |-> FALSE]]
  /\ egr_rem = [p \in Port |-> [v \in VC |-> 0]]
  /\ egr_err = [p \in Port |-> {}]
  /\ egr_fifo = [p \in Port |-> [v \in VC |-> EmptyFifo]]
  /\ egr_ptr = [p \in Port |-> 0]
==============================================================================
