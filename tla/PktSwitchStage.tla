--------------------------- MODULE PktSwitchStage ---------------------------
(***************************************************************************)
(* rtl/packet/pkt_switch_stage.sv, every switch of every stage: buffers    *)
(* per input and virtual channel, a lock per output and virtual channel    *)
(* for the length of a packet, credits towards the next hop.  Switches are *)
(* addressed by stage and global port, the numbering pkt_fabric.sv wires   *)
(* them in; a port's place inside its switch is one digit of its number.   *)
(***************************************************************************)
EXTENDS PacketNet

CONSTANTS
  OutPipe,    \* OUT_PIPE
  WaitMax     \* where the overtake counters saturate (16'hFFFF)

ASSUME SwitchAssumption == OutPipe \in {0, 1} /\ WaitMax \in Nat

VARIABLES
  sw_fifo,     \* u_fifo
  sw_held,     \* held_q: credits withheld by the fault hook
  sw_route,    \* route_q
  sw_lock,     \* vc_lock_q and vc_owner_q: the owner of an output channel, or Free
  va_ptr, sa_ptr,   \* the pointers of u_va and u_sa
  sw_credit,   \* credit_q
  sw_out,      \* out_valid_q and out_flit_q, the link end last
  sw_wait      \* wait_q

swVars == <<sw_fifo, sw_held, sw_route, sw_lock, va_ptr, sa_ptr, sw_credit,
            sw_out, sw_wait>>

Free   == Radix              \* no input of a switch has this number
Buffer == Stage \X Port \X VC     \* on the input side and on the output side
Output == Stage \X Port

Local_of(s, p)    == digit(p, bfly_digit(s))
Global_of(s, p, i) == bfly_port(p, bfly_digit(s), i)
head(b) == sw_fifo[b].out

\* Wrong on purpose: the held route is used for the header as well.
route_stale(b) == sw_route[b]

\* A head that opens a packet reads its destination, the rest follow it.
route_eff(b) ==
  IF sof(head(b)) THEN digit(head(b).dest, bfly_digit(b[1])) ELSE sw_route[b]

\* Wrong on purpose: an output channel is offered while it is locked.
va_req_unlocked(s, o, v) ==
  {i \in Local : LET b == <<s, Global_of(s, o, i), v>>
                 IN head(b) # NoFlit /\ sof(head(b)) /\ route_eff(b) = Local_of(s, o)}

\* Level 1: the inputs whose packet wants the unlocked output channel.
va_req(s, o, v) ==
  {i \in Local : LET b == <<s, Global_of(s, o, i), v>>
                 IN /\ sw_lock[s, o, v] = Free
                    /\ head(b) # NoFlit /\ sof(head(b))
                    /\ route_eff(b) = Local_of(s, o)}
va_grant(s, o, v) == Grant(va_req(s, o, v), va_ptr[s, o, v], Radix)

OwnerBuffer(s, o, v) == <<s, Global_of(s, o, sw_lock[s, o, v]), v>>

\* Level 2, from registers: the locked channels with a flit and a credit.
sa_req(s, o) ==
  {v \in VC : /\ sw_lock[s, o, v] # Free
              /\ head(OwnerBuffer(s, o, v)) # NoFlit
              /\ sw_credit[s, o, v] > 0}
sa_grant(s, o) == Grant(sa_req(s, o), sa_ptr[s, o], N_VC)

\* The output channels that send in this cycle, and the buffers they pop.
Sends == {c \in Buffer : c[3] \in sa_grant(c[1], c[2])}
Source(c)    == OwnerBuffer(c[1], c[2], c[3])
Pops(sends)  == {Source(c) : c \in sends}

\* Wrong on purpose: a withheld credit is dropped.
release_never(b, pops, kill) == FALSE

\* A withheld credit goes back in a cycle in which the buffer returns none.
release_now(b, pops, kill) == b \notin kill /\ b \notin pops /\ sw_held[b] > 0
in_credit_out(b, pops, kill) == (b \in pops /\ b \notin kill) \/ release_now(b, pops, kill)

overtaken(b, pops, sends) ==
  /\ head(b) # NoFlit /\ b \notin pops
  /\ LET o == Global_of(b[1], b[2], route_eff(b))
     IN \E v \in VC : <<b[1], o, v>> \in sends

lock_d(s, o, v, sends) ==
  IF <<s, o, v>> \in sends /\ eof(head(OwnerBuffer(s, o, v))) THEN Free
  ELSE IF va_grant(s, o, v) # {} THEN CHOOSE i \in va_grant(s, o, v) : TRUE
  ELSE sw_lock[s, o, v]

\* One edge of every switch: `link[s, p]` arrives at stage s, `back` are the
\* output channels whose credit comes back, `kill` is fi_credit_kill.
SwitchEdge(link, sends, back, kill) ==
  LET pops    == Pops(sends)
      sent(x) == {c \in sends : c[1] = x[1] /\ c[2] = x[2]}
  IN /\ sw_fifo' = [b \in Buffer |->
          LET flit == link[b[1], b[2]]
          IN FifoEdge(sw_fifo[b], IF flit # NoFlit /\ flit.vc = b[3] THEN flit ELSE NoFlit,
                      b \in pops, VcDepth)]
     /\ sw_held' = [b \in Buffer |->
          IF b \in pops \cap kill THEN sw_held[b] + 1
          ELSE IF release_now(b, pops, kill) THEN sw_held[b] - 1 ELSE sw_held[b]]
     /\ sw_route' = [b \in Buffer |->
          IF b \in pops /\ sof(head(b)) THEN route_eff(b) ELSE sw_route[b]]
     /\ sw_lock' = [c \in Buffer |-> lock_d(c[1], c[2], c[3], sends)]
     /\ va_ptr' = [c \in Buffer |->
          PtrNext(va_req(c[1], c[2], c[3]), va_ptr[c], Radix)]
     /\ sa_ptr' = [x \in Output |-> PtrNext(sa_req(x[1], x[2]), sa_ptr[x], N_VC)]
     /\ sw_credit' = [c \in Buffer |-> CreditEdge(sw_credit[c], c \in sends, c \in back)]
     /\ sw_out' = [x \in Output |->
          <<IF sent(x) = {} THEN NoFlit ELSE head(Source(CHOOSE c \in sent(x) : TRUE))>>
          \o SubSeq(sw_out[x], 1, OutPipe)]
     /\ sw_wait' = [b \in Buffer |->
          IF b \in pops THEN 0
          ELSE IF overtaken(b, pops, sends) /\ sw_wait[b] < WaitMax THEN sw_wait[b] + 1
          ELSE sw_wait[b]]

SwitchInit ==
  /\ sw_fifo = [b \in Buffer |-> EmptyFifo]
  /\ sw_held = [b \in Buffer |-> 0]
  /\ sw_route = [b \in Buffer |-> 0]
  /\ sw_lock = [c \in Buffer |-> Free]
  /\ va_ptr = [c \in Buffer |-> 0]
  /\ sa_ptr = [x \in Output |-> 0]
  /\ sw_credit = [c \in Buffer |-> VcDepth]
  /\ sw_out = [x \in Output |-> [i \in 1 .. OutPipe + 1 |-> NoFlit]]
  /\ sw_wait = [b \in Buffer |-> 0]
=============================================================================
