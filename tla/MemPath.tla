------------------------------ MODULE MemPath ------------------------------
(***************************************************************************)
(* rtl/memory/mem_arbiter.sv, by which NPorts producers share one request  *)
(* port, with the producers and the responder of                           *)
(* rtl/memory/behavioral_mem_model.sv, one clock.  A producer holds a      *)
(* request until it is acknowledged and may present the next one at once.  *)
(* A request is [port, id]: who presents it and a number that wraps; what  *)
(* it reads or writes and the status of the answer are left out.  Issued,  *)
(* it also carries the tag that leads the answer back.                     *)
(***************************************************************************)
EXTENDS Naturals, FiniteSets, Sequences

CONSTANTS NPorts,        \* parameter N_PORTS
          MaxTag,        \* N_PORTS * MAX_INFLIGHT_PER_PORT
          Idle,          \* no request, no response
          MaxInflight,   \* MAX_INFLIGHT of the memory
          Latency,       \* cfg_latency
          IdMod,         \* requests of a port told apart
          Modes          \* settings of enable and fault mode the runs visit

ASSUME MemAssumption ==
  /\ NPorts \in Nat \ {0} /\ MaxTag \in Nat \ {0} /\ MaxInflight \in Nat \ {0}
  /\ Latency \in Nat \ {0} /\ IdMod \in Nat \ {0, 1}
  /\ Modes \subseteq {"normal", "disabled", "drop_req", "drop_rsp"} /\ "normal" \in Modes

VARIABLES rr_ptr,                  \* rr_ptr_q
          tag_valid, tag_owner,    \* the set of tags in use, and their ports
          next_tag, inflight,      \* next_tag_q, inflight_q
          m_req,                   \* m_req_q, or Idle when m_req_valid_q is low
          s_rsp,                   \* per port s_rsp_q, or Idle
          queue,    \* q_r, q_count: accepted requests with the cycles left
          want,     \* the ports that present a request
          turn,     \* the number of the request a port presents, or will next
          owed      \* the requests acknowledged and not answered

-----------------------------------------------------------------------------
(* The arbiter.                                                            *)

arbVars == <<rr_ptr, tag_valid, tag_owner, next_tag, inflight, m_req, s_rsp>>

Port == 0 .. NPorts - 1
Tag  == 0 .. MaxTag - 1

\* Members of `set` counted upwards from `start` around a ring of n.
FirstFrom(start, set, n) ==
  CHOOSE x \in set : \A y \in set : (x + n - start) % n <= (y + n - start) % n

\* Wrong on purpose: a tag whether it is free or not.
every_tag == Tag

Bump(x, n) == IF x = n - 1 THEN 0 ELSE x + 1

\* `pending` is the set of ports whose request is seen.
grant_idx(pending) == IF pending = {} THEN rr_ptr ELSE FirstFrom(rr_ptr, pending, NPorts)

free_tags == Tag \ tag_valid
free_tag  == FirstFrom(next_tag, free_tags, MaxTag)

can_issue(pending, m_ready) == pending # {} /\ m_ready /\ free_tags # {}

\* The ports whose request is acknowledged, at most one.
accepted(pending, m_ready) ==
  {p \in pending : can_issue(pending, m_ready) /\ p = grant_idx(pending) /\ m_req = Idle}

\* The count after an edge: its two assignments do not add up, the later one wins.
inflight_d(issue, answered) ==
  IF answered /\ inflight # 0 THEN inflight - 1
  ELSE IF issue THEN inflight + 1 ELSE inflight

m_rsp_ready == \A p \in Port : s_rsp[p] = Idle

\* One rising edge.  `id` gives each port's request, `answer` is the response
\* the memory presents or Idle, `taken` the ports whose producer is ready.
ArbEdge(pending, id, m_ready, answer, taken) ==
  LET issue   == can_issue(pending, m_ready)
      port    == grant_idx(pending)
      fire    == m_req # Idle /\ m_ready
      answers == IF m_rsp_ready /\ answer # Idle THEN {answer} ELSE {}
      freed   == {a.tag : a \in answers}
  IN /\ rr_ptr' = IF fire THEN Bump(port, NPorts) ELSE rr_ptr
     /\ m_req' = IF issue THEN [port |-> port, id |-> id[port], tag |-> free_tag]
                 ELSE IF fire THEN Idle ELSE m_req
     /\ tag_valid' = (tag_valid \cup IF issue THEN {free_tag} ELSE {}) \ freed
     /\ tag_owner' = IF issue THEN [tag_owner EXCEPT ![free_tag] = port] ELSE tag_owner
     /\ next_tag' = IF issue THEN Bump(free_tag, MaxTag) ELSE next_tag
     /\ inflight' = inflight_d(issue, answers # {})
     /\ s_rsp' = [p \in Port |->
                    IF \E a \in answers : tag_owner[a.tag] = p THEN answer
                    ELSE IF p \in taken THEN Idle ELSE s_rsp[p]]

ArbInit ==
  /\ rr_ptr = 0 /\ tag_valid = {} /\ tag_owner = [t \in Tag |-> 0]
  /\ next_tag = 0 /\ inflight = 0 /\ m_req = Idle
  /\ s_rsp = [p \in Port |-> Idle]

ArbReset ==
  /\ rr_ptr' = 0 /\ tag_valid' = {} /\ tag_owner' = [t \in Tag |-> 0]
  /\ next_tag' = 0 /\ inflight' = 0 /\ m_req' = Idle
  /\ s_rsp' = [p \in Port |-> Idle]

-----------------------------------------------------------------------------
vars == <<arbVars, queue, want, turn, owed>>

Request == [port : Port, id : 0 .. IdMod - 1]
Name(x) == [port |-> x.port, id |-> x.id]

-----------------------------------------------------------------------------
(* The memory: a queue in which every entry counts down.  On an edge that  *)
(* retires the head the shift copies the counts as they were, and a        *)
(* request accepted on that edge is stored behind the end of the queue:    *)
(* the count is one short and the request is never seen again.             *)

mem_ready(mode) == mode \notin {"disabled", "drop_req"} /\ Len(queue) < MaxInflight

head_ready == queue # << >> /\ Head(queue).left = 0
answer(mode) == IF head_ready /\ mode # "drop_rsp" THEN Head(queue) ELSE Idle

\* Wrong on purpose: a count that stops at one.
aged_to_one ==
  [i \in DOMAIN queue |-> [queue[i] EXCEPT !.left = IF @ = 1 THEN 1 ELSE @ - 1]]

aged ==
  [i \in DOMAIN queue |-> [queue[i] EXCEPT !.left = IF @ = 0 THEN 0 ELSE @ - 1]]

queue_d(retire, arriving) == IF retire THEN Tail(queue) ELSE aged \o arriving

MemEdge(mode) ==
  queue' = queue_d(answer(mode) # Idle /\ m_rsp_ready,
                   IF m_req = Idle \/ ~mem_ready(mode) THEN << >>
                   ELSE <<[port |-> m_req.port, id |-> m_req.id, tag |-> m_req.tag,
                           left |-> Latency]>>)

-----------------------------------------------------------------------------
(* The producers.                                                          *)

pending(mode) == IF mode = "disabled" THEN {} ELSE want
acked(mode)   == accepted(pending(mode), mem_ready(mode))

\* Ports in `fresh` present a request from the next cycle on.
Produce(mode, fresh) ==
  /\ want' = (want \ acked(mode)) \cup fresh
  /\ turn' = [p \in Port |-> IF p \in acked(mode) THEN (turn[p] + 1) % IdMod ELSE turn[p]]

Answered(taken) == {Name(s_rsp[p]) : p \in {q \in taken : s_rsp[q] # Idle}}
Acknowledged(mode) == {[port |-> p, id |-> turn[p]] : p \in acked(mode)}

-----------------------------------------------------------------------------

Clock(mode, fresh, taken) ==
  /\ ArbEdge(pending(mode), turn, mem_ready(mode), answer(mode), taken)
  /\ MemEdge(mode)
  /\ Produce(mode, fresh)
  /\ owed' = (owed \ Answered(taken)) \cup Acknowledged(mode)

\* The soft-reset pulse clears arbiter and memory together; the producers are
\* not told, and one of them may be acknowledged on that very edge.
SoftReset(mode, fresh) ==
  /\ ArbReset /\ queue' = << >> /\ owed' = {}
  /\ Produce(mode, fresh)

Init == /\ ArbInit /\ queue = << >> /\ want = {}
        /\ turn = [p \in Port |-> 0] /\ owed = {}

\* The ports that may come up with a request on this edge; those with a response
\* that they may take.
silent(mode) == Port \ (want \ acked(mode))
offered      == {p \in Port : s_rsp[p] # Idle}

Next == \E mode \in Modes : \E fresh \in SUBSET silent(mode) :
          \/ \E taken \in SUBSET offered : Clock(mode, fresh, taken)
          \/ SoftReset(mode, fresh)

Spec == Init /\ [][Next]_vars

\* A cycle in which nothing is held up and every producer takes its answer.
Serve == \E fresh \in SUBSET silent("normal") : Clock("normal", fresh, offered)

FairSpec == Spec /\ WF_vars(Serve)

-----------------------------------------------------------------------------

TypeOK ==
  /\ rr_ptr \in Port /\ tag_valid \subseteq Tag /\ tag_owner \in [Tag -> Port]
  /\ next_tag \in Tag /\ inflight \in 0 .. MaxTag
  /\ m_req = Idle \/ m_req \in [port : Port, id : 0 .. IdMod - 1, tag : Tag]
  /\ Len(queue) <= MaxInflight
  /\ \A i \in DOMAIN queue : queue[i].left \in 0 .. Latency
  /\ want \subseteq Port /\ turn \in [Port -> 0 .. IdMod - 1] /\ owed \subseteq Request

\* Requests issued and not answered, with their tags: in the output register
\* and in the memory.
outstanding == {<<0, m_req>> : x \in {y \in {m_req} : y # Idle}}
               \cup {<<i, queue[i]>> : i \in DOMAIN queue}

\* Whatever came in between, an answer finds the producer that asked: the tag of
\* an outstanding request is marked in use, is on no other request and names the
\* port that presented it ("a response returning at any time is delivered to the
\* right producer", mem_arbiter.sv).  The in-flight count never claims more requests
\* than tags are in use, even though it forgets an issue that meets an answer.
AnswersFindTheirPort ==
  /\ TypeOK /\ inflight <= Cardinality(tag_valid)
  /\ \A x \in outstanding : x[2].tag \in tag_valid /\ tag_owner[x[2].tag] = x[2].port
  /\ \A x, y \in outstanding : x[2].tag = y[2].tag => x = y
  /\ \A p \in Port : s_rsp[p] # Idle => s_rsp[p].port = p

\* A request that was acknowledged is on its way, or its answer is ("zero lost",
\* DECISIONS.md; "the count is net-zero", behavioral_mem_model.sv).
NothingLost ==
  owed \subseteq {Name(x[2]) : x \in outstanding}
                 \cup {Name(s_rsp[p]) : p \in {q \in Port : s_rsp[q] # Idle}}

\* A request is issued once ("No duplicated transactions", SPEC.md): two requests
\* outstanding at once are two requests of their producers (mem_arbiter.sv).
IssuedOnce == \A x, y \in outstanding : Name(x[2]) = Name(y[2]) => x = y

(* Liveness.                                                               *)

\* What the memory holds it answers, however the producers stall each other and
\* whatever fault modes come and go (mem_arbiter.sv holds all answers while one is
\* not taken; behavioral_mem_model.sv answers in order).
HeldIsAnswered ==
  \A t \in Tag : (\E i \in DOMAIN queue : queue[i].tag = t)
                ~> ~(\E i \in DOMAIN queue : queue[i].tag = t)
=============================================================================
