---------------------------- MODULE MemPathProofs ----------------------------
(***************************************************************************)
(* Proof that an answer of the memory finds the producer that asked, for   *)
(* any number of ports, tags and places in the memory, any latency, and    *)
(* whatever fault modes and soft resets come and go.                       *)
(***************************************************************************)
EXTENDS MemPath, FiniteSetTheorems, WellFoundedInduction, TLAPS

Number == 0 .. IdMod - 1
Issued == [port : Port, id : Number, tag : Tag]
Entry  == [port : Port, id : Number, tag : Tag, left : 0 .. Latency]

\* "No request, no response" is told from a request and from a response.
IdleApart == Idle \notin Issued /\ Idle \notin Entry

\* A tag leads back to the port of the request that carries it.
Leads(x) == x.tag \in tag_valid /\ tag_owner[x.tag] = x.port

ArbTypes ==
  /\ rr_ptr \in Port /\ tag_valid \subseteq Tag /\ tag_owner \in [Tag -> Port]
  /\ next_tag \in Tag /\ inflight \in Nat /\ m_req \in Issued \cup {Idle}
  /\ s_rsp \in [Port -> Entry \cup {Idle}]
PathTypes ==
  /\ queue \in Seq(Entry) /\ Len(queue) <= MaxInflight
  /\ want \subseteq Port /\ turn \in [Port -> Number] /\ owed \subseteq Request
TagsLead ==
  /\ \A i \in DOMAIN queue : Leads(queue[i])
  /\ m_req # Idle => Leads(m_req)
TagsDiffer ==
  /\ \A i, j \in DOMAIN queue : queue[i].tag = queue[j].tag => i = j
  /\ m_req # Idle => \A i \in DOMAIN queue : queue[i].tag # m_req.tag
Home == \A p \in Port : s_rsp[p] # Idle => s_rsp[p].port = p
Counted == inflight <= Cardinality(tag_valid)

IInv == ArbTypes /\ PathTypes /\ TagsLead /\ TagsDiffer /\ Home /\ Counted

-----------------------------------------------------------------------------
\* A rotating choice among ports or tags is one of them.
LEMMA FirstIsMember ==
  ASSUME NEW n \in Nat \ {0}, NEW start \in 0 .. n - 1, NEW set \in SUBSET (0 .. n - 1), set # {}
  PROVE  FirstFrom(start, set, n) \in set
<1> DEFINE d(x) == (x + n - start) % n
           D == {d(x) : x \in set}
           R == OpToRel(<, Nat)
<1>1. \A x \in set : d(x) \in Nat
  OBVIOUS
<1>2. D \subseteq Nat /\ D # {}
  BY <1>1
<1>3. PICK m \in D : \A y \in D : ~(<<y, m>> \in R)
  <2>1. IsWellFoundedOn(R, Nat)
    BY NatLessThanWellFounded
  <2> HIDE DEF D, R
  <2> QED BY <1>2, <2>1, WFMin
<1>4. \A y \in D : m <= y
  <2> TAKE y \in D
  <2>1. y \in Nat /\ m \in Nat
    BY <1>2
  <2>2. y < m => <<y, m>> \in R
    BY <2>1 DEF OpToRel
  <2>3. ~(y < m)
    BY <2>2, <1>3
  <2> QED BY <2>1, <2>3
<1>5. PICK x \in set : d(x) = m
  OBVIOUS
<1>6. \A y \in set : d(x) <= d(y)
  BY <1>4, <1>5
<1> QED BY <1>6 DEF FirstFrom

\* The tags are finitely many.
LEMMA TagsFinite ==
  ASSUME NEW T \in SUBSET Tag
  PROVE  IsFiniteSet(T) /\ Cardinality(T) \in Nat /\ Cardinality(T) <= MaxTag
<1>1. MaxTag \in Nat \ {0}
  BY MemAssumption
<1>2. IsFiniteSet(Tag) /\ Cardinality(Tag) = MaxTag
  BY <1>1, FS_Interval DEF Tag
<1> QED BY <1>1, <1>2, FS_Subset, FS_CardinalityType

LEMMA InitIInv == ASSUME IdleApart, Init PROVE IInv
<1>1. 0 \in Port /\ 0 \in Tag /\ 0 \in Number
  BY MemAssumption DEF Port, Tag, Number
<1>2. Cardinality({}) = 0
  BY FS_EmptySet
<1> QED BY <1>1, <1>2, MemAssumption
        DEF Init, ArbInit, IInv, ArbTypes, PathTypes, TagsLead, TagsDiffer, Home, Counted

-----------------------------------------------------------------------------
(* What an edge does to each part, with its two events named.              *)

Issues(mode)  == can_issue(pending(mode), mem_ready(mode))
Retires(mode) == answer(mode) # Idle /\ m_rsp_ready
Arrives(mode) == m_req # Idle /\ mem_ready(mode)
Granted(mode) == [port |-> grant_idx(pending(mode)), id |-> turn[grant_idx(pending(mode))],
                  tag  |-> free_tag]

\* What is issued is a request of a port, under a tag that is free.
LEMMA IssueIsFresh ==
  ASSUME IInv, NEW mode \in Modes, Issues(mode)
  PROVE  Granted(mode) \in Issued /\ free_tag \in Tag \ tag_valid
<1>1. NPorts \in Nat \ {0} /\ MaxTag \in Nat \ {0} /\ Port = 0 .. NPorts - 1 /\ Tag = 0 .. MaxTag - 1
  BY MemAssumption DEF Port, Tag
<1>2. pending(mode) \in SUBSET Port /\ pending(mode) # {} /\ rr_ptr \in Port
  BY DEF IInv, ArbTypes, PathTypes, Issues, can_issue, pending
<1>3. grant_idx(pending(mode)) \in Port
  <2>1. FirstFrom(rr_ptr, pending(mode), NPorts) \in pending(mode)
    BY <1>1, <1>2, FirstIsMember
  <2> QED BY <2>1, <1>2 DEF grant_idx
<1>4. free_tags \in SUBSET Tag /\ free_tags # {} /\ next_tag \in Tag
  BY DEF IInv, ArbTypes, Issues, can_issue, free_tags
<1>5. free_tag \in free_tags
  BY <1>1, <1>4, FirstIsMember DEF free_tag
<1>6. turn[grant_idx(pending(mode))] \in Number
  BY <1>3 DEF IInv, PathTypes
<1> QED BY <1>3, <1>4, <1>5, <1>6 DEF Granted, Issued, free_tags

\* What is retired is the head of the queue.
LEMMA AnswerIsHead ==
  ASSUME IInv, NEW mode \in Modes, Retires(mode)
  PROVE  /\ Len(queue) >= 1 /\ answer(mode) = queue[1] /\ answer(mode) \in Entry
         /\ 1 \in DOMAIN queue
<1>1. answer(mode) = Head(queue) /\ queue # << >> /\ queue \in Seq(Entry)
  BY DEF IInv, PathTypes, Retires, answer, head_ready
<1> QED BY <1>1

\* The edge of the arbiter, said with these.
LEMMA EdgeOfArbiter ==
  ASSUME NEW mode, NEW taken,
         ArbEdge(pending(mode), turn, mem_ready(mode), answer(mode), taken)
  PROVE  LET freed == IF Retires(mode) THEN {answer(mode).tag} ELSE {}
         IN  /\ rr_ptr' = IF Arrives(mode) THEN Bump(grant_idx(pending(mode)), NPorts) ELSE rr_ptr
             /\ m_req' = IF Issues(mode) THEN Granted(mode)
                         ELSE IF Arrives(mode) THEN Idle ELSE m_req
             /\ tag_valid' = (tag_valid \cup (IF Issues(mode) THEN {free_tag} ELSE {})) \ freed
             /\ tag_owner' = IF Issues(mode)
                             THEN [tag_owner EXCEPT ![free_tag] = grant_idx(pending(mode))]
                             ELSE tag_owner
             /\ next_tag' = IF Issues(mode) THEN Bump(free_tag, MaxTag) ELSE next_tag
             /\ inflight' = inflight_d(Issues(mode), Retires(mode))
             /\ s_rsp' = [p \in Port |->
                  IF Retires(mode) /\ tag_owner[answer(mode).tag] = p THEN answer(mode)
                  ELSE IF p \in taken THEN Idle ELSE s_rsp[p]]
<1> DEFINE answers == IF m_rsp_ready /\ answer(mode) # Idle THEN {answer(mode)} ELSE {}
<1>1. answers = IF Retires(mode) THEN {answer(mode)} ELSE {}
  BY DEF Retires
<1>2. {a.tag : a \in answers} = IF Retires(mode) THEN {answer(mode).tag} ELSE {}
  BY <1>1
<1>3. answers # {} <=> Retires(mode)
  BY <1>1
<1>4. \A p : (\E a \in answers : tag_owner[a.tag] = p)
              <=> (Retires(mode) /\ tag_owner[answer(mode).tag] = p)
  BY <1>1
<1> HIDE DEF answers
<1>5. s_rsp' = [p \in Port |->
          IF Retires(mode) /\ tag_owner[answer(mode).tag] = p THEN answer(mode)
          ELSE IF p \in taken THEN Idle ELSE s_rsp[p]]
  <2>1. s_rsp' = [p \in Port |->
          IF \E a \in answers : tag_owner[a.tag] = p THEN answer(mode)
          ELSE IF p \in taken THEN Idle ELSE s_rsp[p]]
    BY DEF ArbEdge, answers
  <2> QED BY <2>1, <1>4
<1>6. tag_valid' = (tag_valid \cup (IF Issues(mode) THEN {free_tag} ELSE {}))
                    \ (IF Retires(mode) THEN {answer(mode).tag} ELSE {})
  BY <1>2 DEF ArbEdge, Issues, answers
<1>7. inflight' = inflight_d(Issues(mode), Retires(mode))
  BY <1>3 DEF ArbEdge, Issues, answers, inflight_d
<1>8. /\ rr_ptr' = IF Arrives(mode) THEN Bump(grant_idx(pending(mode)), NPorts) ELSE rr_ptr
      /\ m_req' = IF Issues(mode) THEN Granted(mode)
                  ELSE IF Arrives(mode) THEN Idle ELSE m_req
      /\ tag_owner' = IF Issues(mode)
                      THEN [tag_owner EXCEPT ![free_tag] = grant_idx(pending(mode))]
                      ELSE tag_owner
      /\ next_tag' = IF Issues(mode) THEN Bump(free_tag, MaxTag) ELSE next_tag
  BY DEF ArbEdge, Issues, Arrives, Granted
<1> QED BY <1>5, <1>6, <1>7, <1>8

\* The queue shifts, or ages in place and takes what arrives.
LEMMA EdgeOfQueue ==
  ASSUME IdleApart, IInv, NEW mode \in Modes, MemEdge(mode)
  PROVE  /\ queue' \in Seq(Entry) /\ Len(queue') <= MaxInflight
         /\ Retires(mode) => /\ DOMAIN queue' = 1 .. Len(queue) - 1
                             /\ \A i \in DOMAIN queue' : i + 1 \in DOMAIN queue /\ i + 1 # 1
                                                         /\ queue'[i] = queue[i + 1]
         /\ ~Retires(mode) =>
              /\ DOMAIN queue' = IF Arrives(mode) THEN 1 .. Len(queue) + 1 ELSE DOMAIN queue
              /\ \A i \in DOMAIN queue : queue'[i].port = queue[i].port /\ queue'[i].tag = queue[i].tag
              /\ Arrives(mode) => /\ queue'[Len(queue) + 1].port = m_req.port
                                  /\ queue'[Len(queue) + 1].tag = m_req.tag
<1> DEFINE entry == [port |-> m_req.port, id |-> m_req.id, tag |-> m_req.tag, left |-> Latency]
           coming == IF Arrives(mode) THEN <<entry>> ELSE << >>
<1>1. queue \in Seq(Entry) /\ Len(queue) \in Nat /\ Len(queue) <= MaxInflight /\ DOMAIN queue = 1 .. Len(queue)
  BY DEF IInv, PathTypes
<1>2. queue' = IF Retires(mode) THEN Tail(queue) ELSE aged \o coming
  BY DEF MemEdge, queue_d, Retires, Arrives
<1>3. MaxInflight \in Nat /\ Latency \in Nat /\ Latency \in 0 .. Latency
  BY MemAssumption
<1>4. CASE Retires(mode)
  <2>1. Len(queue) >= 1 /\ queue # << >>
    BY AnswerIsHead, <1>4, <1>1
  <2>2. queue' = Tail(queue)
    BY <1>2, <1>4
  <2>3. queue' \in Seq(Entry) /\ Len(queue') = Len(queue) - 1 /\ DOMAIN queue' = 1 .. Len(queue')
    BY <2>1, <2>2, <1>1
  <2>4. \A i \in DOMAIN queue' : i + 1 \in DOMAIN queue /\ i + 1 # 1 /\ queue'[i] = queue[i + 1]
    BY <2>1, <2>2, <2>3, <1>1
  <2> QED BY <2>3, <2>4, <1>1, <1>3, <1>4
<1>5. CASE ~Retires(mode)
  <2>1. \A i \in DOMAIN queue : /\ aged[i] \in Entry
                               /\ aged[i].port = queue[i].port /\ aged[i].tag = queue[i].tag
    <3> TAKE i \in DOMAIN queue
    <3> DEFINE e == queue[i]
    <3>1. e \in Entry
      BY <1>1
    <3>2. aged[i] = [e EXCEPT !.left = IF e.left = 0 THEN 0 ELSE e.left - 1]
      BY DEF aged
    <3> QED BY <3>1, <3>2, <1>3 DEF Entry
  <2>2. aged \in Seq(Entry) /\ Len(aged) = Len(queue)
    <3>1. DOMAIN aged = 1 .. Len(queue) /\ aged = [i \in 1 .. Len(queue) |-> aged[i]]
      BY <1>1 DEF aged
    <3>2. \A i \in 1 .. Len(queue) : aged[i] \in Entry
      BY <2>1, <1>1
    <3> HIDE DEF aged
    <3>3. aged \in [1 .. Len(queue) -> Entry]
      BY <3>1, <3>2
    <3> QED BY <3>3, <1>1
  <2>3. coming \in Seq(Entry) /\ Len(coming) = IF Arrives(mode) THEN 1 ELSE 0
    <3>1. Arrives(mode) => m_req \in Issued
      BY DEF Arrives, IInv, ArbTypes
    <3>2. Arrives(mode) => entry \in Entry
      BY <3>1, <1>3 DEF Issued, Entry
    <3> QED BY <3>2
  <2>4. queue' = aged \o coming
    BY <1>2, <1>5
  <2>5. /\ queue' \in Seq(Entry) /\ Len(queue') = Len(queue) + Len(coming)
        /\ DOMAIN queue' = 1 .. Len(queue) + Len(coming)
        /\ \A i \in 1 .. Len(queue) : queue'[i] = aged[i]
        /\ Len(coming) = 1 => queue'[Len(queue) + 1] = coming[1]
    <3> HIDE DEF coming
    <3>1. /\ aged \o coming \in Seq(Entry) /\ Len(aged \o coming) = Len(aged) + Len(coming)
          /\ \A i \in 1 .. Len(aged) : (aged \o coming)[i] = aged[i]
          /\ \A j \in 1 .. Len(coming) : (aged \o coming)[Len(aged) + j] = coming[j]
      <4>1. aged \in Seq(Entry) /\ coming \in Seq(Entry)
        BY <2>2, <2>3
      <4> HIDE DEF aged
      <4> QED BY <4>1
    <3>2. Len(coming) \in Nat
      BY <2>3
    <3> QED BY <3>1, <3>2, <2>2, <2>4, <1>1
  <2>6. Arrives(mode) => Len(queue) < MaxInflight
    BY DEF Arrives, mem_ready
  <2>7. Arrives(mode) => coming[1].port = m_req.port /\ coming[1].tag = m_req.tag
    OBVIOUS
  <2>8. Len(queue') <= MaxInflight
    BY <2>3, <2>5, <2>6, <1>1, <1>3
  <2>9. DOMAIN queue' = IF Arrives(mode) THEN 1 .. Len(queue) + 1 ELSE DOMAIN queue
    BY <2>3, <2>5, <1>1
  <2> HIDE DEF coming
  <2>10. \A i \in DOMAIN queue : queue'[i].port = queue[i].port /\ queue'[i].tag = queue[i].tag
    BY <2>1, <2>5, <1>1
  <2>11. Arrives(mode) => /\ queue'[Len(queue) + 1].port = m_req.port
                          /\ queue'[Len(queue) + 1].tag = m_req.tag
    BY <2>3, <2>5, <2>7
  <2> QED BY <2>5, <2>8, <2>9, <2>10, <2>11, <1>5
<1> QED BY <1>4, <1>5

-----------------------------------------------------------------------------
(* Each part of the invariant over an edge.                                *)

LEMMA ArbTypesKept ==
  ASSUME IdleApart, IInv, NEW mode \in Modes, NEW taken,
         ArbEdge(pending(mode), turn, mem_ready(mode), answer(mode), taken)
  PROVE  ArbTypes'
<1>1. /\ rr_ptr \in Port /\ tag_valid \subseteq Tag /\ tag_owner \in [Tag -> Port]
      /\ next_tag \in Tag /\ inflight \in Nat /\ m_req \in Issued \cup {Idle}
      /\ s_rsp \in [Port -> Entry \cup {Idle}]
  BY DEF IInv, ArbTypes
<1>2. \A p \in Port : Bump(p, NPorts) \in Port
  BY MemAssumption DEF Bump, Port
<1>3. \A t \in Tag : Bump(t, MaxTag) \in Tag
  BY MemAssumption DEF Bump, Tag
<1>4. grant_idx(pending(mode)) \in Port
  <2>1. NPorts \in Nat \ {0} /\ Port = 0 .. NPorts - 1 /\ pending(mode) \in SUBSET Port
    BY MemAssumption DEF Port, IInv, PathTypes, pending
  <2>2. pending(mode) # {} => FirstFrom(rr_ptr, pending(mode), NPorts) \in pending(mode)
    BY <2>1, <1>1, FirstIsMember
  <2> QED BY <2>1, <2>2, <1>1 DEF grant_idx
<1>5. Issues(mode) => Granted(mode) \in Issued /\ free_tag \in Tag
  BY IssueIsFresh
<1>6. Retires(mode) => answer(mode) \in Entry
  BY AnswerIsHead
<1>7. rr_ptr' \in Port /\ next_tag' \in Tag
  BY EdgeOfArbiter, <1>1, <1>2, <1>3, <1>4, <1>5
<1>8. tag_valid' \subseteq Tag /\ tag_owner' \in [Tag -> Port]
  BY EdgeOfArbiter, <1>1, <1>4, <1>5
<1>9. m_req' \in Issued \cup {Idle}
  BY EdgeOfArbiter, <1>1, <1>5
<1>10. inflight' \in Nat
  BY EdgeOfArbiter, <1>1 DEF inflight_d
<1>11. s_rsp' \in [Port -> Entry \cup {Idle}]
  BY EdgeOfArbiter, <1>1, <1>6
<1> QED BY <1>7, <1>8, <1>9, <1>10, <1>11 DEF ArbTypes

\* A tag that is in use stays so, for its port, unless its answer is taken in.
LEMMA LeadKept ==
  ASSUME IInv, NEW mode \in Modes, NEW taken,
         ArbEdge(pending(mode), turn, mem_ready(mode), answer(mode), taken),
         NEW t \in tag_valid, Retires(mode) => t # answer(mode).tag
  PROVE  t \in tag_valid' /\ tag_owner'[t] = tag_owner[t]
<1>1. tag_valid \subseteq Tag /\ tag_owner \in [Tag -> Port]
  BY DEF IInv, ArbTypes
<1>2. Issues(mode) => free_tag \in Tag \ tag_valid
  BY IssueIsFresh
<1>3. t \in tag_valid'
  BY EdgeOfArbiter
<1>4. tag_owner'[t] = tag_owner[t]
  BY EdgeOfArbiter, <1>1, <1>2
<1> QED BY <1>3, <1>4

\* The tag that is issued leads to its port, though another is freed on the same edge.
LEMMA IssuedLeads ==
  ASSUME IInv, NEW mode \in Modes, NEW taken,
         ArbEdge(pending(mode), turn, mem_ready(mode), answer(mode), taken), Issues(mode)
  PROVE  /\ m_req' = Granted(mode) /\ m_req'.tag = free_tag
         /\ m_req'.tag \in tag_valid' /\ tag_owner'[m_req'.tag] = m_req'.port
<1>1. tag_valid \subseteq Tag /\ tag_owner \in [Tag -> Port]
  BY DEF IInv, ArbTypes
<1>2. free_tag \in Tag \ tag_valid
  BY IssueIsFresh
<1>3. m_req' = Granted(mode) /\ m_req'.tag = free_tag /\ m_req'.port = grant_idx(pending(mode))
  BY EdgeOfArbiter DEF Granted
<1>4. Retires(mode) => answer(mode).tag \in tag_valid
  <2>1. Retires(mode) => answer(mode) = queue[1] /\ 1 \in DOMAIN queue
    BY AnswerIsHead
  <2> QED BY <2>1 DEF IInv, TagsLead, Leads
<1>5. free_tag \in tag_valid'
  BY EdgeOfArbiter, <1>2, <1>4
<1>6. tag_owner'[free_tag] = grant_idx(pending(mode))
  BY EdgeOfArbiter, <1>1, <1>2
<1> QED BY <1>3, <1>5, <1>6

LEMMA CountKept ==
  ASSUME IInv, NEW mode \in Modes, NEW taken,
         ArbEdge(pending(mode), turn, mem_ready(mode), answer(mode), taken)
  PROVE  Counted'
<1> DEFINE taken_in == IF Issues(mode) THEN {free_tag} ELSE {}
           grown == tag_valid \cup taken_in
<1>1. tag_valid \in SUBSET Tag /\ inflight \in Nat /\ inflight <= Cardinality(tag_valid)
  BY DEF IInv, ArbTypes, Counted
<1>2. IsFiniteSet(tag_valid) /\ Cardinality(tag_valid) \in Nat
  BY <1>1, TagsFinite
<1>3. Issues(mode) => free_tag \notin tag_valid
  BY IssueIsFresh
<1>4. Retires(mode) => answer(mode).tag \in tag_valid
  <2>1. Retires(mode) => answer(mode) = queue[1] /\ 1 \in DOMAIN queue
    BY AnswerIsHead
  <2> QED BY <2>1 DEF IInv, TagsLead, Leads
<1>5. /\ IsFiniteSet(grown)
      /\ Cardinality(grown) = IF Issues(mode) THEN Cardinality(tag_valid) + 1 ELSE Cardinality(tag_valid)
  <2>1. CASE Issues(mode)
    <3>1. grown = tag_valid \cup {free_tag}
      BY <2>1
    <3> QED BY <3>1, <2>1, <1>2, <1>3, FS_AddElement
  <2>2. CASE ~Issues(mode)
    <3>1. grown = tag_valid
      BY <2>2
    <3> QED BY <3>1, <2>2, <1>2
  <2> QED BY <2>1, <2>2
<1>6. CASE Retires(mode)
  <2>1. tag_valid' = grown \ {answer(mode).tag}
    BY EdgeOfArbiter, <1>6
  <2>2. answer(mode).tag \in grown
    BY <1>4, <1>6
  <2> HIDE DEF grown
  <2>3. Cardinality(tag_valid') = Cardinality(grown) - 1
    BY <2>1, <2>2, <1>5, FS_RemoveElement
  <2>4. inflight' = inflight_d(Issues(mode), Retires(mode))
    BY EdgeOfArbiter
  <2>5. Cardinality(tag_valid) >= 1
    <3>1. tag_valid # {}
      BY <1>4, <1>6
    <3> QED BY <3>1, <1>2, FS_EmptySet
  <2>6. CASE Issues(mode)
    BY <2>3, <2>4, <2>5, <2>6, <1>1, <1>2, <1>5, <1>6 DEF Counted, inflight_d
  <2>7. CASE ~Issues(mode)
    BY <2>3, <2>4, <2>5, <2>7, <1>1, <1>2, <1>5, <1>6 DEF Counted, inflight_d
  <2> QED BY <2>6, <2>7
<1>7. CASE ~Retires(mode)
  <2>1. tag_valid' = grown
    BY EdgeOfArbiter, <1>7
  <2>2. inflight' = IF Issues(mode) THEN inflight + 1 ELSE inflight
    BY EdgeOfArbiter, <1>7 DEF inflight_d
  <2> HIDE DEF grown
  <2> QED BY <2>1, <2>2, <1>1, <1>2, <1>5 DEF Counted
<1> QED BY <1>6, <1>7

\* What waits in the memory after an edge was there before, behind the head if the
\* head has left, or is the request that arrives: in either case its tag was in use
\* for its port and is not the tag of the answer that is taken in.
LEMMA WaitsOn ==
  ASSUME IdleApart, IInv, NEW mode \in Modes, MemEdge(mode), NEW i \in DOMAIN queue'
  PROVE  /\ queue'[i].tag \in tag_valid /\ tag_owner[queue'[i].tag] = queue'[i].port
         /\ Retires(mode) => queue'[i].tag # answer(mode).tag
<1>1. CASE Retires(mode)
  <2>1. i + 1 \in DOMAIN queue /\ i + 1 # 1 /\ queue'[i] = queue[i + 1]
    BY <1>1, EdgeOfQueue
  <2>2. answer(mode) = queue[1] /\ 1 \in DOMAIN queue
    BY <1>1, AnswerIsHead
  <2>3. queue[i + 1].tag # queue[1].tag
    BY <2>1, <2>2 DEF IInv, TagsDiffer
  <2>4. Leads(queue[i + 1])
    BY <2>1 DEF IInv, TagsLead
  <2> QED BY <2>1, <2>2, <2>3, <2>4 DEF Leads
<1>2. CASE ~Retires(mode)
  <2>1. i \in DOMAIN queue \/ (Arrives(mode) /\ i = Len(queue) + 1)
    <3>1. Len(queue) \in Nat /\ DOMAIN queue = 1 .. Len(queue)
      BY DEF IInv, PathTypes
    <3>2. i \in IF Arrives(mode) THEN 1 .. Len(queue) + 1 ELSE DOMAIN queue
      BY <1>2, EdgeOfQueue
    <3> QED BY <3>1, <3>2
  <2>2. CASE i \in DOMAIN queue
    <3>1. queue'[i].port = queue[i].port /\ queue'[i].tag = queue[i].tag
      BY <1>2, <2>2, EdgeOfQueue
    <3>2. Leads(queue[i])
      BY <2>2 DEF IInv, TagsLead
    <3> QED BY <1>2, <3>1, <3>2 DEF Leads
  <2>3. CASE Arrives(mode) /\ i = Len(queue) + 1
    <3>1. queue'[i].port = m_req.port /\ queue'[i].tag = m_req.tag
      BY <1>2, <2>3, EdgeOfQueue
    <3>2. Leads(m_req)
      BY <2>3 DEF IInv, TagsLead, Arrives
    <3> QED BY <1>2, <3>1, <3>2 DEF Leads
  <2> QED BY <2>1, <2>2, <2>3
<1> QED BY <1>1, <1>2

\* The tags in the memory still differ: of what arrives, by the old TagsDiffer.
LEMMA WaitingDiffer ==
  ASSUME IdleApart, IInv, NEW mode \in Modes, MemEdge(mode),
         NEW i \in DOMAIN queue', NEW j \in DOMAIN queue', queue'[i].tag = queue'[j].tag
  PROVE  i = j
<1>0. Len(queue) \in Nat /\ DOMAIN queue = 1 .. Len(queue)
  BY DEF IInv, PathTypes
<1>1. CASE Retires(mode)
  <2>1. /\ i + 1 \in DOMAIN queue /\ queue'[i] = queue[i + 1] /\ i \in 1 .. Len(queue) - 1
        /\ j + 1 \in DOMAIN queue /\ queue'[j] = queue[j + 1] /\ j \in 1 .. Len(queue) - 1
    BY <1>1, EdgeOfQueue
  <2>2. i + 1 = j + 1
    BY <2>1 DEF IInv, TagsDiffer
  <2> QED BY <2>1, <2>2, <1>0
<1>2. CASE ~Retires(mode)
  <2> DEFINE new(k) == Arrives(mode) /\ k = Len(queue) + 1
  <2>1. \A k \in DOMAIN queue' : k \in DOMAIN queue \/ new(k)
    <3>1. DOMAIN queue' = IF Arrives(mode) THEN 1 .. Len(queue) + 1 ELSE DOMAIN queue
      BY <1>2, EdgeOfQueue
    <3> QED BY <3>1, <1>0
  <2>2. \A k \in DOMAIN queue : queue'[k].tag = queue[k].tag
    BY <1>2, EdgeOfQueue
  <2>3. \A k \in DOMAIN queue' : new(k) => queue'[k].tag = m_req.tag
    BY <1>2, EdgeOfQueue
  <2>4. Arrives(mode) => \A k \in DOMAIN queue : queue[k].tag # m_req.tag
    BY DEF IInv, TagsDiffer, Arrives
  <2>5. CASE i \in DOMAIN queue /\ j \in DOMAIN queue
    BY <2>2, <2>5 DEF IInv, TagsDiffer
  <2>6. CASE i \in DOMAIN queue /\ new(j)
    BY <2>2, <2>3, <2>4, <2>6
  <2>7. CASE new(i) /\ j \in DOMAIN queue
    BY <2>2, <2>3, <2>4, <2>7
  <2>8. CASE new(i) /\ new(j)
    BY <2>8
  <2> QED BY <2>1, <2>5, <2>6, <2>7, <2>8
<1> QED BY <1>1, <1>2

LEMMA TagsKept ==
  ASSUME IdleApart, IInv, NEW mode \in Modes, NEW taken, MemEdge(mode),
         ArbEdge(pending(mode), turn, mem_ready(mode), answer(mode), taken)
  PROVE  TagsLead' /\ TagsDiffer'
<1>1. \A i \in DOMAIN queue' : /\ queue'[i].tag \in tag_valid'
                               /\ tag_owner'[queue'[i].tag] = queue'[i].port
  BY WaitsOn, LeadKept
<1>2. CASE Issues(mode)
  <2>1. /\ m_req'.tag = free_tag /\ m_req'.tag \in tag_valid'
        /\ tag_owner'[m_req'.tag] = m_req'.port /\ free_tag \notin tag_valid
    BY <1>2, IssuedLeads, IssueIsFresh
  <2>2. \A i \in DOMAIN queue' : queue'[i].tag # m_req'.tag
    BY <2>1, WaitsOn
  <2> QED BY <1>1, <2>1, <2>2, WaitingDiffer DEF TagsLead, TagsDiffer, Leads
<1>3. CASE ~Issues(mode) /\ Arrives(mode)
  <2>1. m_req' = Idle
    BY <1>3, EdgeOfArbiter
  <2> QED BY <1>1, <2>1, WaitingDiffer DEF TagsLead, TagsDiffer, Leads
<1>4. CASE ~Issues(mode) /\ ~Arrives(mode)
  <2>1. m_req' = m_req
    BY <1>4, EdgeOfArbiter
  <2>2. SUFFICES ASSUME m_req # Idle
                 PROVE  /\ m_req.tag \in tag_valid' /\ tag_owner'[m_req.tag] = m_req.port
                        /\ \A i \in DOMAIN queue' : queue'[i].tag # m_req.tag
    BY <1>1, <2>1, WaitingDiffer DEF TagsLead, TagsDiffer, Leads
  <2>3. Leads(m_req) /\ \A i \in DOMAIN queue : queue[i].tag # m_req.tag
    BY <2>2 DEF IInv, TagsLead, TagsDiffer
  <2>4. Retires(mode) => m_req.tag # answer(mode).tag
    BY <2>3, AnswerIsHead
  <2>5. m_req.tag \in tag_valid' /\ tag_owner'[m_req.tag] = m_req.port
    BY <2>3, <2>4, LeadKept DEF Leads
  <2>6. \A i \in DOMAIN queue' : queue'[i].tag # m_req.tag
    <3> TAKE i \in DOMAIN queue'
    <3>1. CASE Retires(mode)
      BY <3>1, <2>3, EdgeOfQueue
    <3>2. CASE ~Retires(mode)
      BY <3>2, <1>4, <2>3, EdgeOfQueue
    <3> QED BY <3>1, <3>2
  <2> QED BY <2>5, <2>6
<1> QED BY <1>2, <1>3, <1>4

\* An answer is put before the owner of its tag, which is the port that asked.
LEMMA HomeKept ==
  ASSUME IdleApart, IInv, NEW mode \in Modes, NEW taken,
         ArbEdge(pending(mode), turn, mem_ready(mode), answer(mode), taken)
  PROVE  Home'
<1>1. SUFFICES ASSUME NEW p \in Port, s_rsp'[p] # Idle
               PROVE  s_rsp'[p].port = p
  BY DEF Home
<1>2. s_rsp'[p] = IF Retires(mode) /\ tag_owner[answer(mode).tag] = p THEN answer(mode)
                  ELSE IF p \in taken THEN Idle ELSE s_rsp[p]
  BY EdgeOfArbiter
<1>3. CASE Retires(mode) /\ tag_owner[answer(mode).tag] = p
  <2>1. answer(mode) = queue[1] /\ Leads(queue[1])
    BY <1>3, AnswerIsHead DEF IInv, TagsLead
  <2> QED BY <1>2, <1>3, <2>1 DEF Leads
<1>4. CASE ~(Retires(mode) /\ tag_owner[answer(mode).tag] = p)
  <2>1. s_rsp'[p] = s_rsp[p]
    BY <1>1, <1>2, <1>4
  <2> QED BY <1>1, <2>1 DEF IInv, Home
<1> QED BY <1>3, <1>4

LEMMA ProducersTyped ==
  ASSUME IInv, NEW mode \in Modes, NEW fresh \in SUBSET silent(mode), Produce(mode, fresh)
  PROVE  want' \subseteq Port /\ turn' \in [Port -> Number] /\ Acknowledged(mode) \subseteq Request
<1>1. want \subseteq Port /\ turn \in [Port -> Number] /\ IdMod \in Nat \ {0}
  BY MemAssumption DEF IInv, PathTypes
<1>2. acked(mode) \subseteq Port /\ fresh \subseteq Port
  BY <1>1 DEF acked, accepted, pending, silent
<1>3. want' \subseteq Port
  BY <1>1, <1>2 DEF Produce
<1>4. \A k \in Number : (k + 1) % IdMod \in Number
  BY <1>1 DEF Number
<1>5. turn' \in [Port -> Number]
  BY <1>1, <1>4 DEF Produce
<1>6. Acknowledged(mode) \subseteq Request
  <2>1. \A p \in acked(mode) : p \in Port /\ turn[p] \in 0 .. IdMod - 1
    BY <1>1, <1>2 DEF Number
  <2> QED BY <2>1 DEF Acknowledged, Request
<1> QED BY <1>3, <1>5, <1>6

LEMMA ClockKeeps ==
  ASSUME IdleApart, IInv, NEW mode \in Modes, NEW fresh \in SUBSET silent(mode), NEW taken,
         Clock(mode, fresh, taken)
  PROVE  IInv'
<1>1. /\ ArbEdge(pending(mode), turn, mem_ready(mode), answer(mode), taken)
      /\ MemEdge(mode) /\ Produce(mode, fresh)
      /\ owed' = (owed \ Answered(taken)) \cup Acknowledged(mode)
  BY DEF Clock
<1>2. queue' \in Seq(Entry) /\ Len(queue') <= MaxInflight
  BY <1>1, EdgeOfQueue
<1>3. want' \subseteq Port /\ turn' \in [Port -> Number] /\ Acknowledged(mode) \subseteq Request
  BY <1>1, ProducersTyped
<1>4. owed' \subseteq Request
  BY <1>1, <1>3 DEF IInv, PathTypes
<1>5. PathTypes'
  BY <1>2, <1>3, <1>4 DEF PathTypes
<1>6. ArbTypes' /\ Counted'
  BY <1>1, ArbTypesKept, CountKept
<1>7. TagsLead' /\ TagsDiffer' /\ Home'
  BY <1>1, TagsKept, HomeKept
<1> QED BY <1>5, <1>6, <1>7 DEF IInv

\* The pulse empties arbiter and memory together, so that no tag is left that could
\* be given out again under an answer still to come.
LEMMA SoftResetKeeps ==
  ASSUME IdleApart, IInv, NEW mode \in Modes, NEW fresh \in SUBSET silent(mode),
         SoftReset(mode, fresh)
  PROVE  IInv'
<1>1. 0 \in Port /\ 0 \in Tag
  BY MemAssumption DEF Port, Tag
<1>2. Produce(mode, fresh) /\ ArbReset /\ queue' = << >> /\ owed' = {}
  BY DEF SoftReset
<1>3. want' \subseteq Port /\ turn' \in [Port -> Number]
  BY <1>2, ProducersTyped
<1>4. PathTypes'
  BY <1>2, <1>3, MemAssumption DEF PathTypes
<1>5. ArbTypes'
  BY <1>1, <1>2 DEF ArbTypes, ArbReset
<1>6. TagsLead' /\ TagsDiffer' /\ Home'
  BY <1>2 DEF ArbReset, TagsLead, TagsDiffer, Home
<1>7. Counted'
  BY <1>2, FS_EmptySet DEF ArbReset, Counted
<1> QED BY <1>4, <1>5, <1>6, <1>7 DEF IInv

LEMMA NextKeeps == ASSUME IdleApart, IInv, [Next]_vars PROVE IInv'
<1>1. CASE Next
  <2>1. PICK mode \in Modes : \E fresh \in SUBSET silent(mode) :
          \/ \E taken \in SUBSET offered : Clock(mode, fresh, taken)
          \/ SoftReset(mode, fresh)
    BY <1>1 DEF Next
  <2>2. PICK fresh \in SUBSET silent(mode) :
          \/ \E taken \in SUBSET offered : Clock(mode, fresh, taken)
          \/ SoftReset(mode, fresh)
    BY <2>1
  <2>3. CASE \E taken \in SUBSET offered : Clock(mode, fresh, taken)
    BY <2>3, ClockKeeps
  <2>4. CASE SoftReset(mode, fresh)
    BY <2>4, SoftResetKeeps
  <2> QED BY <2>2, <2>3, <2>4
<1>2. CASE UNCHANGED vars
  <2>1. /\ UNCHANGED <<rr_ptr, tag_valid, tag_owner, next_tag, inflight, m_req, s_rsp>>
        /\ UNCHANGED <<queue, want, turn, owed>>
    BY <1>2 DEF vars, arbVars
  <2> QED BY <2>1 DEF IInv, ArbTypes, PathTypes, TagsLead, TagsDiffer, Home, Counted, Leads
<1> QED BY <1>1, <1>2

LEMMA IInvSuffices == ASSUME IInv PROVE AnswersFindTheirPort
<1>1. TypeOK
  <2>1. inflight \in 0 .. MaxTag
    <3>1. tag_valid \in SUBSET Tag /\ inflight \in Nat /\ inflight <= Cardinality(tag_valid)
      BY DEF IInv, ArbTypes, Counted
    <3>2. Cardinality(tag_valid) \in Nat /\ Cardinality(tag_valid) <= MaxTag
      BY <3>1, TagsFinite
    <3> QED BY <3>1, <3>2, MemAssumption
  <2>2. \A i \in DOMAIN queue : queue[i].left \in 0 .. Latency
    <3>1. \A i \in DOMAIN queue : queue[i] \in Entry
      BY DEF IInv, PathTypes
    <3> QED BY <3>1 DEF Entry
  <2> QED BY <2>1, <2>2 DEF TypeOK, IInv, ArbTypes, PathTypes, Number, Issued
<1>2. \A x \in outstanding : \/ x = <<0, m_req>> /\ m_req # Idle
                             \/ \E i \in DOMAIN queue : x = <<i, queue[i]>>
  BY DEF outstanding
<1>3. \A x \in outstanding : x[2].tag \in tag_valid /\ tag_owner[x[2].tag] = x[2].port
  BY <1>2 DEF IInv, TagsLead, Leads
<1>4. ASSUME NEW x \in outstanding, NEW y \in outstanding, x[2].tag = y[2].tag
      PROVE  x = y
  <2>1. CASE x = <<0, m_req>> /\ m_req # Idle
    BY <1>2, <1>4, <2>1 DEF IInv, TagsDiffer
  <2>2. CASE \E i \in DOMAIN queue : x = <<i, queue[i]>>
    <3>1. CASE y = <<0, m_req>> /\ m_req # Idle
      BY <1>4, <2>2, <3>1 DEF IInv, TagsDiffer
    <3>2. CASE \E j \in DOMAIN queue : y = <<j, queue[j]>>
      BY <1>4, <2>2, <3>2 DEF IInv, TagsDiffer
    <3> QED BY <1>2, <3>1, <3>2
  <2> QED BY <1>2, <2>1, <2>2
<1> QED BY <1>1, <1>3, <1>4 DEF AnswersFindTheirPort, IInv, Home, Counted

-----------------------------------------------------------------------------
\* Whatever the number of producers, tags and places in the memory, its latency, its
\* fault modes and the soft resets, the tag of every outstanding request is in use, is
\* its own and names the port that asked, and a response waits at the port of its
\* request ("a response returning at any time is delivered to the right producer",
\* mem_arbiter.sv).
THEOREM AnswersFindTheirPortAlways ==
  ASSUME IdleApart
  PROVE  Spec => []AnswersFindTheirPort
<1>1. Init => IInv
  BY InitIInv
<1>2. IInv /\ [Next]_vars => IInv'
  BY NextKeeps
<1>3. IInv => AnswersFindTheirPort
  BY IInvSuffices
<1> QED BY <1>1, <1>2, <1>3, PTL DEF Spec
=============================================================================
