------------------------- MODULE CdcHandshakeProofs -------------------------
(***************************************************************************)
(* The four-phase handshake carries every accepted value exactly once, for *)
(* every payload set and every synchronizer depth, when the resets are     *)
(* asserted together and each outlives one edge of the other clock.        *)
(* Ring is the heart of the argument: at most one edge of the request and  *)
(* one of the acknowledge are on their way around the loop of flops.       *)
(***************************************************************************)
EXTENDS CdcHandshake, TLAPS

ResetContract == LongReset = TRUE /\ OneSided = FALSE

-----------------------------------------------------------------------------
(* The inductive invariant.                                                *)

PhaseInv == /\ src_phase = "stale" => dst_phase \in {"stale", "clear"}
            /\ dst_phase = "stale" => src_phase \in {"stale", "clear"}

SrcZero == src_state = "IDLE" /\ ~req /\ \A i \in Stage : ~ack_sync[i]
DstZero == ~ack /\ ~capture /\ \A i \in Stage : ~req_sync[i]
ZeroInv == /\ src_phase \in {"clear", "seen"} => SrcZero
           /\ dst_phase \in {"clear", "seen"} => DstZero

\* A level enters a chain at its first flop: rising, the flops that hold it are
\* the first ones; falling, the last ones.
Rising(chain)  == \A i, j \in Stage : i < j /\ chain[j] => chain[i]
Falling(chain) == \A i, j \in Stage : i < j /\ chain[i] => chain[j]

IdleRing    == ~ack /\ \A i \in Stage : ~req_sync[i] /\ ~ack_sync[i]
ReqRing     == /\ Rising(req_sync) /\ (ack => \A i \in Stage : req_sync[i])
               /\ Rising(ack_sync) /\ (\A i \in Stage : ack_sync[i] => ack)
ReleaseRing == /\ Falling(req_sync) /\ (\A i \in Stage : req_sync[i] => ack)
               /\ Falling(ack_sync) /\ (ack => \A i \in Stage : ack_sync[i])

Ring == /\ req <=> src_state = "REQ"
        /\ src_state = "IDLE" => IdleRing
        /\ src_state = "REQ" => ReqRing
        /\ src_state = "RELEASE" => ReleaseRing

DataInv == /\ src_state # "IDLE" => src_data \in Data
           /\ ack /\ src_state # "IDLE" => dst_data = src_data
           /\ capture => ack /\ src_state # "IDLE"

IInv == TypeOK /\ PhaseInv /\ ZeroInv /\ (~Stale => Ring /\ DataInv)

-----------------------------------------------------------------------------
(* Every clock step at once: each side has an edge or none.                *)

SrcMove(a)    == UNCHANGED srcVars \/ \E offer \in Offers : SrcEdge(offer, a)
DstMove(r, w) == UNCHANGED dstVars \/ DstEdge(r, w)
Sampling(a, r, w) == /\ a \in {ack, ack'} /\ r \in {req, req'} /\ w \in Offers
                     /\ src_data' = src_data => w = src_data
ClockStep == \E a, r \in BOOLEAN, w \in Offers :
               SrcMove(a) /\ DstMove(r, w) /\ Sampling(a, r, w)

\* The chain has a first and a last flop, and a predecessor for each but the first.
LEMMA Flops == /\ 1 \in Stage /\ SyncStages \in Stage
               /\ \A i \in Stage : i \in Nat /\ i <= SyncStages /\ 1 <= i
               /\ \A i \in Stage : i # 1 => i - 1 \in Stage
  BY StagesAssumption DEF Stage

\* What one edge does to a chain.
LEMMA ShiftFlops ==
  ASSUME NEW chain \in [Stage -> BOOLEAN], NEW d \in BOOLEAN
  PROVE  /\ Shift(chain, d) \in [Stage -> BOOLEAN]
         /\ Shift(chain, d)[1] = d
         /\ \A i \in Stage : i # 1 => Shift(chain, d)[i] = chain[i - 1]
  BY Flops DEF Shift

\* A chain reset to FALSE.
LEMMA FilledFlops == /\ Filled(FALSE) \in [Stage -> BOOLEAN]
                     /\ \A i \in Stage : Filled(FALSE)[i] = FALSE
  BY DEF Filled

\* The three kinds of tick are clock steps and move phases one way.
LEMMA TickIsClockStep ==
  ASSUME TypeOK, SrcTick \/ DstTick \/ BothTick
  PROVE  /\ ClockStep
         /\ \E s, d \in BOOLEAN :
              /\ src_phase' = NextPhase(src_phase, s, d)
              /\ dst_phase' = NextPhase(dst_phase, d, s)
              /\ s => \E offer \in Offers, a \in BOOLEAN : SrcEdge(offer, a)
              /\ d => \E r \in BOOLEAN, w \in Offers : DstEdge(r, w)
              /\ ~s => UNCHANGED srcVars
              /\ ~d => UNCHANGED dstVars
<1> ack \in BOOLEAN /\ req \in BOOLEAN /\ src_data \in Offers
  BY DEF TypeOK
<1>1. CASE SrcTick
  <2>1. PICK offer \in Offers : SrcEdge(offer, ack)
    BY <1>1 DEF SrcTick
  <2>2. UNCHANGED dstVars
    BY <1>1 DEF SrcTick
  <2>3. ClockStep
    <3>1. SrcMove(ack) /\ DstMove(req, src_data) /\ Sampling(ack, req, src_data)
      BY <2>1, <2>2 DEF SrcMove, DstMove, Sampling
    <3> QED BY <3>1 DEF ClockStep
  <2> QED BY <1>1, <2>1, <2>2, <2>3 DEF SrcTick
<1>2. CASE DstTick
  <2>1. DstEdge(req, src_data) /\ UNCHANGED srcVars
    BY <1>2 DEF DstTick
  <2>2. SrcMove(ack) /\ DstMove(req, src_data) /\ Sampling(ack, req, src_data)
    BY <2>1 DEF SrcMove, DstMove, Sampling
  <2>3. ClockStep
    BY <2>2 DEF ClockStep
  <2> QED BY <1>2, <2>1, <2>3 DEF DstTick
<1>3. CASE BothTick
  <2>1. PICK offer \in Offers, a \in BOOLEAN, r \in BOOLEAN, w \in Offers :
          /\ SrcEdge(offer, a) /\ DstEdge(r, w)
          /\ a \in {ack, ack'} /\ r \in {req, req'}
          /\ src_data' = src_data => w = src_data
    BY <1>3 DEF BothTick
  <2>2. SrcMove(a) /\ DstMove(r, w) /\ Sampling(a, r, w)
    BY <2>1 DEF SrcMove, DstMove, Sampling
  <2>3. ClockStep
    BY <2>2 DEF ClockStep
  <2> QED BY <1>3, <2>1, <2>3 DEF BothTick
<1> QED BY <1>1, <1>2, <1>3

\* An edge of a domain keeps the types of its registers.
LEMMA SrcEdgeType ==
  ASSUME TypeOK, NEW offer \in Offers, NEW a \in BOOLEAN, SrcEdge(offer, a)
  PROVE  /\ src_state' \in {"IDLE", "REQ", "RELEASE"} /\ req' \in BOOLEAN
         /\ ack_sync' \in [Stage -> BOOLEAN] /\ src_data' \in Offers
<1>1. ack_sync' = Filled(FALSE) \/ ack_sync' = Shift(ack_sync, a)
  BY DEF SrcEdge
<1>2. ack_sync' \in [Stage -> BOOLEAN]
  <2>1. ack_sync \in [Stage -> BOOLEAN]
    BY DEF TypeOK
  <2>2. Shift(ack_sync, a) \in [Stage -> BOOLEAN]
    BY <2>1, ShiftFlops
  <2> QED BY <1>1, <2>2, FilledFlops
<1>3. src_state' \in {"IDLE", "REQ", "RELEASE"} /\ req' \in BOOLEAN
  BY DEF TypeOK, SrcEdge, SrcFsm
<1>4. src_data' \in Offers
  BY DEF TypeOK, SrcEdge
<1> QED BY <1>2, <1>3, <1>4

LEMMA DstEdgeType ==
  ASSUME TypeOK, NEW r \in BOOLEAN, NEW w \in Offers, DstEdge(r, w)
  PROVE  /\ ack' \in BOOLEAN /\ capture' \in BOOLEAN
         /\ req_sync' \in [Stage -> BOOLEAN] /\ dst_data' \in Offers
<1>1. req_dst \in BOOLEAN /\ dst_capture \in BOOLEAN
  BY Flops DEF TypeOK, req_dst, dst_capture
<1>2. req_sync' = Filled(FALSE) \/ req_sync' = Shift(req_sync, r)
  BY DEF DstEdge
<1>3. req_sync' \in [Stage -> BOOLEAN]
  <2>1. req_sync \in [Stage -> BOOLEAN]
    BY DEF TypeOK
  <2>2. Shift(req_sync, r) \in [Stage -> BOOLEAN]
    BY <2>1, ShiftFlops
  <2> QED BY <1>2, <2>2, FilledFlops
<1>4. ack' \in BOOLEAN /\ capture' \in BOOLEAN
  BY <1>1, Zenon DEF TypeOK, DstEdge
<1>5. dst_data' \in Offers
  BY DEF TypeOK, DstEdge
<1> QED BY <1>3, <1>4, <1>5

\* A tick is an edge of the source, of the destination or of both, and enters in
\* the account what the two faces show at it.
Entered(s, d, offer) ==
  LET rest == IF d THEN Strobed(owed) ELSE owed
  IN  IF s THEN Taken(rest, offer) ELSE rest

LEMMA AccountStep ==
  ASSUME TypeOK, SrcTick \/ DstTick \/ BothTick
  PROVE  /\ owed' \in Seq(Offers)
         /\ \E s, d \in BOOLEAN, offer \in Offers, a, r \in BOOLEAN, w \in Offers :
              /\ src_phase' = NextPhase(src_phase, s, d)
              /\ dst_phase' = NextPhase(dst_phase, d, s)
              /\ IF s THEN SrcEdge(offer, a) ELSE UNCHANGED srcVars
              /\ IF d THEN DstEdge(r, w) ELSE UNCHANGED dstVars
              /\ Sampling(a, r, w)
              /\ Books(Entered(s, d, offer))
<1> USE DEF Entered
<1>0. ack \in BOOLEAN /\ req \in BOOLEAN /\ src_data \in Offers /\ owed \in Seq(Offers)
      /\ NoData \in Offers
  BY DEF TypeOK, Offers
<1>1. \E s, d \in BOOLEAN, offer \in Offers, a, r \in BOOLEAN, w \in Offers :
              /\ src_phase' = NextPhase(src_phase, s, d)
              /\ dst_phase' = NextPhase(dst_phase, d, s)
              /\ IF s THEN SrcEdge(offer, a) ELSE UNCHANGED srcVars
              /\ IF d THEN DstEdge(r, w) ELSE UNCHANGED dstVars
              /\ Sampling(a, r, w)
              /\ Books(Entered(s, d, offer))
  <2>1. CASE SrcTick
    <3>1. PICK offer \in Offers : SrcEdge(offer, ack) /\ Books(Taken(owed, offer))
      BY <2>1 DEF SrcTick
    <3>2. Books(Entered(TRUE, FALSE, offer)) /\ Sampling(ack, req, src_data)
      BY <3>1, <1>0 DEF Sampling
    <3> HIDE DEF Entered
    <3> QED BY <2>1, <3>1, <3>2, <1>0 DEF SrcTick
  <2>2. CASE DstTick
    <3>1. DstEdge(req, src_data) /\ Books(Strobed(owed))
      BY <2>2 DEF DstTick
    <3>2. Books(Entered(FALSE, TRUE, NoData)) /\ Sampling(ack, req, src_data)
      BY <3>1, <1>0 DEF Sampling
    <3> HIDE DEF Entered
    <3> QED BY <2>2, <3>1, <3>2, <1>0 DEF DstTick
  <2>3. CASE BothTick
    <3>1. PICK offer \in Offers, a \in BOOLEAN, r \in BOOLEAN, w \in Offers :
            /\ SrcEdge(offer, a) /\ DstEdge(r, w)
            /\ a \in {ack, ack'} /\ r \in {req, req'}
            /\ src_data' = src_data => w = src_data
            /\ Books(Taken(Strobed(owed), offer))
      BY <2>3 DEF BothTick
    <3>2. Books(Entered(TRUE, TRUE, offer)) /\ Sampling(a, r, w)
      BY <3>1 DEF Sampling
    <3> HIDE DEF Entered
    <3> QED BY <2>3, <3>1, <3>2 DEF BothTick
  <2> QED BY <2>1, <2>2, <2>3
<1>2. \A account \in Seq(Offers) : Strobed(account) \in Seq(Offers)
  BY <1>0 DEF Strobed
<1>3. \A account \in Seq(Offers), offer \in Offers : Taken(account, offer) \in Seq(Offers)
  BY DEF Taken
<1>4. \A s, d \in BOOLEAN, offer \in Offers : Entered(s, d, offer) \in Seq(Offers)
  BY <1>0, <1>2, <1>3
<1> HIDE DEF Entered
<1>5. owed' \in Seq(Offers)
  BY <1>1, <1>4 DEF Books
<1> QED BY <1>1, <1>5

LEMMA TypeStep == TypeOK /\ [Next]_vars => TypeOK'
<1> SUFFICES ASSUME TypeOK, [Next]_vars PROVE TypeOK'
  OBVIOUS
<1>1. CASE SrcTick \/ DstTick \/ BothTick
  <2>1. PICK s, d \in BOOLEAN :
          /\ src_phase' = NextPhase(src_phase, s, d)
          /\ dst_phase' = NextPhase(dst_phase, d, s)
          /\ s => \E offer \in Offers, a \in BOOLEAN : SrcEdge(offer, a)
          /\ d => \E r \in BOOLEAN, w \in Offers : DstEdge(r, w)
          /\ ~s => UNCHANGED srcVars
          /\ ~d => UNCHANGED dstVars
    BY <1>1, TickIsClockStep
  <2>2. src_phase' \in Phases /\ dst_phase' \in Phases
    BY <2>1 DEF TypeOK, NextPhase, Phases
  <2>3. /\ src_state' \in {"IDLE", "REQ", "RELEASE"} /\ req' \in BOOLEAN
        /\ ack_sync' \in [Stage -> BOOLEAN] /\ src_data' \in Offers
    BY <2>1, SrcEdgeType DEF TypeOK, srcVars
  <2>4. /\ ack' \in BOOLEAN /\ capture' \in BOOLEAN
        /\ req_sync' \in [Stage -> BOOLEAN] /\ dst_data' \in Offers
    BY <2>1, DstEdgeType DEF TypeOK, dstVars
  <2>5. owed' \in Seq(Offers)
    BY <1>1, AccountStep
  <2> QED BY <2>2, <2>3, <2>4, <2>5 DEF TypeOK
<1>2. CASE AssertReset \/ ReleaseSrc \/ ReleaseDst
  <2>1. owed' \in Seq(Offers)
    <3>1. owed' = << >> \/ owed' = owed
      BY <1>2 DEF AssertReset, ReleaseSrc, ReleaseDst
    <3>2. << >> \in Seq(Offers) /\ owed \in Seq(Offers)
      BY DEF TypeOK
    <3> QED BY <3>1, <3>2
  <2> QED BY <1>2, <2>1 DEF AssertReset, ReleaseSrc, ReleaseDst, TypeOK, srcVars, dstVars, Phases
<1>3. CASE UNCHANGED vars
  BY <1>3 DEF TypeOK, vars, srcVars, dstVars
<1> QED BY <1>1, <1>2, <1>3 DEF Next

-----------------------------------------------------------------------------
(* One clock step from a state in which neither domain is stale.           *)

\* How each side may have moved, flop by flop.
LEMMA SrcCases ==
  ASSUME TypeOK, ZeroInv, ~Stale, NEW a \in BOOLEAN, SrcMove(a)
  PROVE  \/ UNCHANGED srcVars
         \/ /\ SrcZero /\ SrcZero' /\ src_phase # "run"
         \/ /\ src_phase = "run"
            /\ \E offer \in Offers : SrcFsm(offer) /\
                 src_data' = IF SrcAccept(offer) THEN offer ELSE src_data
            /\ ack_sync'[1] = a
            /\ \A i \in Stage : i # 1 => ack_sync'[i] = ack_sync[i - 1]
<1>1. CASE UNCHANGED srcVars
  BY <1>1
<1>2. CASE \E offer \in Offers : SrcEdge(offer, a)
  <2>1. PICK offer \in Offers : SrcEdge(offer, a)
    BY <1>2
  <2>2. CASE src_phase # "run"
    <3>1. SrcZero
      BY <2>2 DEF ZeroInv, TypeOK, Phases, Stale
    <3>2. src_state' = "IDLE" /\ req' = FALSE /\ ack_sync' = Filled(FALSE)
      BY <2>1, <2>2 DEF SrcEdge
    <3> QED BY <2>2, <3>1, <3>2, FilledFlops DEF SrcZero
  <2>3. CASE src_phase = "run"
    <3>1. ack_sync' = Shift(ack_sync, a) /\ SrcFsm(offer)
          /\ src_data' = IF SrcAccept(offer) THEN offer ELSE src_data
      BY <2>1, <2>3 DEF SrcEdge
    <3>2. ack_sync \in [Stage -> BOOLEAN]
      BY DEF TypeOK
    <3> QED BY <2>3, <3>1, <3>2, ShiftFlops
  <2> QED BY <2>2, <2>3
<1> QED BY <1>1, <1>2 DEF SrcMove

LEMMA DstCases ==
  ASSUME TypeOK, ZeroInv, ~Stale, NEW r \in BOOLEAN, NEW w \in Offers, DstMove(r, w)
  PROVE  \/ UNCHANGED dstVars
         \/ /\ DstZero /\ DstZero' /\ dst_phase # "run"
         \/ /\ dst_phase = "run"
            /\ dst_data' = IF dst_capture THEN w ELSE dst_data
            /\ capture' <=> dst_capture
            /\ ack' <=> (dst_capture \/ (ack /\ req_dst))
            /\ req_sync'[1] = r
            /\ \A i \in Stage : i # 1 => req_sync'[i] = req_sync[i - 1]
<1>1. CASE UNCHANGED dstVars
  BY <1>1
<1>2. CASE DstEdge(r, w)
  <2>2. CASE dst_phase # "run"
    <3>1. DstZero
      BY <2>2 DEF ZeroInv, TypeOK, Phases, Stale
    <3>2. ack' = FALSE /\ capture' = FALSE /\ req_sync' = Filled(FALSE)
      BY <1>2, <2>2 DEF DstEdge
    <3> QED BY <2>2, <3>1, <3>2, FilledFlops DEF DstZero
  <2>3. CASE dst_phase = "run"
    <3>1. /\ req_sync' = Shift(req_sync, r)
          /\ dst_data' = IF dst_capture THEN w ELSE dst_data
      BY <1>2, <2>3 DEF DstEdge
    <3>2. /\ capture' <=> dst_capture
          /\ ack' <=> (dst_capture \/ (ack /\ req_dst))
      <4>1. capture' = dst_capture /\ ack' = (dst_capture \/ (ack /\ req_dst))
        BY <1>2, <2>3 DEF DstEdge
      <4> QED BY <4>1
    <3>3. req_sync \in [Stage -> BOOLEAN]
      BY DEF TypeOK
    <3> QED BY <2>3, <3>1, <3>2, <3>3, ShiftFlops
  <2> QED BY <2>2, <2>3
<1> QED BY <1>1, <1>2 DEF DstMove

\* The source is ready: the loop is empty and stays so, but for a request that
\* may just have risen.
LEMMA IdleStep ==
  ASSUME TypeOK, TypeOK', ZeroInv, ~Stale, Ring, DataInv, src_state = "IDLE",
         NEW a \in BOOLEAN, NEW r \in BOOLEAN, NEW w \in Offers,
         SrcMove(a), DstMove(r, w), Sampling(a, r, w)
  PROVE  /\ Ring' /\ DataInv' /\ ~ack'
         /\ \/ src_state' = "IDLE"
            \/ src_state' = "REQ" /\ src_data' \in Data
<1>1. ~req /\ IdleRing
  BY DEF Ring
<1>2. ~dst_capture /\ ~req_dst
  BY <1>1, Flops DEF dst_capture, req_dst, IdleRing
<1>3. ~ack' /\ ~capture'
  BY <1>1, <1>2, DstCases DEF dstVars, DstZero, IdleRing, DataInv
<1>4. ~a
  BY <1>1, <1>3 DEF Sampling, IdleRing
<1>5. \A i \in Stage : ~ack_sync'[i]
  <2>1. CASE ack_sync' = ack_sync
    BY <2>1, <1>1 DEF IdleRing
  <2>2. CASE SrcZero'
    BY <2>2 DEF SrcZero
  <2>3. CASE /\ ack_sync'[1] = a
             /\ \A i \in Stage : i # 1 => ack_sync'[i] = ack_sync[i - 1]
    BY <2>3, <1>1, <1>4, Flops DEF IdleRing
  <2> QED BY <2>1, <2>2, <2>3, SrcCases DEF srcVars
<1>6. /\ \/ src_state' = "IDLE" /\ ~req'
         \/ src_state' = "REQ" /\ req' /\ src_data' \in Data
  BY <1>1, SrcCases DEF srcVars, SrcZero, SrcFsm, SrcAccept, s_ready, Offers
<1>7. \A i \in Stage : i # 1 => ~req_sync'[i]
  BY <1>1, DstCases, Flops DEF dstVars, DstZero, IdleRing
<1>8. ~req' => ~req_sync'[1]
  <2>1. ~req' => ~r
    BY <1>1 DEF Sampling
  <2> QED BY <2>1, <1>1, DstCases, Flops DEF dstVars, DstZero, IdleRing
<1>9. CASE src_state' = "IDLE"
  <2>1. IdleRing'
    BY <1>3, <1>5, <1>6, <1>7, <1>8, <1>9 DEF IdleRing
  <2> QED BY <2>1, <1>3, <1>6, <1>9 DEF Ring, DataInv
<1>10. CASE src_state' = "REQ"
  <2>1. Rising(req_sync)'
    BY <1>7, Flops DEF Rising
  <2>2. ReqRing'
    BY <2>1, <1>3, <1>5 DEF ReqRing, Rising
  <2> QED BY <2>2, <1>3, <1>6, <1>10 DEF Ring, DataInv
<1> QED BY <1>3, <1>6, <1>9, <1>10

\* A request is up: the level advances, the destination captures and answers,
\* and the source withdraws only what has been answered.
LEMMA ReqStep ==
  ASSUME TypeOK, TypeOK', ZeroInv, ~Stale, Ring, DataInv, src_state = "REQ",
         NEW a \in BOOLEAN, NEW r \in BOOLEAN, NEW w \in Offers,
         SrcMove(a), DstMove(r, w), Sampling(a, r, w)
  PROVE  /\ Ring' /\ DataInv' /\ src_data' = src_data
         /\ ack => ack'
         /\ \/ src_state' = "REQ"
            \/ src_state' = "RELEASE" /\ ack
<1>1. req /\ ReqRing
  BY DEF Ring
<1>2. src_data' = src_data /\ src_data \in Data /\ w = src_data
  <2>1. src_data' = src_data
    BY SrcCases DEF srcVars, SrcZero, SrcAccept, s_ready
  <2> QED BY <2>1 DEF Sampling, DataInv
<1>3. ack => ack'
  <2>1. ack => req_dst
    BY <1>1, Flops DEF ReqRing, req_dst
  <2> QED BY <2>1, DstCases DEF dstVars, DstZero
<1>4. ack' => \A i \in Stage : req_sync[i]
  <2>1. ack' => ack \/ req_dst
    BY DstCases DEF dstVars, DstZero, dst_capture
  <2>2. req_dst => \A i \in Stage : req_sync[i]
    BY <1>1, Flops DEF ReqRing, Rising, req_dst
  <2> QED BY <2>1, <2>2, <1>1 DEF ReqRing
<1>5. a => ack'
  BY <1>3 DEF Sampling
<1>6. /\ ack' /\ ~ack => dst_data' = src_data
      /\ ack => dst_data' = dst_data
  <2>1. CASE UNCHANGED dstVars
    BY <2>1 DEF dstVars
  <2>2. CASE DstZero /\ DstZero'
    BY <2>2 DEF DstZero
  <2>3. CASE /\ dst_data' = IF dst_capture THEN w ELSE dst_data
             /\ ack' <=> (dst_capture \/ (ack /\ req_dst))
    <3>1. CASE dst_capture
      BY <1>2, <2>3, <3>1 DEF dst_capture
    <3>2. CASE ~dst_capture
      BY <2>3, <3>2
    <3> QED BY <3>1, <3>2
  <2> QED BY <2>1, <2>2, <2>3, DstCases
<1>7. capture' => ack'
  BY DstCases DEF dstVars, DstZero, DataInv
<1>8. /\ \/ src_state' = "REQ" /\ req'
         \/ src_state' = "RELEASE" /\ ~req' /\ ack_src /\ ack_sync'[1] = a
            /\ \A i \in Stage : i # 1 => ack_sync'[i] = ack_sync[i - 1]
  BY <1>1, SrcCases DEF srcVars, SrcZero, SrcFsm
<1>9. ack_src => ack /\ \A i \in Stage : ack_sync[i]
  BY <1>1, Flops DEF ReqRing, Rising, ack_src
<1>10. DataInv'
  BY <1>1, <1>2, <1>3, <1>6, <1>7, <1>8 DEF DataInv
<1>11. CASE src_state' = "REQ"
  <2>0. req'
    BY <1>8, <1>11
  <2>1. r
    BY <1>1, <2>0 DEF Sampling
  <2>2. \/ req_sync' = req_sync
        \/ \A i \in Stage : ~req_sync'[i]
        \/ req_sync'[1] /\ \A i \in Stage : i # 1 => req_sync'[i] = req_sync[i - 1]
    BY <2>1, DstCases DEF dstVars, DstZero
  <2>3. Rising(req_sync)'
    <3>1. SUFFICES ASSUME NEW i \in Stage, NEW j \in Stage, i < j, req_sync'[j]
                   PROVE  req_sync'[i]
      BY DEF Rising
    <3>2. Rising(req_sync)
      BY <1>1 DEF ReqRing
    <3>3. CASE req_sync' = req_sync
      BY <3>1, <3>2, <3>3 DEF Rising
    <3>4. CASE req_sync'[1] /\ \A k \in Stage : k # 1 => req_sync'[k] = req_sync[k - 1]
      <4>1. CASE i = 1
        BY <4>1, <3>4
      <4>2. CASE i # 1
        <5>1. i - 1 \in Stage /\ j - 1 \in Stage /\ i - 1 < j - 1 /\ j # 1
          BY <3>1, <4>2, Flops
        <5>2. req_sync[j - 1]
          BY <3>1, <3>4, <5>1
        <5> QED BY <3>2, <3>4, <4>2, <5>1, <5>2 DEF Rising
      <4> QED BY <4>1, <4>2
    <3> QED BY <2>2, <3>1, <3>3, <3>4
  <2>4. ack' => \A i \in Stage : req_sync'[i]
    <3>1. ack' => ~DstZero'
      BY DEF DstZero
    <3>2. \/ req_sync' = req_sync \/ DstZero'
          \/ req_sync'[1] /\ \A i \in Stage : i # 1 => req_sync'[i] = req_sync[i - 1]
      BY <2>1, DstCases DEF dstVars
    <3> QED BY <3>1, <3>2, <1>4, Flops
  <2>5. \/ ack_sync' = ack_sync
        \/ ack_sync'[1] = a /\ \A i \in Stage : i # 1 => ack_sync'[i] = ack_sync[i - 1]
    BY SrcCases DEF srcVars, SrcZero
  <2>6. \A i \in Stage : ack_sync'[i] => ack'
    BY <2>5, <1>1, <1>3, <1>5, Flops DEF ReqRing
  <2>7. Rising(ack_sync)'
    <3>1. SUFFICES ASSUME NEW i \in Stage, NEW j \in Stage, i < j, ack_sync'[j]
                   PROVE  ack_sync'[i]
      BY DEF Rising
    <3>2. Rising(ack_sync)
      BY <1>1 DEF ReqRing
    <3>3. CASE ack_sync' = ack_sync
      BY <3>1, <3>2, <3>3 DEF Rising
    <3>4. CASE ack_sync'[1] = a /\ \A k \in Stage : k # 1 => ack_sync'[k] = ack_sync[k - 1]
      <4>0. j # 1 /\ j - 1 \in Stage /\ ack_sync[j - 1]
        BY <3>1, <3>4, Flops
      <4>1. CASE i = 1
        <5>1. ack
          BY <4>0, <1>1 DEF ReqRing
        <5>2. a
          BY <5>1, <1>3 DEF Sampling
        <5> QED BY <4>1, <5>2, <3>4
      <4>2. CASE i # 1
        <5>1. i - 1 \in Stage /\ i - 1 < j - 1
          BY <3>1, <4>2, <4>0, Flops
        <5> QED BY <3>2, <3>4, <4>0, <4>2, <5>1 DEF Rising
      <4> QED BY <4>1, <4>2
    <3> QED BY <2>5, <3>1, <3>3, <3>4
  <2>8. ReqRing'
    BY <2>3, <2>4, <2>6, <2>7 DEF ReqRing
  <2> QED BY <2>0, <2>8, <1>2, <1>3, <1>10, <1>11 DEF Ring
<1>12. CASE src_state' = "RELEASE"
  <2>1. ack /\ ack' /\ ~req'
    BY <1>3, <1>8, <1>9, <1>12
  <2>2. a
    BY <2>1 DEF Sampling
  <2>3. \A i \in Stage : ack_sync'[i]
    BY <1>8, <1>9, <1>12, <2>2, Flops
  <2>4. \A i \in Stage : req_sync[i]
    BY <1>1, <2>1 DEF ReqRing
  <2>5. \A i \in Stage : i # 1 => req_sync'[i]
    BY <2>1, <2>4, DstCases, Flops DEF dstVars, DstZero
  <2>6. Falling(req_sync)' /\ Falling(ack_sync)'
    BY <2>3, <2>5, Flops DEF Falling
  <2>7. ReleaseRing'
    BY <2>1, <2>3, <2>6 DEF ReleaseRing
  <2> QED BY <2>1, <2>7, <1>2, <1>3, <1>10, <1>12 DEF Ring
<1> QED BY <1>8, <1>11, <1>12

\* A request has been answered: its withdrawal travels round, and when it is
\* back the loop is empty.
LEMMA ReleaseStep ==
  ASSUME TypeOK, TypeOK', ZeroInv, ~Stale, Ring, DataInv, src_state = "RELEASE",
         NEW a \in BOOLEAN, NEW r \in BOOLEAN, NEW w \in Offers,
         SrcMove(a), DstMove(r, w), Sampling(a, r, w)
  PROVE  /\ Ring' /\ DataInv' /\ src_data' = src_data
         /\ src_state' \in {"RELEASE", "IDLE"}
<1>1. ~req /\ ReleaseRing
  BY DEF Ring
<1>2. req_dst => ack
  BY <1>1, Flops DEF ReleaseRing, req_dst
<1>3. ~dst_capture /\ (ack' => ack) /\ (capture' => capture)
  <2>1. ~dst_capture
    BY <1>2 DEF dst_capture
  <2> QED BY <2>1, DstCases DEF dstVars, DstZero
<1>4. dst_data' = dst_data \/ ~ack'
  BY <1>3, DstCases DEF dstVars, DstZero
<1>5. src_data' = src_data /\ src_data \in Data
  <2>1. src_data' = src_data
    BY SrcCases DEF srcVars, SrcZero, SrcAccept, s_ready
  <2> QED BY <2>1 DEF DataInv
<1>6. /\ ~req'
      /\ src_state' = "RELEASE" \/ (src_state' = "IDLE" /\ ~ack_src)
  BY <1>1, SrcCases DEF srcVars, SrcZero, SrcFsm
<1>7. ~r
  BY <1>1, <1>6 DEF Sampling
<1>8. a => ack
  BY <1>3 DEF Sampling
<1>9. \A i \in Stage : req_sync'[i] => ack'
  <2>1. CASE UNCHANGED dstVars
    BY <2>1, <1>1 DEF dstVars, ReleaseRing
  <2>2. CASE DstZero'
    BY <2>2 DEF DstZero
  <2>3. CASE /\ ack' <=> (dst_capture \/ (ack /\ req_dst))
             /\ req_sync'[1] = r
             /\ \A i \in Stage : i # 1 => req_sync'[i] = req_sync[i - 1]
    <3>1. SUFFICES ASSUME NEW i \in Stage, req_sync'[i] PROVE ack'
      OBVIOUS
    <3>2. i # 1 /\ i - 1 \in Stage /\ req_sync[i - 1]
      BY <2>3, <3>1, <1>7, Flops
    <3>3. req_sync[SyncStages]
      BY <3>2, <1>1, Flops DEF ReleaseRing, Falling
    <3> QED BY <3>3, <1>2, <2>3 DEF req_dst
  <2> QED BY <2>1, <2>2, <2>3, DstCases
<1>10. capture' => ack'
  BY <1>3, DstCases DEF dstVars, DstZero, DataInv
<1>11. Falling(req_sync)'
  <2>1. SUFFICES ASSUME NEW i \in Stage, NEW j \in Stage, i < j, req_sync'[i]
                 PROVE  req_sync'[j]
    BY DEF Falling
  <2>2. Falling(req_sync)
    BY <1>1 DEF ReleaseRing
  <2>3. CASE UNCHANGED dstVars
    BY <2>1, <2>2, <2>3 DEF dstVars, Falling
  <2>4. CASE DstZero'
    BY <2>1, <2>4 DEF DstZero
  <2>5. CASE /\ req_sync'[1] = r
             /\ \A k \in Stage : k # 1 => req_sync'[k] = req_sync[k - 1]
    <3>1. i # 1 /\ j # 1 /\ i - 1 \in Stage /\ j - 1 \in Stage /\ i - 1 < j - 1
      BY <2>1, <2>5, <1>7, Flops
    <3> QED BY <3>1, <2>1, <2>2, <2>5 DEF Falling
  <2> QED BY <2>3, <2>4, <2>5, DstCases
<1>12. CASE src_state' = "RELEASE"
  <2>1. \/ ack_sync' = ack_sync
        \/ ack_sync'[1] = a /\ \A i \in Stage : i # 1 => ack_sync'[i] = ack_sync[i - 1]
    BY <1>12, SrcCases DEF srcVars, SrcZero
  <2>2. ack' => \A i \in Stage : ack_sync'[i]
    <3>1. SUFFICES ASSUME ack' PROVE \A i \in Stage : ack_sync'[i]
      OBVIOUS
    <3>2. ack /\ a
      BY <3>1, <1>3 DEF Sampling
    <3> QED BY <3>2, <2>1, <1>1, Flops DEF ReleaseRing
  <2>3. Falling(ack_sync)'
    <3>1. SUFFICES ASSUME NEW i \in Stage, NEW j \in Stage, i < j, ack_sync'[i]
                   PROVE  ack_sync'[j]
      BY DEF Falling
    <3>2. Falling(ack_sync)
      BY <1>1 DEF ReleaseRing
    <3>3. CASE ack_sync' = ack_sync
      BY <3>1, <3>2, <3>3 DEF Falling
    <3>4. CASE ack_sync'[1] = a /\ \A k \in Stage : k # 1 => ack_sync'[k] = ack_sync[k - 1]
      <4>1. j # 1 /\ j - 1 \in Stage
        BY <3>1, Flops
      <4>2. CASE i = 1
        <5>1. ack
          BY <4>2, <3>1, <3>4, <1>8
        <5> QED BY <5>1, <4>1, <3>4, <1>1 DEF ReleaseRing
      <4>3. CASE i # 1
        <5>1. i - 1 \in Stage /\ i - 1 < j - 1
          BY <3>1, <4>1, <4>3, Flops
        <5> QED BY <3>1, <3>2, <3>4, <4>1, <4>3, <5>1 DEF Falling
      <4> QED BY <4>2, <4>3
    <3> QED BY <2>1, <3>3, <3>4
  <2>4. ReleaseRing'
    BY <2>2, <2>3, <1>9, <1>11 DEF ReleaseRing
  <2>5. DataInv'
    BY <1>3, <1>4, <1>5, <1>10, <1>12 DEF DataInv
  <2> QED BY <2>4, <2>5, <1>5, <1>6, <1>12 DEF Ring
<1>13. CASE src_state' = "IDLE" /\ ~ack_src
  <2>1. ~ack /\ \A i \in Stage : ~ack_sync[i]
    BY <1>1, <1>13, Flops DEF ReleaseRing, Falling, ack_src
  <2>2. ~ack' /\ ~a
    BY <2>1, <1>3, <1>8
  <2>3. \A i \in Stage : ~ack_sync'[i]
    <3>1. CASE UNCHANGED srcVars
      BY <3>1, <1>13 DEF srcVars
    <3>2. CASE SrcZero'
      BY <3>2 DEF SrcZero
    <3>3. CASE /\ ack_sync'[1] = a
               /\ \A i \in Stage : i # 1 => ack_sync'[i] = ack_sync[i - 1]
      BY <3>3, <2>1, <2>2, Flops
    <3> QED BY <3>1, <3>2, <3>3, SrcCases
  <2>4. IdleRing'
    BY <2>2, <2>3, <1>9 DEF IdleRing
  <2>5. DataInv'
    BY <2>2, <1>10, <1>13 DEF DataInv
  <2> QED BY <2>4, <2>5, <1>5, <1>6, <1>13 DEF Ring
<1> QED BY <1>6, <1>12, <1>13

\* The three cases together.
LEMMA RingStep ==
  ASSUME TypeOK, TypeOK', ZeroInv, ~Stale, Ring, DataInv, ClockStep
  PROVE  Ring' /\ DataInv'
<1>1. PICK a \in BOOLEAN, r \in BOOLEAN, w \in Offers :
        SrcMove(a) /\ DstMove(r, w) /\ Sampling(a, r, w)
  BY DEF ClockStep
<1>2. CASE src_state = "IDLE"
  BY <1>1, <1>2, IdleStep
<1>3. CASE src_state = "REQ"
  BY <1>1, <1>3, ReqStep
<1>4. CASE src_state = "RELEASE"
  BY <1>1, <1>4, ReleaseStep
<1> QED BY <1>2, <1>3, <1>4 DEF TypeOK

-----------------------------------------------------------------------------
(* Resets, and the invariance of IInv.                                     *)

\* Two domains both clear have an empty loop between them.
LEMMA ZeroRing == SrcZero /\ DstZero => Ring /\ DataInv
  BY DEF SrcZero, DstZero, Ring, IdleRing, DataInv

LEMMA InitInv == Init => IInv
<1> SUFFICES ASSUME Init PROVE IInv
  OBVIOUS
<1>1. TypeOK
  <2>1. owed \in Seq(Offers)
    BY DEF Init
  <2> QED BY <2>1, FilledFlops DEF Init, TypeOK, Phases, Offers
<1> QED BY <1>1 DEF Init, IInv, PhaseInv, ZeroInv, Stale

LEMMA TickInv ==
  IInv /\ TypeOK' /\ (SrcTick \/ DstTick \/ BothTick) => IInv'
<1> SUFFICES ASSUME IInv, TypeOK', SrcTick \/ DstTick \/ BothTick PROVE IInv'
  OBVIOUS
<1>0. TypeOK /\ PhaseInv /\ ZeroInv /\ (~Stale => Ring /\ DataInv)
  BY DEF IInv
<1>1. PICK s, d \in BOOLEAN :
        /\ src_phase' = NextPhase(src_phase, s, d)
        /\ dst_phase' = NextPhase(dst_phase, d, s)
        /\ s => \E offer \in Offers, a \in BOOLEAN : SrcEdge(offer, a)
        /\ d => \E r \in BOOLEAN, w \in Offers : DstEdge(r, w)
        /\ ~s => UNCHANGED srcVars
        /\ ~d => UNCHANGED dstVars
  BY <1>0, TickIsClockStep
<1>2. /\ src_phase' \in {src_phase, "clear", "seen"} /\ (src_phase = "run" <=> src_phase' = "run")
      /\ dst_phase' \in {dst_phase, "clear", "seen"} /\ (dst_phase = "run" <=> dst_phase' = "run")
      /\ src_phase = "stale" => src_phase' = IF s THEN "clear" ELSE "stale"
      /\ dst_phase = "stale" => dst_phase' = IF d THEN "clear" ELSE "stale"
      /\ src_phase # "stale" => src_phase' # "stale"
      /\ dst_phase # "stale" => dst_phase' # "stale"
  BY <1>0, <1>1 DEF NextPhase, TypeOK, Phases
<1>3. PhaseInv'
  BY <1>0, <1>1, <1>2 DEF PhaseInv, NextPhase, TypeOK, Phases
<1>4. src_phase' \in {"clear", "seen"} => SrcZero'
  <2>1. SUFFICES ASSUME src_phase' \in {"clear", "seen"} PROVE SrcZero'
    OBVIOUS
  <2>2. src_phase # "run"
    BY <1>2, <2>1
  <2>3. CASE s
    <3>1. src_state' = "IDLE" /\ req' = FALSE /\ ack_sync' = Filled(FALSE)
      BY <1>1, <2>2, <2>3 DEF SrcEdge
    <3> QED BY <3>1, FilledFlops DEF SrcZero
  <2>4. CASE ~s
    <3>1. src_phase \in {"clear", "seen"}
      BY <1>0, <1>2, <2>1, <2>2, <2>4 DEF TypeOK, Phases
    <3> QED BY <3>1, <1>0, <1>1, <2>4 DEF ZeroInv, SrcZero, srcVars
  <2> QED BY <2>3, <2>4
<1>5. dst_phase' \in {"clear", "seen"} => DstZero'
  <2>1. SUFFICES ASSUME dst_phase' \in {"clear", "seen"} PROVE DstZero'
    OBVIOUS
  <2>2. dst_phase # "run"
    BY <1>2, <2>1
  <2>3. CASE d
    <3>1. ack' = FALSE /\ capture' = FALSE /\ req_sync' = Filled(FALSE)
      BY <1>1, <2>2, <2>3 DEF DstEdge
    <3> QED BY <3>1, FilledFlops DEF DstZero
  <2>4. CASE ~d
    <3>1. dst_phase \in {"clear", "seen"}
      BY <1>0, <1>2, <2>1, <2>2, <2>4 DEF TypeOK, Phases
    <3> QED BY <3>1, <1>0, <1>1, <2>4 DEF ZeroInv, DstZero, dstVars
  <2> QED BY <2>3, <2>4
<1>6. ~Stale' => Ring' /\ DataInv'
  <2>1. CASE ~Stale
    BY <1>0, <2>1, RingStep, TickIsClockStep
  <2>2. CASE Stale
    <3>1. SUFFICES ASSUME ~Stale' PROVE Ring' /\ DataInv'
      OBVIOUS
    <3>2. src_phase' \in {"clear", "seen"} /\ dst_phase' \in {"clear", "seen"}
      BY <3>1, <2>2, <1>0, <1>2 DEF Stale, PhaseInv, TypeOK, Phases
    <3>3. SrcZero' /\ DstZero'
      BY <3>2, <1>4, <1>5
    <3> QED BY <3>3 DEF SrcZero, DstZero, Ring, IdleRing, DataInv
  <2> QED BY <2>1, <2>2
<1> QED BY <1>3, <1>4, <1>5, <1>6 DEF IInv, ZeroInv

LEMMA ResetInv ==
  ResetContract /\ IInv /\ TypeOK' /\ (AssertReset \/ ReleaseSrc \/ ReleaseDst) => IInv'
<1> SUFFICES ASSUME ResetContract, IInv, TypeOK', AssertReset \/ ReleaseSrc \/ ReleaseDst
             PROVE  IInv'
  OBVIOUS
<1>0. TypeOK /\ PhaseInv /\ ZeroInv /\ (~Stale => Ring /\ DataInv)
  BY DEF IInv
<1>1. UNCHANGED <<srcVars, dstVars>>
  BY DEF AssertReset, ReleaseSrc, ReleaseDst
<1>2. CASE AssertReset
  <2>1. src_phase' = "stale" /\ dst_phase' = "stale"
    BY <1>2 DEF AssertReset, ResetContract
  <2> QED BY <2>1 DEF IInv, PhaseInv, ZeroInv, Stale
<1>3. CASE ReleaseSrc \/ ReleaseDst
  <2>1. /\ PhaseInv'
        /\ src_phase' \in {src_phase, "run"} /\ dst_phase' \in {dst_phase, "run"}
        /\ Stale <=> Stale'
    BY <1>0, <1>3 DEF ReleaseSrc, ReleaseDst, MayRelease, ResetContract, PhaseInv, Stale
  <2>2. ZeroInv'
    BY <1>0, <1>1, <2>1 DEF ZeroInv, SrcZero, DstZero, srcVars, dstVars
  <2>3. ~Stale => Ring' /\ DataInv'
    BY <1>0, <1>1, Zenon DEF Ring, DataInv, IdleRing, ReqRing, ReleaseRing, Rising, Falling,
                      srcVars, dstVars
  <2> QED BY <2>1, <2>2, <2>3 DEF IInv
<1> QED BY <1>2, <1>3

LEMMA StutterInv == IInv /\ UNCHANGED vars => IInv'
  BY DEF IInv, TypeOK, PhaseInv, ZeroInv, SrcZero, DstZero, Stale, Ring, DataInv, IdleRing,
         ReqRing, ReleaseRing, Rising, Falling, vars, srcVars, dstVars

\* The loop invariant holds in every reachable state.
LEMMA Invariance == ResetContract /\ Spec => []IInv
<1> SUFFICES ASSUME ResetContract PROVE Spec => []IInv
  OBVIOUS
<1>1. IInv /\ [Next]_vars => IInv'
  <2> SUFFICES ASSUME IInv, [Next]_vars PROVE IInv'
    OBVIOUS
  <2>1. TypeOK'
    BY TypeStep DEF IInv
  <2>2. CASE SrcTick \/ DstTick \/ BothTick
    BY <2>1, <2>2, TickInv
  <2>3. CASE AssertReset \/ ReleaseSrc \/ ReleaseDst
    BY <2>1, <2>3, ResetInv
  <2>4. CASE UNCHANGED vars
    BY <2>4, StutterInv
  <2> QED BY <2>2, <2>3, <2>4 DEF Next
<1> QED BY <1>1, InitInv, PTL DEF Spec

-----------------------------------------------------------------------------
(* The results.                                                            *)

\* Every register of the crossing keeps its type, whatever the resets do.
THEOREM TypeCorrect == Spec => []TypeOK
<1>1. Init => TypeOK
  BY InitInv DEF IInv
<1> QED BY <1>1, TypeStep, PTL DEF Spec

\* A strobe presents the accepted word, and the source waits for it to be over.
THEOREM StrobeIntactAlways == ResetContract /\ Spec => []StrobeIntact
<1> SUFFICES ASSUME ResetContract PROVE Spec => []StrobeIntact
  OBVIOUS
<1>1. IInv => StrobeIntact
  BY DEF IInv, DataInv, StrobeIntact
<1> QED BY <1>1, Invariance, PTL

\* A source that is ready again faces an empty crossing.
THEOREM IdleIsAbsoluteAlways == ResetContract /\ Spec => []IdleIsAbsolute
<1> SUFFICES ASSUME ResetContract PROVE Spec => []IdleIsAbsolute
  OBVIOUS
<1>1. IInv => IdleIsAbsolute
  BY DEF IInv, Ring, IdleRing, IdleIsAbsolute, s_ready
<1> QED BY <1>1, Invariance, PTL

\* The account is what the registers say: the word accepted and not yet captured.
undelivered == IF ~Stale /\ src_state = "REQ" /\ ~ack THEN <<src_data>> ELSE << >>

Accounted == owed = undelivered

\* What was entered at a tick is the word that entered the loop, or the one that
\* left it, when neither domain is stale.
LEMMA AccountKept ==
  ASSUME IInv, IInv', ResetContract, Accounted, ~Stale, ~Stale', SrcTick \/ DstTick \/ BothTick
  PROVE  Accounted'
<1>0. TypeOK /\ TypeOK' /\ ZeroInv /\ Ring /\ DataInv /\ Ring' /\ DataInv'
  BY DEF IInv
<1>1. PICK s \in BOOLEAN, d \in BOOLEAN, offer \in Offers, a \in BOOLEAN, r \in BOOLEAN,
           w \in Offers :
        /\ IF s THEN SrcEdge(offer, a) ELSE UNCHANGED srcVars
        /\ IF d THEN DstEdge(r, w) ELSE UNCHANGED dstVars
        /\ Sampling(a, r, w)
        /\ Books(Entered(s, d, offer))
  BY <1>0, AccountStep
<1>2. SrcMove(a) /\ DstMove(r, w)
  BY <1>1 DEF SrcMove, DstMove
<1>3. owed' = Entered(s, d, offer)
  BY <1>1 DEF Books, ResetContract
<1>4. owed = IF src_state = "REQ" /\ ~ack THEN <<src_data>> ELSE << >>
  BY DEF Accounted, undelivered
<1>5. undelivered' = IF src_state' = "REQ" /\ ~ack' THEN <<src_data'>> ELSE << >>
  BY DEF undelivered
<1>6. d => (capture' <=> dst_phase = "run" /\ dst_capture)
  BY <1>1 DEF DstEdge
<1>7. CASE src_state = "IDLE"
  <2>1. ~ack'
    BY <1>0, <1>1, <1>2, <1>7, IdleStep
  <2>2. ~capture'
    BY <1>0, <2>1 DEF DataInv
  <2>3. owed = << >>
    BY <1>4, <1>7
  <2>4. owed' = IF s THEN Taken(<< >>, offer) ELSE << >>
    BY <1>3, <2>2, <2>3 DEF Entered, Strobed
  <2>5. CASE s /\ src_phase = "run" /\ offer # NoData
    <3>1. src_state' = "REQ" /\ src_data' = offer
      BY <1>1, <1>7, <2>5 DEF SrcEdge, SrcFsm, SrcAccept, s_ready
    <3>2. owed' = <<offer>>
      BY <1>7, <2>4, <2>5 DEF Taken, s_ready
    <3> QED BY <1>5, <2>1, <3>1, <3>2 DEF Accounted
  <2>6. CASE ~(s /\ src_phase = "run" /\ offer # NoData)
    <3>1. src_state' = "IDLE"
      BY <1>1, <1>7, <2>6 DEF SrcEdge, SrcFsm, SrcAccept, srcVars
    <3>2. owed' = << >>
      BY <2>4, <2>6 DEF Taken
    <3> QED BY <1>5, <3>1, <3>2 DEF Accounted
  <2> QED BY <2>5, <2>6
<1>8. CASE src_state = "REQ"
  <2>1. /\ src_data' = src_data
        /\ ack => ack'
        /\ \/ src_state' = "REQ"
           \/ src_state' = "RELEASE" /\ ack
    BY <1>0, <1>1, <1>2, <1>8, ReqStep
  <2>2. owed' = IF d THEN Strobed(owed) ELSE owed
    BY <1>3, <1>8 DEF Entered, Taken, s_ready
  <2>3. CASE ack
    <3>1. d => ~capture'
      BY <1>6, <2>3 DEF dst_capture
    <3>2. owed' = << >>
      BY <1>4, <2>2, <2>3, <3>1 DEF Strobed
    <3> QED BY <1>5, <2>1, <2>3, <3>2 DEF Accounted
  <2>4. CASE ~ack
    <3>1. src_state' = "REQ" /\ owed = <<src_data>>
      BY <1>4, <1>8, <2>1, <2>4
    <3>2. d => (ack' <=> capture')
      <4>1. d /\ dst_phase = "run" => (ack' <=> capture')
        <5>1. SUFFICES ASSUME d, dst_phase = "run" PROVE ack' <=> capture'
          OBVIOUS
        <5>2. capture' = dst_capture /\ ack' = (dst_capture \/ (ack /\ req_dst))
          BY <1>1, <5>1 DEF DstEdge
        <5> QED BY <2>4, <5>2
      <4>2. d /\ dst_phase # "run" => ~ack' /\ ~capture'
        BY <1>1 DEF DstEdge
      <4> QED BY <4>1, <4>2
    <3>3. ~d => ~ack'
      BY <1>1, <2>4 DEF dstVars
    <3>4. CASE d /\ capture'
      <4>1. ack' /\ dst_data' = src_data
        BY <1>0, <2>1, <3>1, <3>2, <3>4 DEF DataInv
      <4>2. owed' = << >>
        BY <2>2, <3>1, <3>4, <4>1 DEF Strobed
      <4> QED BY <1>5, <4>1, <4>2 DEF Accounted
    <3>5. CASE ~(d /\ capture')
      <4>1. ~ack'
        BY <3>2, <3>3, <3>5
      <4>2. owed' = owed
        BY <2>2, <3>5 DEF Strobed
      <4> QED BY <1>5, <2>1, <3>1, <4>1, <4>2 DEF Accounted
    <3> QED BY <3>4, <3>5
  <2> QED BY <2>3, <2>4
<1>9. CASE src_state = "RELEASE"
  <2>1. src_state' \in {"RELEASE", "IDLE"}
    BY <1>0, <1>1, <1>2, <1>9, ReleaseStep
  <2>2. req_dst => ack
    BY <1>0, <1>9, Flops DEF Ring, ReleaseRing, req_dst
  <2>3. d => ~capture'
    BY <1>6, <2>2 DEF dst_capture
  <2>4. owed' = << >>
    BY <1>3, <1>4, <1>9, <2>3 DEF Entered, Strobed, Taken, s_ready
  <2> QED BY <1>5, <2>1, <2>4 DEF Accounted
<1> QED BY <1>0, <1>7, <1>8, <1>9 DEF TypeOK

\* When the last of the two leaves "stale" the loop is empty and nothing is owed.
LEMMA AccountOpens ==
  ASSUME IInv, IInv', ResetContract, Accounted, Stale, ~Stale', SrcTick \/ DstTick \/ BothTick
  PROVE  Accounted'
<1>0. TypeOK /\ PhaseInv /\ ZeroInv'
  BY DEF IInv
<1>1. PICK s \in BOOLEAN, d \in BOOLEAN, offer \in Offers, a \in BOOLEAN, r \in BOOLEAN,
           w \in Offers :
        /\ src_phase' = NextPhase(src_phase, s, d)
        /\ dst_phase' = NextPhase(dst_phase, d, s)
        /\ IF s THEN SrcEdge(offer, a) ELSE UNCHANGED srcVars
        /\ IF d THEN DstEdge(r, w) ELSE UNCHANGED dstVars
        /\ Books(Entered(s, d, offer))
  BY <1>0, AccountStep
<1>2. /\ src_phase' \in {"clear", "seen"}
      /\ src_phase # "run" /\ dst_phase # "run"
  BY <1>0, <1>1 DEF Stale, PhaseInv, NextPhase, TypeOK, Phases
<1>3. src_state' = "IDLE"
  BY <1>0, <1>2 DEF ZeroInv, SrcZero
<1>4. owed = << >>
  BY DEF Accounted, undelivered
<1>5. d => ~capture'
  BY <1>1, <1>2 DEF DstEdge
<1>6. owed' = << >>
  BY <1>1, <1>2, <1>4, <1>5 DEF Books, Entered, Strobed, Taken
<1> QED BY <1>3, <1>6 DEF Accounted, undelivered

LEMMA AccountStays ==
  ASSUME IInv, IInv', ResetContract, Accounted, [Next]_vars
  PROVE  Accounted'
<1>0. TypeOK /\ PhaseInv
  BY DEF IInv
<1>1. CASE UNCHANGED vars
  BY <1>1 DEF Accounted, undelivered, vars, srcVars, dstVars, Stale
<1>2. CASE SrcTick \/ DstTick \/ BothTick
  <2>1. CASE Stale'
    <3>1. owed' = << >>
      BY <1>0, <1>2, <2>1, AccountStep DEF Books
    <3> QED BY <2>1, <3>1 DEF Accounted, undelivered
  <2> QED BY <1>2, <2>1, AccountKept, AccountOpens
<1>3. CASE AssertReset
  BY <1>3 DEF AssertReset, Accounted, undelivered, Stale
<1>4. CASE ReleaseSrc \/ ReleaseDst
  <2>1. UNCHANGED <<src_state, ack, src_data, owed>>
    BY <1>4 DEF ReleaseSrc, ReleaseDst, srcVars, dstVars
  <2>2. Stale <=> Stale'
    BY <1>0, <1>4 DEF ReleaseSrc, ReleaseDst, MayRelease, Stale, ResetContract, PhaseInv
  <2> QED BY <2>1, <2>2 DEF Accounted, undelivered
<1> QED BY <1>1, <1>2, <1>3, <1>4 DEF Next

\* A step of the crossing is a step of a one-place queue, or none.
LEMMA ChannelStep ==
  ASSUME IInv, IInv', Accounted, Accounted', [Next]_vars
  PROVE  [Channel!Next]_owed
<1> owed = undelivered /\ owed' = undelivered'
  BY DEF Accounted
<1>0. TypeOK /\ TypeOK' /\ PhaseInv /\ ZeroInv /\ ZeroInv' /\ (~Stale => Ring /\ DataInv)
  BY DEF IInv
<1>1. CASE UNCHANGED vars
  <2>1. UNCHANGED <<src_phase, dst_phase, src_state, ack, src_data>>
    BY <1>1 DEF vars, srcVars, dstVars
  <2> QED BY <2>1 DEF undelivered, Stale
<1>2. CASE Stale'
  BY <1>2 DEF undelivered, Channel!Next, Channel!Clear
<1>3. CASE ~Stale' /\ (ReleaseSrc \/ ReleaseDst)
  <2>1. UNCHANGED <<src_state, ack, src_data>> /\ ~Stale
    BY <1>0, <1>3 DEF ReleaseSrc, ReleaseDst, srcVars, dstVars, MayRelease, Stale, PhaseInv
  <2> QED BY <1>3, <2>1 DEF undelivered
<1>4. CASE ~Stale' /\ (SrcTick \/ DstTick \/ BothTick)
  <2>0. undelivered' = IF src_state' = "REQ" /\ ~ack' THEN <<src_data'>> ELSE << >>
    BY <1>4 DEF undelivered
  <2>1. CASE Stale
    <3>1. src_phase' # "run" \/ dst_phase' # "run"
      BY <1>0, <1>4, <2>1, TickIsClockStep DEF Stale, NextPhase, PhaseInv
    <3>2. src_phase' \in {"clear", "seen"}
      <4>1. PICK s, d \in BOOLEAN :
              /\ src_phase' = NextPhase(src_phase, s, d)
              /\ dst_phase' = NextPhase(dst_phase, d, s)
        BY <1>0, <1>4, TickIsClockStep
      <4> QED BY <4>1, <1>0, <1>4, <2>1 DEF Stale, NextPhase, PhaseInv
    <3>3. src_state' = "IDLE"
      BY <3>2, <1>0 DEF ZeroInv, SrcZero
    <3> QED BY <2>0, <3>3 DEF Channel!Next, Channel!Clear
  <2>2. CASE ~Stale
    <3>0. undelivered = IF src_state = "REQ" /\ ~ack THEN <<src_data>> ELSE << >>
      BY <2>2 DEF undelivered
    <3>1. PICK a \in BOOLEAN, r \in BOOLEAN, w \in Offers :
            SrcMove(a) /\ DstMove(r, w) /\ Sampling(a, r, w)
      BY <1>0, <1>4, TickIsClockStep DEF ClockStep
    <3>2. CASE src_state = "IDLE"
      <4>1. /\ ~ack'
            /\ \/ src_state' = "IDLE"
               \/ src_state' = "REQ" /\ src_data' \in Data
        BY <1>0, <2>2, <3>1, <3>2, IdleStep
      <4>2. undelivered = << >>
        BY <3>0, <3>2
      <4>3. CASE src_state' = "IDLE"
        BY <4>2, <4>3, <2>0
      <4>4. CASE src_state' = "REQ" /\ src_data' \in Data
        <5>1. undelivered' = Append(undelivered, src_data') /\ Len(undelivered) < 1
          BY <4>1, <4>2, <4>4, <2>0
        <5> QED BY <4>4, <5>1 DEF Channel!Next, Channel!Put
      <4> QED BY <4>1, <4>3, <4>4
    <3>3. CASE src_state = "REQ"
      <4>1. /\ src_data' = src_data
            /\ ack => ack'
            /\ \/ src_state' = "REQ"
               \/ src_state' = "RELEASE" /\ ack
        BY <1>0, <2>2, <3>1, <3>3, ReqStep
      <4>2. CASE ack \/ ~ack'
        BY <4>1, <4>2, <2>0, <3>0, <3>3
      <4>3. CASE ~ack /\ ack'
        <5>1. undelivered = <<src_data>> /\ undelivered' = << >>
          BY <4>1, <4>3, <2>0, <3>0, <3>3
        <5> QED BY <5>1 DEF Channel!Next, Channel!Get
      <4> QED BY <4>2, <4>3
    <3>4. CASE src_state = "RELEASE"
      <4>1. src_state' \in {"RELEASE", "IDLE"}
        BY <1>0, <2>2, <3>1, <3>4, ReleaseStep
      <4> QED BY <4>1, <2>0, <3>0, <3>4
    <3> QED BY <3>2, <3>3, <3>4, <1>0 DEF TypeOK
  <2> QED BY <2>1, <2>2
<1>5. CASE AssertReset
  BY <1>5, <1>2, <1>1 DEF AssertReset, Stale
<1> QED BY <1>1, <1>2, <1>3, <1>4, <1>5 DEF Next

\* Exactly-once delivery: what the two faces show is a one-place queue.
THEOREM HandshakeIsChannel == ResetContract /\ Spec => IsChannel
<1> SUFFICES ASSUME ResetContract PROVE Spec => Channel!Spec
  BY DEF IsChannel
<1>1. Init => Channel!Init /\ Accounted
  BY DEF Init, Channel!Init, Accounted, undelivered, Stale
<1>2. IInv /\ IInv' /\ Accounted /\ [Next]_vars => Accounted'
  BY AccountStays
<1>3. IInv /\ IInv' /\ Accounted /\ Accounted' /\ [Next]_vars => [Channel!Next]_owed
  BY ChannelStep
<1> QED BY <1>1, <1>2, <1>3, Invariance, PTL DEF Spec, Channel!Spec
=============================================================================
