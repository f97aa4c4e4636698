---------------------------- MODULE CdcHandshake ----------------------------
(***************************************************************************)
(* rtl/cdc/cdc_handshake.sv: one value at a time between unrelated clocks, *)
(* by a four-phase request and acknowledge.  A step is a rising edge of    *)
(* src_clk, of dst_clk, or of both at once, or a change of a reset.        *)
(***************************************************************************)
EXTENDS Naturals, Sequences, ClockDomains

CONSTANTS
  Data,      \* payload words
  NoData,    \* the contents of a payload register nothing has written
  OneSided   \* a domain may be reset on its own

ASSUME OneSidedAssumption == OneSided \in BOOLEAN
ASSUME PayloadAssumption  == NoData \notin Data

VARIABLES
  src_phase,  \* progress of the source domain through the current reset
  src_state,  \* src_state_q
  req,        \* req_q
  src_data,   \* src_data_q
  ack_sync,   \* u_sync_ack
  dst_phase,
  req_sync,   \* u_sync_req
  ack,        \* ack_q
  capture,    \* capture_q, the d_valid strobe
  dst_data,   \* dst_data_q
  owed        \* history: the words taken at the source's face and not yet strobed
              \* at the destination's (no register of the code)

srcVars == <<src_state, req, src_data, ack_sync>>
dstVars == <<req_sync, ack, capture, dst_data>>
vars    == <<src_phase, dst_phase, srcVars, dstVars, owed>>

Offers  == Data \cup {NoData}   \* NoData: s_valid is low
Running == src_phase = "run" /\ dst_phase = "run"
Stale   == "stale" \in {src_phase, dst_phase}

-----------------------------------------------------------------------------
(* The source domain.                                                      *)

ack_src == ack_sync[SyncStages]
s_ready == src_state = "IDLE"

SrcAccept(offer) == s_ready /\ offer # NoData

\* Wrong on purpose: the request is released without the third phase, or into the
\* enumeration's unused code.
SrcFsmTwoPhase(offer) ==
  \/ /\ src_state = "IDLE"
     /\ src_state' = IF SrcAccept(offer) THEN "REQ" ELSE "IDLE"
     /\ req' = IF SrcAccept(offer) THEN TRUE ELSE req
  \/ /\ src_state = "REQ"
     /\ src_state' = IF ack_src THEN "IDLE" ELSE "REQ"
     /\ req' = IF ack_src THEN FALSE ELSE req

SrcFsmUnused(offer) ==
  /\ src_state' = IF ack_src THEN "3" ELSE IF SrcAccept(offer) THEN "REQ" ELSE src_state
  /\ req' = (SrcAccept(offer) \/ req)

\* The three phases of a transfer as the source sees them: the request and
\* the state after an edge out of reset.
SrcFsm(offer) ==
  \/ /\ src_state = "IDLE"
     /\ src_state' = IF SrcAccept(offer) THEN "REQ" ELSE "IDLE"
     /\ req' = IF SrcAccept(offer) THEN TRUE ELSE req
  \/ /\ src_state = "REQ"
     /\ src_state' = IF ack_src THEN "RELEASE" ELSE "REQ"
     /\ req' = IF ack_src THEN FALSE ELSE req
  \/ /\ src_state = "RELEASE"
     /\ src_state' = IF ack_src THEN "RELEASE" ELSE "IDLE"
     /\ req' = req

\* One rising edge of src_clk; `bit` is what the first synchronizer flop takes.
SrcEdge(offer, bit) ==
  /\ src_data' = IF SrcAccept(offer) THEN offer ELSE src_data
  /\ \/ /\ src_phase # "run"
        /\ src_state' = "IDLE" /\ req' = FALSE /\ ack_sync' = Filled(FALSE)
     \/ /\ src_phase = "run"
        /\ SrcFsm(offer)
        /\ ack_sync' = Shift(ack_sync, bit)

-----------------------------------------------------------------------------
(* The destination domain.                                                 *)

req_dst     == req_sync[SyncStages]
dst_capture == ~ack /\ req_dst

\* Wrong on purpose: the strobe lasts as long as the request.
DstEdgeLevel(bit, word) ==
  /\ dst_data' = IF dst_capture THEN word ELSE dst_data
  /\ \/ /\ dst_phase # "run"
        /\ ack' = FALSE /\ capture' = FALSE /\ req_sync' = Filled(FALSE)
     \/ /\ dst_phase = "run"
        /\ capture' = req_dst
        /\ ack' = (dst_capture \/ (ack /\ req_dst))
        /\ req_sync' = Shift(req_sync, bit)

\* Wrong on purpose: the acknowledge never falls.
DstEdgeStuck(bit, word) ==
  /\ dst_data' = IF dst_capture THEN word ELSE dst_data
  /\ \/ /\ dst_phase # "run"
        /\ ack' = FALSE /\ capture' = FALSE /\ req_sync' = Filled(FALSE)
     \/ /\ dst_phase = "run"
        /\ capture' = dst_capture /\ ack' = (dst_capture \/ ack)
        /\ req_sync' = Shift(req_sync, bit)

\* One rising edge of dst_clk; `word` is what a payload register would take.
DstEdge(bit, word) ==
  /\ dst_data' = IF dst_capture THEN word ELSE dst_data
  /\ \/ /\ dst_phase # "run"
        /\ ack' = FALSE /\ capture' = FALSE /\ req_sync' = Filled(FALSE)
     \/ /\ dst_phase = "run"
        /\ capture' = dst_capture
        /\ ack' = (dst_capture \/ (ack /\ req_dst))
        /\ req_sync' = Shift(req_sync, bit)

-----------------------------------------------------------------------------
(* What the two faces show.  Every destination edge with the strobe up is  *)
(* a delivery.  One that presents anything but the word owed leaves NoData *)
(* in the account, which no source ever sends.                             *)

Taken(account, offer) ==
  IF src_phase = "run" /\ s_ready /\ offer # NoData THEN Append(account, offer) ELSE account

Strobed(account) ==
  IF ~capture' THEN account
  ELSE IF account # << >> /\ Head(account) = dst_data' THEN Tail(account)
  ELSE <<NoData>>

\* A reset forgives what is owed; where one side is reset alone nothing is promised.
Books(account) == owed' = IF OneSided \/ Stale' THEN << >> ELSE account

-----------------------------------------------------------------------------
(* Clocks and resets.                                                      *)

SrcTick ==
  /\ src_phase' = NextPhase(src_phase, TRUE, FALSE)
  /\ dst_phase' = NextPhase(dst_phase, FALSE, TRUE)
  /\ \E offer \in Offers : SrcEdge(offer, ack) /\ Books(Taken(owed, offer))
  /\ UNCHANGED dstVars

DstTick ==
  /\ src_phase' = NextPhase(src_phase, FALSE, TRUE)
  /\ dst_phase' = NextPhase(dst_phase, TRUE, FALSE)
  /\ DstEdge(req, src_data) /\ Books(Strobed(owed))
  /\ UNCHANGED srcVars

\* Simultaneous edges: a synchronizer flop takes the old or the new level, and
\* a payload register that samples a word being replaced takes any word.
BothTick ==
  /\ src_phase' = NextPhase(src_phase, TRUE, TRUE)
  /\ dst_phase' = NextPhase(dst_phase, TRUE, TRUE)
  /\ \E offer \in Offers, a, r \in BOOLEAN, w \in Offers :
       /\ SrcEdge(offer, a)
       /\ DstEdge(r, w)
       /\ a \in {ack, ack'} /\ r \in {req, req'}
       /\ src_data' = src_data => w = src_data
       /\ Books(Taken(Strobed(owed), offer))

AssertReset ==
  /\ \/ src_phase' = "stale" /\ dst_phase' = "stale"
     \/ OneSided /\ src_phase' = "stale" /\ UNCHANGED dst_phase
     \/ OneSided /\ dst_phase' = "stale" /\ UNCHANGED src_phase
  /\ owed' = << >>
  /\ UNCHANGED <<srcVars, dstVars>>

ReleaseSrc == /\ MayRelease(src_phase)
              /\ src_phase' = "run"
              /\ UNCHANGED <<dst_phase, srcVars, dstVars, owed>>

ReleaseDst == /\ MayRelease(dst_phase)
              /\ dst_phase' = "run"
              /\ UNCHANGED <<src_phase, srcVars, dstVars, owed>>

Init ==
  /\ src_phase = "stale" /\ dst_phase = "stale"
  /\ src_state = "IDLE" /\ req = FALSE /\ src_data = NoData
  /\ ack = FALSE /\ capture = FALSE /\ dst_data = NoData
  /\ ack_sync = Filled(FALSE) /\ req_sync = Filled(FALSE)
  /\ owed = << >>

Next == SrcTick \/ DstTick \/ BothTick \/ AssertReset \/ ReleaseSrc \/ ReleaseDst

Spec == Init /\ [][Next]_vars

-----------------------------------------------------------------------------
(* Properties.                                                             *)

TypeOK ==
  /\ src_phase \in Phases /\ dst_phase \in Phases
  /\ src_state \in {"IDLE", "REQ", "RELEASE"}
  /\ req \in BOOLEAN /\ ack \in BOOLEAN /\ capture \in BOOLEAN
  /\ ack_sync \in [Stage -> BOOLEAN] /\ req_sync \in [Stage -> BOOLEAN]
  /\ src_data \in Offers /\ dst_data \in Offers /\ owed \in Seq(Offers)

Channel == INSTANCE FifoSpec WITH q <- owed, Cap <- 1

\* Seen from its two faces the crossing is a one-place queue that a reset empties:
\* every word taken is strobed, for one edge, before the next is taken, and no
\* strobe presents a word that was not taken or was presented before
\* (a_no_phantom_transfer).
IsChannel == Channel!Spec

\* The payload register is never sampled while it may change: what a strobe
\* presents is the word the source accepted, still held there, and the source
\* cannot be ready for another before the strobe is over (a_hs_data_stable,
\* a_hs_req_held: the window the whole crossing rests on).
StrobeIntact ==
  ~Stale => /\ capture => ack /\ src_state # "IDLE"
            /\ ack /\ src_state # "IDLE" => dst_data = src_data

\* "An absolute idle state": a source that is ready again faces a crossing in
\* which no trace of the last transfer is left in either domain or on its way.
IdleIsAbsolute ==
  ~Stale /\ s_ready => ~req /\ ~ack /\ \A i \in Stage : ~req_sync[i] /\ ~ack_sync[i]

-----------------------------------------------------------------------------
(* Liveness: both oscillators run (fairness: MCPrimitives).                *)

\* Whichever domain was reset, on its own or with the other, and however short
\* the reset: once both run the crossing never wedges.  A transfer in flight
\* ends and the source becomes ready again (a_hs_completes, and the reason the
\* header gives for four phases).
NeverWedges == <>[]Running => []<>s_ready
=============================================================================
