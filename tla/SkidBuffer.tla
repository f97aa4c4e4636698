----------------------------- MODULE SkidBuffer -----------------------------
(***************************************************************************)
(* rtl/stream/stream_skid_buffer.sv: two beats of storage, registered in   *)
(* both directions.  A register is the beat it holds, or NoData when its   *)
(* valid bit is low.                                                       *)
(***************************************************************************)
EXTENDS Naturals, Sequences

CONSTANTS Data, NoData

VARIABLES out,    \* out_valid_q, out_payload_q
          skid,   \* skid_valid_q, skid_payload_q
          rdy     \* rdy_q

vars == <<out, skid, rdy>>

Words   == Data \cup {NoData}
s_ready == rdy
m_word  == out

\* Wrong on purpose: ready ignored.
AcceptAny(word)       == word # NoData

Accept(word)     == rdy /\ word # NoData
SlotFree(ready)  == out = NoData \/ ready

\* One rising edge: the upstream offers `word`, the downstream is `ready`.
Clock(word, ready) ==
  /\ \/ /\ SlotFree(ready) /\ skid # NoData       \* drain the skid slot first
        /\ out' = skid
        /\ skid' = IF Accept(word) THEN word ELSE NoData
     \/ /\ SlotFree(ready) /\ skid = NoData
        /\ out' = IF Accept(word) THEN word ELSE NoData
        /\ skid' = NoData
     \/ /\ ~SlotFree(ready)
        /\ out' = out
        /\ skid' = IF Accept(word) THEN word ELSE skid
  /\ rdy' = (skid' = NoData)

ResetEdge == out' = NoData /\ skid' = NoData /\ rdy' = FALSE

Init == out = NoData /\ skid = NoData /\ rdy = FALSE

Next == \/ \E word \in Words, ready \in BOOLEAN : Clock(word, ready)
        \/ ResetEdge

Spec == Init /\ [][Next]_vars

-----------------------------------------------------------------------------

TypeOK == out \in Words /\ skid \in Words /\ rdy \in BOOLEAN

Beat(word) == IF word = NoData THEN << >> ELSE <<word>>
held == Beat(out) \o Beat(skid)
=============================================================================
