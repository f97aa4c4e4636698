----------------------------- MODULE HistoryCore -----------------------------
(***************************************************************************)
(* rtl/memory/history_core.sv with its banks (history_bank.sv): the ring   *)
(* of frames every antenna writes in core_clk and the beamformer path      *)
(* reads, one bin of all antennas at a time, in history_clk.               *)
(*                                                                         *)
(* A step is a rising edge of core_clk (CoreEdge), a rising edge of        *)
(* history_clk (HistEdge), or the return of the acknowledge inside the     *)
(* publication crossing.  The crossing is a channel of one bundle, which   *)
(* is what CdcHandshake shows of the module it instantiates.  There is one *)
(* lane, so a bin is a beat.  A stored word is named by where it came      *)
(* from: the epoch, frame and source beat it was accepted in.              *)
(***************************************************************************)
EXTENDS Integers, FiniteSets

CONSTANTS
  Ant,          \* the antennas, N_ANT of them
  Beats,        \* M, beats per frame
  FramesMax,    \* parameter FRAMES_MAX
  OutDepth,     \* localparam OUT_DEPTH, the credits of the read side
  ForceUnsafe,  \* cfg_force_unsafe
  Requests,     \* the <<frame offset, bin>> pairs the reader asks for
  DepthWrites,  \* the values software writes to cfg_depth and applies
  Quiesce,      \* sources and reader pause around a depth change
  FrameLimit,   \* bound: frames an antenna sends in one epoch
  EpochLimit    \* bound: depth changes

ASSUME GeometryAssumption == /\ Ant # {} /\ Beats \in Nat \ {0, 1}
                             /\ FramesMax \in Nat \ {0, 1} /\ OutDepth \in Nat \ {0}
ASSUME EnvAssumption == /\ ForceUnsafe \in BOOLEAN /\ Quiesce \in BOOLEAN
                        /\ Requests \subseteq Nat \X (0 .. Beats - 1)
                        /\ DepthWrites \subseteq Nat
                        /\ {FrameLimit, EpochLimit} \subseteq Nat

VARIABLES
  src_beat,     \* the source's own place in its frame (sof = 0, eof = Beats-1)
  in_frame, beat, slot, frame,          \* in_frame_q, beat_q, slot_q, frame_q
  wr,           \* wr_en_q, wr_addr_q, wr_word_q
  bank_wr,      \* the input register of each antenna's bank
  mem,          \* the banks
  depth, depth_req, depth_pending, epoch,
  frames_done, done_slot,
  overwrites,   \* u_cnt_overwrite
  skew,         \* skew_q
  fault,        \* fault_q[3:2]: the framing and skew bits
  pub_sent, pub_dirty,
  crossing,     \* u_pub
  view,         \* the published view, h_*_q
  seen_epoch,   \* the epoch `view` was published in (no register of the code)
  credit,       \* credit_q
  pipe,         \* r1, the bank's input register, mem_q, out_q, with metadata
  held          \* responses in u_out

writeVars == <<src_beat, in_frame, beat, slot, frame, wr, bank_wr, mem>>
depthVars == <<depth, depth_req, depth_pending, epoch>>
barVars   == <<frames_done, done_slot, overwrites, skew, fault>>
pubVars   == <<pub_sent, pub_dirty>>
readVars  == <<view, seen_epoch, credit, pipe, held>>
vars == <<writeVars, depthVars, barVars, pubVars, crossing, readVars>>

None    == [none |-> TRUE]
NoWord  == <<>>
NoWords == [a \in Ant |-> NoWord]

SlotSucc(s, d) == IF s + 1 = d THEN 0 ELSE s + 1
Lesser(x, y)   == IF x <= y THEN x ELSE y
Minus2(d)      == IF d <= 2 THEN 0 ELSE d - 2

-----------------------------------------------------------------------------
(* Write side, core_clk.                                                   *)

\* Wrong on purpose: a change lands mid-frame.
anytime == TRUE

at_safe_boundary == \A a \in Ant : ~in_frame[a]
depth_apply      == depth_pending /\ at_safe_boundary

sof(a) == src_beat[a] = 0
eof(a) == src_beat[a] = Beats - 1

framing_err(fire) ==
  \E a \in fire : \/ eof(a) # (beat[a] = Beats - 1)
                  \/ sof(a) # (beat[a] = 0)

\* `fire` is the set of antennas whose beat is accepted; nothing refuses one.
Sequencers(fire) ==
  /\ src_beat' = [a \in Ant |-> IF a \in fire THEN (src_beat[a] + 1) % Beats
                                ELSE src_beat[a]]
  /\ \/ /\ depth_apply
        /\ beat' = [a \in Ant |-> 0] /\ slot' = [a \in Ant |-> 0]
        /\ frame' = [a \in Ant |-> 0] /\ in_frame' = [a \in Ant |-> FALSE]
        /\ wr' = [a \in Ant |-> None]
     \/ /\ ~depth_apply
        /\ beat' = [a \in Ant |-> IF a \notin fire THEN beat[a]
                                  ELSE IF eof(a) THEN 0 ELSE (beat[a] + 1) % Beats]
        /\ slot' = [a \in Ant |-> IF a \in fire /\ eof(a) THEN SlotSucc(slot[a], depth)
                                  ELSE slot[a]]
        /\ frame' = [a \in Ant |-> IF a \in fire /\ eof(a) THEN frame[a] + 1
                                   ELSE frame[a]]
        /\ in_frame' = [a \in Ant |-> IF a \in fire THEN ~eof(a) ELSE in_frame[a]]
        /\ wr' = [a \in Ant |->
                    IF a \in fire
                    THEN [slot |-> slot[a], beat |-> beat[a],
                          word |-> <<epoch, frame[a], src_beat[a]>>]
                    ELSE None]

\* Two more edges take the word through the bank's input register to the array.
BankWrite ==
  /\ bank_wr' = wr
  /\ mem' = [a \in Ant |-> IF bank_wr[a] = None THEN mem[a]
                           ELSE [mem[a] EXCEPT ![<<bank_wr[a].slot, bank_wr[a].beat>>]
                                   = bank_wr[a].word]]

\* Wrong on purpose: the first antenna through opens the barrier.
any_past_barrier == \E a \in Ant : frame[a] # frames_done

all_past_barrier == \A a \in Ant : frame[a] # frames_done
skew_now         == \E a \in Ant : frame[a] - frames_done >= depth
frames_done_inc  == all_past_barrier /\ ~depth_apply

overwrite_event  == frames_done_inc /\ frames_done >= depth

Barrier(fire) ==
  /\ skew' = (skew_now /\ ~depth_apply)
  /\ fault' = [framing |-> fault.framing \/ framing_err(fire),
               skew    |-> fault.skew \/ (skew_now /\ ~skew)]
  /\ overwrites' = IF overwrite_event THEN overwrites + 1 ELSE overwrites
  /\ frames_done' = IF depth_apply THEN 0
                    ELSE IF frames_done_inc THEN frames_done + 1 ELSE frames_done
  /\ done_slot' = IF depth_apply THEN 0
                  ELSE IF frames_done_inc /\ frames_done # 0
                       THEN SlotSucc(done_slot, depth) ELSE done_slot

depth_clamped(d) == IF d = 0 THEN 1 ELSE Lesser(d, FramesMax)

\* `write` holds the cfg_depth value of a cfg_depth_apply strobe, if there is one.
DepthControl(write) ==
  /\ depth_req' = IF write = {} THEN depth_req ELSE depth_clamped(CHOOSE d \in write : TRUE)
  /\ depth_pending' = ((depth_pending \/ write # {}) /\ ~depth_apply)
  /\ depth' = IF depth_apply THEN depth_req ELSE depth
  /\ epoch' = IF depth_apply THEN epoch + 1 ELSE epoch

\* Wrong on purpose: the bound the header calls wrong for a reason.
readable_m1 == Lesser(frames_done, depth - 1)

readable == Lesser(frames_done, Minus2(depth))

\* Wrong on purpose: the depth that was asked for, not the one in force.
bundle_of_request ==
  [unsafe |-> ForceUnsafe, readable |-> readable, depth |-> depth_req,
   done_slot |-> done_slot, frames_done |-> frames_done]

pub_bundle == [unsafe |-> ForceUnsafe, readable |-> readable, depth |-> depth,
               done_slot |-> done_slot, frames_done |-> frames_done]

\* Wrong on purpose: a change is taken for sent while the crossing is busy.
PublisherForgets ==
  \/ /\ pub_dirty
     /\ pub_sent' = pub_bundle /\ pub_dirty' = FALSE
     /\ crossing' = IF crossing.state = "idle"
                    THEN [state |-> "req", bundle |-> pub_bundle, epoch |-> epoch]
                    ELSE crossing
  \/ /\ ~pub_dirty
     /\ pub_dirty' = (pub_bundle # pub_sent)
     /\ UNCHANGED <<pub_sent, crossing>>

\* The epoch rides along for the properties only; the code does not send it.
Publisher ==
  \/ /\ pub_dirty /\ crossing.state = "idle"
     /\ pub_sent' = pub_bundle /\ pub_dirty' = FALSE
     /\ crossing' = [state |-> "req", bundle |-> pub_bundle, epoch |-> epoch]
  \/ /\ ~(pub_dirty /\ crossing.state = "idle")
     /\ pub_dirty' = (pub_dirty \/ pub_bundle # pub_sent)
     /\ UNCHANGED <<pub_sent, crossing>>

-----------------------------------------------------------------------------
(* Read side, history_clk.                                                 *)

oor(off) == view.readable = 0 \/ off >= view.readable
off_clamped == IF view.readable = 0 THEN 0 ELSE view.readable - 1
off_safe(off) == IF oor(off) /\ ~view.unsafe THEN off_clamped ELSE off

\* Wrong on purpose: the frames counted forwards.
slot_ahead(off) == (view.done_slot + off) % FramesMax

slot_of(off) == IF view.done_slot >= off THEN view.done_slot - off
                ELSE (view.done_slot - off + view.depth) % FramesMax
write_slot   == SlotSucc(view.done_slot, view.depth)

\* What enters stage R1 for a request of `bin` at frame offset `off`.
Decode(off, bin) ==
  [slot |-> slot_of(off_safe(off)), beat |-> bin,
   off |-> off_safe(off), frame_id |-> view.frames_done - 1 - off_safe(off),
   oor |-> oor(off),
   hit |-> view.frames_done # 0 /\ slot_of(off_safe(off)) = write_slot,
   words |-> NoWords]

Read(r) == [r EXCEPT !.words = [a \in Ant |-> mem[a][<<r.slot, r.beat>>]]]

out_v     == pipe[4] # None
out_stale == \/ view.frames_done - pipe[4].frame_id > view.depth
             \/ view.frames_done < pipe[4].frame_id   \* the difference wraps

rd_req_ready == credit # 0
credit_d(req, pop) == credit - Cardinality(req) + (IF pop THEN 1 ELSE 0)

\* `req` holds the <<offset, bin>> accepted at this edge, if any; `pop` says
\* whether the consumer takes a response.
ReadPipe(req, pop) ==
  /\ credit' = credit_d(req, pop)
  /\ pipe' = [i \in 1 .. 4 |->
                CASE i = 1 -> IF req = {} THEN None
                              ELSE LET r == CHOOSE q \in req : TRUE IN Decode(r[1], r[2])
                  [] i = 3 -> IF pipe[2] = None THEN None ELSE Read(pipe[2])
                  [] OTHER -> pipe[i - 1]]
  /\ held' = held + (IF out_v /\ held < OutDepth THEN 1 ELSE 0) - (IF pop THEN 1 ELSE 0)

View(deliver) ==
  \/ /\ deliver /\ crossing.state = "req"
     /\ view' = crossing.bundle /\ seen_epoch' = crossing.epoch
     /\ crossing' = [state |-> "ack"]
  \/ /\ ~deliver
     /\ UNCHANGED <<view, seen_epoch, crossing>>

-----------------------------------------------------------------------------
(* The environment: framed sources, software, the reader.                  *)

\* Nothing keeps the antennas in step, with each other or with the reader: skew
\* is counted, not assumed away (header section 2).
MayBegin(a) == frame[a] < FrameLimit /\ (Quiesce => ~depth_pending)

MayApply == /\ epoch < EpochLimit
            /\ Quiesce => depth_pending \/ \A i \in 1 .. 4 : pipe[i] = None
MayAsk   == rd_req_ready /\ (Quiesce => ~depth_pending /\ seen_epoch = epoch)

AtMostOne(S) == {{}} \cup {{x} : x \in S}

CoreEdge ==
  /\ \E fire \in SUBSET Ant :
       /\ \A a \in fire : sof(a) => MayBegin(a)
       /\ Sequencers(fire) /\ Barrier(fire)
  /\ \E write \in AtMostOne(IF MayApply THEN DepthWrites ELSE {}) : DepthControl(write)
  /\ BankWrite
  /\ Publisher
  /\ UNCHANGED readVars

HistEdge ==
  /\ \E req \in AtMostOne(IF MayAsk THEN Requests ELSE {}),
        pop \in {FALSE, held > 0} : ReadPipe(req, pop)
  /\ \E deliver \in BOOLEAN : View(deliver)
  /\ UNCHANGED <<writeVars, depthVars, barVars, pubVars>>

Acknowledge ==
  /\ crossing.state = "ack"
  /\ crossing' = [state |-> "idle"]
  /\ UNCHANGED <<writeVars, depthVars, barVars, pubVars, readVars>>

Init ==
  /\ src_beat = [a \in Ant |-> 0] /\ in_frame = [a \in Ant |-> FALSE]
  /\ beat = [a \in Ant |-> 0] /\ slot = [a \in Ant |-> 0] /\ frame = [a \in Ant |-> 0]
  /\ wr = [a \in Ant |-> None] /\ bank_wr = [a \in Ant |-> None]
  /\ mem = [a \in Ant |-> [p \in (0 .. FramesMax - 1) \X (0 .. Beats - 1) |-> NoWord]]
  /\ depth = FramesMax /\ depth_req = FramesMax /\ depth_pending = FALSE /\ epoch = 0
  /\ frames_done = 0 /\ done_slot = 0 /\ overwrites = 0
  /\ skew = FALSE /\ fault = [framing |-> FALSE, skew |-> FALSE]
  /\ pub_sent = [unsafe |-> FALSE, readable |-> 0, depth |-> 0,
                 done_slot |-> 0, frames_done |-> 0]
  /\ pub_dirty = TRUE /\ crossing = [state |-> "idle"]
  /\ view = [unsafe |-> FALSE, readable |-> 0, depth |-> 1,
             done_slot |-> 0, frames_done |-> 0]
  /\ seen_epoch = 0
  /\ credit = OutDepth /\ pipe = [i \in 1 .. 4 |-> None] /\ held = 0

Next == CoreEdge \/ HistEdge \/ Acknowledge
Spec == Init /\ [][Next]_vars

-----------------------------------------------------------------------------
(* Properties.                                                             *)

Word == (0 .. EpochLimit) \X (0 .. FrameLimit) \X (0 .. Beats - 1)

TypeOK ==
  /\ src_beat \in [Ant -> 0 .. Beats - 1] /\ beat \in [Ant -> 0 .. Beats - 1]
  /\ in_frame \in [Ant -> BOOLEAN] /\ slot \in [Ant -> 0 .. FramesMax - 1]
  /\ frame \in [Ant -> 0 .. FrameLimit + 1]
  /\ \A a \in Ant : mem[a] \in [(0 .. FramesMax - 1) \X (0 .. Beats - 1) -> Word \cup {NoWord}]
  /\ depth \in 1 .. FramesMax /\ depth_req \in 1 .. FramesMax
  /\ depth_pending \in BOOLEAN /\ epoch \in 0 .. EpochLimit
  /\ frames_done \in 0 .. FrameLimit + 1 /\ done_slot \in 0 .. FramesMax - 1
  /\ overwrites \in Nat /\ skew \in BOOLEAN
  /\ fault \in [framing : BOOLEAN, skew : BOOLEAN]
  /\ pub_dirty \in BOOLEAN /\ crossing.state \in {"idle", "req", "ack"}
  /\ view.depth \in 1 .. FramesMax /\ view.done_slot \in 0 .. FramesMax - 1
  /\ credit \in 0 .. OutDepth /\ held \in 0 .. OutDepth

\* The rotation stays in step in spite of running as increments and not as a
\* remainder: every write slot is its frame's, the newest complete frame is in
\* done_slot, and the barrier is the minimum over the antennas, an edge late.
Rotation ==
  /\ \A a \in Ant : slot[a] = frame[a] % depth /\ frame[a] >= frames_done
  /\ \E a \in Ant : frame[a] <= frames_done + 1
  /\ frames_done > 0 => done_slot = (frames_done - 1) % depth

\* What the reader works from always belongs to one configuration, whatever the
\* writer has done since (header section 3: done_slot and depth are never mixed).
ViewIsConsistent ==
  /\ view.done_slot = (IF view.frames_done = 0 THEN 0
                       ELSE (view.frames_done - 1) % view.depth)
  /\ view.readable < view.depth /\ view.readable <= view.frames_done
  /\ seen_epoch = epoch => view.frames_done <= frames_done

\* The frames complete in every antenna when request r was answered.
AskedAt(r) == r.frame_id + r.off + 1

\* Antenna a has come round to the place r reads, a whole frame and more past
\* the one that was being written when r was answered: the second slot that
\* `readable` keeps back.
Lapped(a, r) ==
  /\ \/ frame[a] > r.frame_id + depth
     \/ frame[a] = r.frame_id + depth /\ src_beat[a] > r.beat
  /\ frame[a] >= AskedAt(r) + 2

\* What a response without a flag is worth, with the antennas as far apart as they
\* like: from each it carries the word of the frame and bin it says it carries,
\* unless that antenna has lapped it (header sections 2, 3 and 5).
UnflaggedIsWhole ==
  out_v /\ ~ForceUnsafe /\ ~pipe[4].oor /\ ~pipe[4].hit /\ ~out_stale =>
    \A a \in Ant : \/ pipe[4].words[a] = <<epoch, pipe[4].frame_id, pipe[4].beat>>
                   \/ Lapped(a, pipe[4])

\* "In correct operation it is always zero": without the fault injection no
\* in-range request reaches the slot being filled (a_history_no_safe_collision).
NoSafeCollision ==
  \A i \in 1 .. 4 : pipe[i] # None /\ ~ForceUnsafe /\ ~pipe[i].oor => ~pipe[i].hit

\* The credits in front of the output FIFO cover every response in flight, so a
\* response never meets a full FIFO (a_history_out_never_blocked).
CreditsCover ==
  /\ credit + held + Cardinality({i \in 1 .. 4 : pipe[i] # None}) = OutDepth
  /\ out_v => held < OutDepth

\* Well-framed sources raise no framing fault.
FramingClean == ~fault.framing

\* "Exactly max(frames_done - depth, 0) at every instant" (header section 4), up
\* to the first depth change, which restarts the frames and not the counter.
OverwriteExact ==
  epoch = 0 => overwrites = IF frames_done > depth THEN frames_done - depth ELSE 0

\* When nothing is pending, the depth in force is the last one applied.
LastDepthWins == ~depth_pending => depth = depth_req

\* What the writer takes for announced is what the reader has or is about to
\* be handed: a frame that completes while an older bundle is still crossing is
\* not forgotten.
NothingForgotten ==
  pub_sent.depth # 0 =>
    pub_sent = IF crossing.state = "req" THEN crossing.bundle ELSE view

\* The writer's and the reader's books agree with what they stand for at every edge.
BookkeepingExact == TypeOK /\ Rotation /\ CreditsCover /\ OverwriteExact

\* The view is of one configuration and what is answered from it is whole or lapped.
ResponsesAreRight == ViewIsConsistent /\ UnflaggedIsWhole
=============================================================================
