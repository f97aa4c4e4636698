-------------------------- MODULE HistoryCoreProofs --------------------------
(***************************************************************************)
(* Proofs about the history for any number of antennas, any geometry and   *)
(* any bounds: the books of both sides, the publication, and the corner    *)
(* turn's contract.                                                        *)
(***************************************************************************)
EXTENDS HistoryCore, FiniteSetTheorems, TLAPS

-----------------------------------------------------------------------------
(* Remainders, which the slots of the ring are although the code never     *)
(* divides.                                                                *)

LEMMA DivMod ==
  ASSUME NEW x \in Nat, NEW d \in Nat \ {0}
  PROVE  \E q \in Nat : \E r \in 0 .. d - 1 : x = d * q + r
<1>1. PICK q \in Int : q = x \div d
  OBVIOUS
<1> QED BY <1>1

LEMMA ModIs ==
  ASSUME NEW x \in Nat, NEW d \in Nat \ {0}, NEW q \in Nat, NEW r \in 0 .. d - 1, x = d * q + r
  PROVE  x % d = r
OBVIOUS

LEMMA ModRange == ASSUME NEW x \in Nat, NEW d \in Nat \ {0} PROVE x % d \in 0 .. d - 1
OBVIOUS

LEMMA Times ==
  ASSUME NEW d \in Nat, NEW q \in Nat
  PROVE  d * (q + 1) = d * q + d /\ d * q \in Nat
OBVIOUS

LEMMA ModSmall == ASSUME NEW x \in Nat, NEW d \in Nat \ {0}, x < d PROVE x % d = x
OBVIOUS

\* The slot after.
LEMMA ModSucc ==
  ASSUME NEW x \in Nat, NEW d \in Nat \ {0}
  PROVE  (x + 1) % d = IF (x % d) + 1 = d THEN 0 ELSE (x % d) + 1
<1>1. PICK q \in Nat, r \in 0 .. d - 1 : x = d * q + r
  BY DivMod
<1>2. x % d = r
  BY <1>1, ModIs
<1>0. PICK y \in Nat : y = x + 1
  OBVIOUS
<1>3. CASE r + 1 = d
  <2>1. y = d * q + d
    BY <1>0, <1>1, <1>3
  <2>3. PICK p \in Nat : p = q + 1
    OBVIOUS
  <2>2. y = d * p + 0 /\ 0 \in 0 .. d - 1
    BY <2>1, <2>3, Times
  <2>4. y % d = 0
    BY <2>2, ModIs
  <2> QED BY <2>4, <1>0, <1>2, <1>3
<1>4. CASE r + 1 # d
  <2>1. PICK t \in 0 .. d - 1 : t = r + 1
    BY <1>4
  <2>2. y = d * q + t 
    BY <1>0, <1>1, <2>1
  <2>3. y % d = t
    BY <2>2, ModIs
  <2> QED BY <2>1, <2>3, <1>0, <1>2, <1>4
<1> QED BY <1>3, <1>4

\* Fewer than d frames apart, no two frames share a slot.
LEMMA ModInjective ==
  ASSUME NEW x \in Nat, NEW y \in Nat, NEW d \in Nat \ {0}, x % d = y % d, x <= y, y < x + d
  PROVE  x = y
<1>1. PICK q \in Nat, r \in 0 .. d - 1 : x = d * q + r
  BY DivMod
<1>2. PICK p \in Nat, s \in 0 .. d - 1 : y = d * p + s
  BY DivMod
<1>3. r = s
  BY <1>1, <1>2, ModIs
<1>4. d * p >= d * q /\ d * p < d * q + d
  BY <1>1, <1>2, <1>3, Times
<1>5. ~(p < q)
  <2> SUFFICES ASSUME p < q PROVE FALSE
    OBVIOUS
  <2>1. PICK k \in Nat : q = p + 1 + k
    <3>1. q - p - 1 \in Nat /\ q = p + 1 + (q - p - 1)
      OBVIOUS
    <3> QED BY <3>1
  <2>2. d * q = d * p + d + d * k /\ d * k >= 0
    BY <2>1
  <2> QED BY <2>2, <1>4, Times
<1>6. ~(q < p)
  <2> SUFFICES ASSUME q < p PROVE FALSE
    OBVIOUS
  <2>1. PICK k \in Nat : p = q + 1 + k
    <3>1. p - q - 1 \in Nat /\ p = q + 1 + (p - q - 1)
      OBVIOUS
    <3> QED BY <3>1
  <2>2. d * p = d * q + d + d * k /\ d * k >= 0
    BY <2>1
  <2> QED BY <2>2, <1>4, Times
<1> QED BY <1>1, <1>2, <1>3, <1>5, <1>6

\* The slot k frames back.
LEMMA ModBack ==
  ASSUME NEW x \in Nat, NEW k \in Nat, NEW d \in Nat \ {0}, k < d, k <= x
  PROVE  (x - k) % d = IF x % d >= k THEN (x % d) - k ELSE (x % d) - k + d
<1>1. PICK q \in Nat, r \in 0 .. d - 1 : x = d * q + r
  BY DivMod
<1>2. x % d = r
  BY <1>1, ModIs
<1>0. PICK y \in Nat : y = x - k
  OBVIOUS
<1>3. CASE r >= k
  <2>1. PICK t \in 0 .. d - 1 : t = r - k
    BY <1>3
  <2>2. y = d * q + t
    BY <1>0, <1>1, <2>1
  <2>3. y % d = t
    BY <2>2, ModIs
  <2> QED BY <2>1, <2>3, <1>0, <1>2, <1>3
<1>4. CASE r < k
  <2>0. q # 0 
    BY <1>1, <1>4
  <2>1. PICK p \in Nat : q = p + 1
    BY <2>0
  <2>2. x = d * p + d + r
    BY <1>1, <2>1, Times
  <2>3. PICK t \in 0 .. d - 1 : t = r - k + d
    BY <1>4
  <2>4. y = d * p + t
    BY <1>0, <2>2, <2>3, Times
  <2>5. y % d = t
    BY <2>4, ModIs
  <2> QED BY <2>3, <2>5, <1>0, <1>2, <1>4
<1> QED BY <1>3, <1>4, <1>2

-----------------------------------------------------------------------------
(* Types.                                                                  *)

Slot   == 0 .. FramesMax - 1
Beat   == 0 .. Beats - 1
Write  == [slot : Slot, beat : Beat, word : Word]
Bundle == [unsafe : BOOLEAN, readable : Nat, depth : 1 .. FramesMax, done_slot : Slot,
           frames_done : Nat]
Sent   == [state : {"req"}, bundle : Bundle, epoch : Nat]
Entry  == [slot : Slot, beat : Beat, off : Nat, frame_id : Int, oor : BOOLEAN,
           hit : BOOLEAN, words : [Ant -> Word \cup {NoWord}]]

\* A source in the middle of a frame has begun it below the bound on frames.
WriteTypes ==
  /\ src_beat \in [Ant -> Beat] /\ beat \in [Ant -> Beat]
  /\ in_frame \in [Ant -> BOOLEAN] /\ frame \in [Ant -> 0 .. FrameLimit]
  /\ \A a \in Ant : src_beat[a] # 0 => frame[a] < FrameLimit
  /\ slot \in [Ant -> 0 .. depth - 1]
  /\ wr \in [Ant -> Write \cup {None}] /\ bank_wr \in [Ant -> Write \cup {None}]
  /\ mem \in [Ant -> [Slot \X Beat -> Word \cup {NoWord}]]
\* A change that waits has been counted against the bound on epochs.
DepthTypes ==
  /\ depth \in 1 .. FramesMax /\ depth_req \in 1 .. FramesMax
  /\ depth_pending \in BOOLEAN /\ epoch \in 0 .. EpochLimit
  /\ depth_pending => epoch < EpochLimit
BarTypes ==
  /\ frames_done \in Nat /\ done_slot \in 0 .. depth - 1 /\ overwrites \in Nat
  /\ skew \in BOOLEAN /\ fault \in [framing : BOOLEAN, skew : BOOLEAN]
PubTypes ==
  /\ pub_dirty \in BOOLEAN
  /\ crossing \in Sent \cup {[state |-> "idle"], [state |-> "ack"]}
ReadTypes ==
  /\ view \in Bundle /\ view.done_slot < view.depth /\ seen_epoch \in Nat
  /\ crossing.state = "req" => crossing.bundle.done_slot < crossing.bundle.depth
  /\ pipe \in [1 .. 4 -> Entry \cup {None}]

Types == WriteTypes /\ DepthTypes /\ BarTypes /\ PubTypes /\ ReadTypes

LEMMA NoneApart ==
  /\ None \notin Write /\ None \notin Entry
  /\ [state |-> "idle"] \notin Sent /\ [state |-> "ack"] \notin Sent
<1>1. None \notin Write
  BY DEF None, Write
<1>2. None \notin Entry
  BY DEF None, Entry
<1>3. [state |-> "idle"] \notin Sent /\ [state |-> "ack"] \notin Sent
  BY DEF Sent
<1> QED BY <1>1, <1>2, <1>3

LEMMA ZeroSlot ==
  ASSUME NEW d \in 1 .. FramesMax
  PROVE  0 \in 0 .. d - 1 /\ 0 % d = 0
<1>1. d \in Nat \ {0} /\ 0 < d
  BY GeometryAssumption
<1> QED BY <1>1, ModSmall

LEMMA SlotSuccTyped ==
  ASSUME NEW d \in 1 .. FramesMax, NEW s \in 0 .. d - 1
  PROVE  SlotSucc(s, d) \in 0 .. d - 1
BY GeometryAssumption DEF SlotSucc

LEMMA InitTypes == Init => Types
<1> SUFFICES ASSUME Init PROVE Types
  OBVIOUS
<1>1. Beats \in Nat \ {0, 1} /\ FramesMax \in Nat \ {0, 1}
  BY GeometryAssumption
<1>2. FrameLimit \in Nat /\ EpochLimit \in Nat
  BY EnvAssumption
<1>3. WriteTypes
  BY <1>1, <1>2 DEF Init, WriteTypes, Beat, Slot
<1>4. DepthTypes /\ BarTypes
  <2>1. /\ depth = FramesMax /\ depth_req = FramesMax /\ ~depth_pending /\ epoch = 0
        /\ frames_done = 0 /\ done_slot = 0 /\ overwrites = 0
    BY DEF Init
  <2>2. /\ depth_pending \in BOOLEAN /\ skew \in BOOLEAN
        /\ fault \in [framing : BOOLEAN, skew : BOOLEAN]
    BY Zenon DEF Init
  <2>3. DepthTypes
    BY <1>1, <1>2, <2>1, <2>2 DEF DepthTypes
  <2> QED BY <1>1, <2>1, <2>2, <2>3 DEF BarTypes
<1>5. PubTypes /\ ReadTypes
  BY <1>1, <1>2 DEF Init, PubTypes, ReadTypes, Bundle, Slot
<1> QED BY <1>3, <1>4, <1>5 DEF Types

(* A step of either side with its inputs named.                            *)

Writes == AtMostOne(IF MayApply THEN DepthWrites ELSE {})
Asks   == AtMostOne(IF MayAsk THEN Requests ELSE {})

Core(fire, write) ==
  /\ \A a \in fire : sof(a) => MayBegin(a)
  /\ Sequencers(fire) /\ Barrier(fire) /\ DepthControl(write)
  /\ BankWrite /\ Publisher /\ UNCHANGED readVars
Hist(req, pop, deliver) ==
  /\ ReadPipe(req, pop) /\ View(deliver)
  /\ UNCHANGED <<writeVars, depthVars, barVars, pubVars>>

LEMMA NextNamed ==
  ASSUME Next
  PROVE  \/ \E fire \in SUBSET Ant : \E write \in Writes : Core(fire, write)
         \/ \E req \in Asks : \E pop \in {FALSE, held > 0} : \E deliver \in BOOLEAN :
              Hist(req, pop, deliver)
         \/ Acknowledge
BY DEF Next, CoreEdge, HistEdge, Core, Hist, Writes, Asks, Beat

\* The words of the pair that is written are told from one beat to the next.
LEMMA BeatSucc ==
  ASSUME NEW b \in Beat
  PROVE  (b + 1) % Beats = IF b = Beats - 1 THEN 0 ELSE b + 1
<1>1. Beats \in Nat \ {0} /\ b \in Nat /\ b <= Beats - 1
  BY GeometryAssumption DEF Beat
<1>2. b % Beats = b
  BY <1>1, ModSmall
<1>3. (b + 1) % Beats = IF (b % Beats) + 1 = Beats THEN 0 ELSE (b % Beats) + 1
  BY <1>1, ModSucc
<1> QED BY <1>1, <1>2, <1>3

LEMMA WriteTypesKept ==
  ASSUME Types, NEW fire \in SUBSET Ant, NEW write \in Writes, Core(fire, write)
  PROVE  WriteTypes'
<1>1. /\ src_beat \in [Ant -> Beat] /\ beat \in [Ant -> Beat]
      /\ in_frame \in [Ant -> BOOLEAN] /\ frame \in [Ant -> 0 .. FrameLimit]
      /\ \A a \in Ant : src_beat[a] # 0 => frame[a] < FrameLimit
      /\ slot \in [Ant -> 0 .. depth - 1] /\ depth \in 1 .. FramesMax
      /\ wr \in [Ant -> Write \cup {None}] /\ bank_wr \in [Ant -> Write \cup {None}]
      /\ mem \in [Ant -> [Slot \X Beat -> Word \cup {NoWord}]]
  BY DEF Types, WriteTypes, DepthTypes
<1>2. Beats \in Nat \ {0, 1} /\ FrameLimit \in Nat /\ FramesMax \in Nat
  BY GeometryAssumption, EnvAssumption
<1>3. 0 \in Beat /\ \A b \in Beat : (b + 1) % Beats \in Beat
  BY <1>2, BeatSucc DEF Beat
<1>4. \A a \in fire : frame[a] < FrameLimit
  BY <1>1 DEF Core, MayBegin, sof
<1>5. src_beat' \in [Ant -> Beat]
  BY <1>1, <1>3 DEF Core, Sequencers
<1>6. bank_wr' \in [Ant -> Write \cup {None}]
  BY <1>1 DEF Core, BankWrite
<1>7. mem' \in [Ant -> [Slot \X Beat -> Word \cup {NoWord}]]
  <2>1. \A a \in Ant : bank_wr[a] # None =>
          bank_wr[a].slot \in Slot /\ bank_wr[a].beat \in Beat /\ bank_wr[a].word \in Word
    BY <1>1 DEF Write
  <2>2. \A a \in Ant : (IF bank_wr[a] = None THEN mem[a]
                        ELSE [mem[a] EXCEPT ![<<bank_wr[a].slot, bank_wr[a].beat>>]
                                = bank_wr[a].word]) \in [Slot \X Beat -> Word \cup {NoWord}]
    BY <1>1, <2>1
  <2> QED BY <2>2 DEF Core, BankWrite
<1>8. CASE depth_apply
  <2>1. /\ beat' = [a \in Ant |-> 0] /\ slot' = [a \in Ant |-> 0]
        /\ frame' = [a \in Ant |-> 0] /\ in_frame' = [a \in Ant |-> FALSE]
        /\ wr' = [a \in Ant |-> None]
    BY <1>8 DEF Core, Sequencers
  <2>2. depth' \in 1 .. FramesMax
    BY <1>8 DEF Core, DepthControl, Types, DepthTypes
  <2>3. \A a \in Ant : src_beat'[a] # 0 => 0 < FrameLimit
    BY <1>1, <1>2, <1>4 DEF Core, Sequencers
  <2>4. /\ slot' \in [Ant -> 0 .. depth' - 1] /\ frame' \in [Ant -> 0 .. FrameLimit]
        /\ beat' \in [Ant -> Beat] /\ in_frame' \in [Ant -> BOOLEAN]
        /\ wr' \in [Ant -> Write \cup {None}]
        /\ \A a \in Ant : src_beat'[a] # 0 => frame'[a] < FrameLimit
    <3>0. 0 \in 0 .. depth' - 1
      BY <2>2, ZeroSlot
    <3>1. slot' \in [Ant -> 0 .. depth' - 1]
      BY <3>0, <2>1
    <3>2. /\ frame' \in [Ant -> 0 .. FrameLimit]
          /\ \A a \in Ant : src_beat'[a] # 0 => frame'[a] < FrameLimit
      BY <1>2, <2>1, <2>3
    <3> QED BY <1>3, <2>1, <3>1, <3>2
  <2> QED BY <1>5, <1>6, <1>7, <2>4 DEF WriteTypes
<1>9. CASE ~depth_apply
  <2>1. /\ beat' = [a \in Ant |-> IF a \notin fire THEN beat[a]
                                  ELSE IF eof(a) THEN 0 ELSE (beat[a] + 1) % Beats]
        /\ slot' = [a \in Ant |-> IF a \in fire /\ eof(a) THEN SlotSucc(slot[a], depth)
                                  ELSE slot[a]]
        /\ frame' = [a \in Ant |-> IF a \in fire /\ eof(a) THEN frame[a] + 1
                                   ELSE frame[a]]
        /\ in_frame' = [a \in Ant |-> IF a \in fire THEN ~eof(a) ELSE in_frame[a]]
        /\ wr' = [a \in Ant |->
                    IF a \in fire
                    THEN [slot |-> slot[a], beat |-> beat[a],
                          word |-> <<epoch, frame[a], src_beat[a]>>]
                    ELSE None]
    BY <1>9 DEF Core, Sequencers
  <2>2. beat' \in [Ant -> Beat]
    BY <1>1, <1>3, <2>1
  <2>3. in_frame' \in [Ant -> BOOLEAN]
    BY <1>1, <2>1
  <2>4. frame' \in [Ant -> 0 .. FrameLimit]
    BY <1>1, <1>2, <1>4, <2>1
  <2>5. \A a \in Ant : src_beat'[a] # 0 => frame'[a] < FrameLimit
    <3> TAKE a \in Ant
    <3>1. src_beat'[a] = IF a \in fire THEN (src_beat[a] + 1) % Beats ELSE src_beat[a]
      BY DEF Core, Sequencers
    <3>2. a \in fire /\ eof(a) => src_beat'[a] = 0
      BY <1>1, <3>1, BeatSucc DEF eof
    <3> QED BY <1>1, <1>4, <2>1, <3>1, <3>2
  <2>6. slot' \in [Ant -> 0 .. depth' - 1]
    <3>1. depth' = depth
      BY <1>9 DEF Core, DepthControl
    <3> QED BY <1>1, <2>1, <3>1, SlotSuccTyped
  <2>7. wr' \in [Ant -> Write \cup {None}]
    <3>1. \A a \in fire : [slot |-> slot[a], beat |-> beat[a],
                           word |-> <<epoch, frame[a], src_beat[a]>>] \in Write
      <4> TAKE a \in fire
      <4>1. slot[a] \in Slot /\ beat[a] \in Beat /\ frame[a] \in 0 .. FrameLimit
            /\ src_beat[a] \in 0 .. Beats - 1 /\ epoch \in 0 .. EpochLimit
        BY <1>1, <1>2 DEF Slot, Beat, Types, DepthTypes
      <4> QED BY <4>1 DEF Write, Word
    <3> QED BY <2>1, <3>1
  <2> QED BY <1>5, <1>6, <1>7, <2>2, <2>3, <2>4, <2>5, <2>6, <2>7 DEF WriteTypes
<1> QED BY <1>8, <1>9

LEMMA DepthTypesKept ==
  ASSUME Types, NEW fire \in SUBSET Ant, NEW write \in Writes, Core(fire, write)
  PROVE  DepthTypes'
<1>1. /\ depth \in 1 .. FramesMax /\ depth_req \in 1 .. FramesMax
      /\ depth_pending \in BOOLEAN /\ epoch \in 0 .. EpochLimit
      /\ depth_pending => epoch < EpochLimit
  BY DEF Types, DepthTypes
<1>2. FramesMax \in Nat \ {0, 1} /\ EpochLimit \in Nat /\ DepthWrites \subseteq Nat
  BY GeometryAssumption, EnvAssumption
<1>3. write = {} \/ (MayApply /\ \E d \in DepthWrites : write = {d})
  BY DEF Writes, AtMostOne
<1>4. depth_req' \in 1 .. FramesMax
  <2>1. \A d \in DepthWrites : depth_clamped(d) \in 1 .. FramesMax
    BY <1>2 DEF depth_clamped, Lesser
  <2>2. \A d : (CHOOSE x \in {d} : TRUE) = d
    OBVIOUS
  <2> QED BY <1>1, <1>3, <2>1, <2>2 DEF Core, DepthControl
<1>5. depth' \in 1 .. FramesMax
  BY <1>1 DEF Core, DepthControl
<1>6. depth_pending' \in BOOLEAN
  BY Zenon DEF Core, DepthControl
<1>7. epoch' \in 0 .. EpochLimit
  BY <1>1, <1>2 DEF Core, DepthControl, depth_apply
<1>8. depth_pending' => epoch' < EpochLimit
  <2>1. depth_pending' => (depth_pending \/ write # {}) /\ ~depth_apply
    BY Zenon DEF Core, DepthControl
  <2>2. ~depth_apply => epoch' = epoch
    BY DEF Core, DepthControl
  <2>3. write # {} => epoch < EpochLimit
    BY <1>3 DEF MayApply
  <2> QED BY <1>1, <2>1, <2>2, <2>3
<1> QED BY <1>4, <1>5, <1>6, <1>7, <1>8 DEF DepthTypes

LEMMA BarTypesKept ==
  ASSUME Types, NEW fire \in SUBSET Ant, NEW write \in Writes, Core(fire, write)
  PROVE  BarTypes'
<1>1. /\ frames_done \in Nat /\ done_slot \in 0 .. depth - 1 /\ overwrites \in Nat
      /\ skew \in BOOLEAN /\ fault \in [framing : BOOLEAN, skew : BOOLEAN]
      /\ depth \in 1 .. FramesMax
  BY DEF Types, BarTypes, DepthTypes
<1>2. depth' \in 1 .. FramesMax
  BY DepthTypesKept DEF DepthTypes
<1>3. frames_done' \in Nat /\ overwrites' \in Nat
  BY <1>1 DEF Core, Barrier
<1>4. done_slot' \in 0 .. depth' - 1
  <2>1. CASE depth_apply
    <3>1. done_slot' = 0
      BY <2>1 DEF Core, Barrier
    <3> QED BY <1>2, <3>1, ZeroSlot
  <2>2. CASE ~depth_apply
    BY <1>1, <2>2, SlotSuccTyped DEF Core, Barrier, DepthControl
  <2> QED BY <2>1, <2>2
<1>5. skew' \in BOOLEAN
  BY Zenon DEF Core, Barrier
<1>6. fault' \in [framing : BOOLEAN, skew : BOOLEAN]
  BY Zenon DEF Core, Barrier
<1> QED BY <1>3, <1>4, <1>5, <1>6 DEF BarTypes

LEMMA BundleTyped ==
  ASSUME Types
  PROVE  /\ pub_bundle \in Bundle /\ pub_bundle.done_slot < pub_bundle.depth
         /\ pub_bundle.readable <= pub_bundle.frames_done
         /\ pub_bundle.readable = 0 \/ pub_bundle.readable <= pub_bundle.depth - 2
<1>1. /\ depth \in 1 .. FramesMax /\ frames_done \in Nat /\ done_slot \in 0 .. depth - 1
      /\ FramesMax \in Nat /\ ForceUnsafe \in BOOLEAN
  BY GeometryAssumption, EnvAssumption DEF Types, DepthTypes, BarTypes
<1>2. /\ readable \in Nat /\ readable <= frames_done
      /\ readable = 0 \/ readable <= depth - 2
  BY <1>1 DEF readable, Lesser, Minus2
<1>3. done_slot \in Slot /\ done_slot < depth
  BY <1>1 DEF Slot
<1> QED BY <1>1, <1>2, <1>3 DEF pub_bundle, Bundle

LEMMA ReadTypesOfCore ==
  ASSUME Types, NEW fire \in SUBSET Ant, NEW write \in Writes, Core(fire, write)
  PROVE  PubTypes' /\ ReadTypes'
<1>1. /\ view \in Bundle /\ view.done_slot < view.depth /\ seen_epoch \in Nat
      /\ crossing.state = "req" => crossing.bundle.done_slot < crossing.bundle.depth
      /\ pipe \in [1 .. 4 -> Entry \cup {None}]
      /\ crossing \in Sent \cup {[state |-> "idle"], [state |-> "ack"]}
  BY DEF Types, ReadTypes, PubTypes
<1>2. view' = view /\ seen_epoch' = seen_epoch /\ pipe' = pipe
  BY DEF Core, readVars
<1>3. pub_dirty' \in BOOLEAN
  BY Zenon DEF Core, Publisher
<1>4. CASE crossing' = crossing
  BY <1>1, <1>2, <1>3, <1>4 DEF PubTypes, ReadTypes
<1>5. CASE crossing' = [state |-> "req", bundle |-> pub_bundle, epoch |-> epoch]
  <2>1. epoch \in Nat
    BY EnvAssumption DEF Types, DepthTypes
  <2>2. crossing' \in Sent
    BY <1>5, <2>1, BundleTyped DEF Sent
  <2>3. crossing'.bundle = pub_bundle
    BY <1>5
  <2>4. crossing'.bundle.done_slot < crossing'.bundle.depth
    BY <2>3, BundleTyped
  <2> QED BY <1>1, <1>2, <1>3, <2>2, <2>4 DEF PubTypes, ReadTypes
<1> QED BY <1>4, <1>5 DEF Core, Publisher

\* What enters the read pipe is an entry, whatever offset is asked for.
LEMMA DecodeTyped ==
  ASSUME Types, NEW off \in Nat, NEW bin \in Beat
  PROVE  Decode(off, bin) \in Entry
<1>1. /\ view \in Bundle /\ view.done_slot < view.depth
      /\ FramesMax \in Nat \ {0}
  BY GeometryAssumption DEF Types, ReadTypes
<1>2. /\ view.readable \in Nat /\ view.depth \in 1 .. FramesMax
      /\ view.done_slot \in Slot /\ view.frames_done \in Nat
  BY <1>1 DEF Bundle
<1>3. off_safe(off) \in Nat
  BY <1>1, <1>2 DEF off_safe, off_clamped
<1>4. \A k \in Nat : slot_of(k) \in Slot
  <2> TAKE k \in Nat
  <2>1. CASE view.done_slot >= k
    BY <1>1, <1>2, <2>1 DEF slot_of, Slot
  <2>2. CASE view.done_slot < k
    <3>1. PICK x \in Int : x = view.done_slot - k + view.depth
      BY <1>1, <1>2 DEF Slot
    <3>2. x % FramesMax \in 0 .. FramesMax - 1
      BY <1>1
    <3> QED BY <1>1, <1>2, <2>2, <3>1, <3>2 DEF slot_of, Slot
  <2> QED BY <1>1, <1>2, <2>1, <2>2 DEF Slot
<1>5. view.frames_done - 1 - off_safe(off) \in Int
  BY <1>2, <1>3
<1>6. oor(off) \in BOOLEAN
  BY DEF oor
<1>7. NoWords \in [Ant -> Word \cup {NoWord}]
  BY DEF NoWords
<1> HIDE DEF Slot
<1> QED BY <1>3, <1>4, <1>5, <1>6, <1>7 DEF Decode, Entry

\* What the read of the banks leaves of an entry.
LEMMA ReadTyped ==
  ASSUME Types, NEW r \in Entry
  PROVE  /\ Read(r) \in Entry
         /\ Read(r).words = [a \in Ant |-> mem[a][<<r.slot, r.beat>>]]
         /\ Read(r).frame_id = r.frame_id /\ Read(r).beat = r.beat /\ Read(r).oor = r.oor
         /\ Read(r).hit = r.hit /\ Read(r).off = r.off
<1>1. [a \in Ant |-> mem[a][<<r.slot, r.beat>>]] \in [Ant -> Word \cup {NoWord}]
  BY DEF Types, WriteTypes, Entry
<1> QED BY <1>1 DEF Read, Entry

LEMMA PipeMoves ==
  ASSUME NEW req \in Asks, NEW pop, ReadPipe(req, pop)
  PROVE  /\ pipe' = [i \in 1 .. 4 |-> pipe'[i]]
         /\ \/ req = {} /\ pipe'[1] = None
            \/ MayAsk /\ \E off \in Nat : \E bin \in Beat :
                 req = {<<off, bin>>} /\ pipe'[1] = Decode(off, bin)
         /\ pipe'[2] = pipe[1]
         /\ pipe'[3] = IF pipe[2] = None THEN None ELSE Read(pipe[2])
         /\ pipe'[4] = pipe[3]
<1> DEFINE first == IF req = {} THEN None
                    ELSE LET r == CHOOSE q \in req : TRUE IN Decode(r[1], r[2])
<1>1. pipe' = [i \in 1 .. 4 |->
                 CASE i = 1 -> first
                   [] i = 3 -> IF pipe[2] = None THEN None ELSE Read(pipe[2])
                   [] OTHER -> pipe[i - 1]]
  BY DEF ReadPipe
<1>2. \/ req = {} /\ first = None
      \/ MayAsk /\ \E off \in Nat : \E bin \in Beat :
           req = {<<off, bin>>} /\ first = Decode(off, bin)
  <2>1. req = {} \/ (MayAsk /\ \E x \in Requests : req = {x})
    BY DEF Asks, AtMostOne
  <2>2. CASE req = {}
    BY <2>2
  <2>3. CASE MayAsk /\ \E x \in Requests : req = {x}
    <3>1. PICK x \in Requests : req = {x}
      BY <2>3
    <3>2. x[1] \in Nat /\ x[2] \in Beat /\ x = <<x[1], x[2]>>
      BY EnvAssumption DEF Beat
    <3>3. (CHOOSE q \in req : TRUE) = x /\ req # {}
      BY <3>1
    <3>4. first = Decode(x[1], x[2])
      BY <3>3
    <3> HIDE DEF first
    <3> QED BY <2>3, <3>1, <3>2, <3>4
  <2> QED BY <2>1, <2>2, <2>3
<1> HIDE DEF first
<1>3. pipe'[1] = first
  BY <1>1
<1>4. /\ pipe' = [i \in 1 .. 4 |-> pipe'[i]]
      /\ pipe'[2] = pipe[1] /\ pipe'[4] = pipe[3]
      /\ pipe'[3] = IF pipe[2] = None THEN None ELSE Read(pipe[2])
  BY <1>1
<1> QED BY <1>2, <1>3, <1>4

LEMMA ReadTypesOfHist ==
  ASSUME Types, NEW req \in Asks, NEW pop, NEW deliver, Hist(req, pop, deliver)
  PROVE  PubTypes' /\ ReadTypes'
<1>1. /\ view \in Bundle /\ view.done_slot < view.depth /\ seen_epoch \in Nat
      /\ crossing.state = "req" => crossing.bundle.done_slot < crossing.bundle.depth
      /\ pipe \in [1 .. 4 -> Entry \cup {None}] /\ pub_dirty \in BOOLEAN
      /\ crossing \in Sent \cup {[state |-> "idle"], [state |-> "ack"]}
  BY DEF Types, ReadTypes, PubTypes
<1>2. pub_dirty' = pub_dirty
  BY DEF Hist, pubVars
<1>3. pipe' \in [1 .. 4 -> Entry \cup {None}]
  <2>1. ReadPipe(req, pop)
    BY DEF Hist
  <2>2. pipe'[1] \in Entry \cup {None}
    BY <2>1, PipeMoves, DecodeTyped
  <2>3. pipe'[2] \in Entry \cup {None} /\ pipe'[4] \in Entry \cup {None}
    BY <1>1, <2>1, PipeMoves
  <2>4. pipe'[3] \in Entry \cup {None}
    <3>1. pipe[2] \in Entry \cup {None}
      BY <1>1
    <3>2. pipe[2] \in Entry => Read(pipe[2]) \in Entry
      BY ReadTyped
    <3> QED BY <2>1, <3>1, <3>2, PipeMoves
  <2>5. \A i \in 1 .. 4 : pipe'[i] \in Entry \cup {None}
    BY <2>2, <2>3, <2>4
  <2>6. pipe' = [i \in 1 .. 4 |-> pipe'[i]]
    BY <2>1, PipeMoves
  <2> QED BY <2>5, <2>6
<1>4. CASE deliver /\ crossing.state = "req"
  <2>1. view' = crossing.bundle /\ seen_epoch' = crossing.epoch /\ crossing' = [state |-> "ack"]
    BY <1>4 DEF Hist, View
  <2>2. crossing \in Sent
    BY <1>1, <1>4
  <2>3. view' \in Bundle /\ seen_epoch' \in Nat
    BY <2>1, <2>2 DEF Sent
  <2>4. view'.done_slot < view'.depth
    BY <1>1, <1>4, <2>1
  <2>5. crossing'.state = "ack"
    BY <2>1
  <2> QED BY <1>1, <1>2, <1>3, <2>1, <2>3, <2>4, <2>5 DEF PubTypes, ReadTypes
<1>5. CASE view' = view /\ seen_epoch' = seen_epoch /\ crossing' = crossing
  BY <1>1, <1>2, <1>3, <1>5 DEF PubTypes, ReadTypes
<1> QED BY <1>4, <1>5 DEF Hist, View

LEMMA TypesKept == Types /\ [Next]_vars => Types'
<1> SUFFICES ASSUME Types, [Next]_vars PROVE Types'
  OBVIOUS
<1>1. ASSUME NEW fire \in SUBSET Ant, NEW write \in Writes, Core(fire, write) PROVE Types'
  BY <1>1, WriteTypesKept, DepthTypesKept, BarTypesKept, ReadTypesOfCore DEF Types
<1>2. ASSUME NEW req \in Asks, NEW pop, NEW deliver, Hist(req, pop, deliver) PROVE Types'
  <2>1. UNCHANGED <<writeVars, depthVars, barVars>>
    BY <1>2 DEF Hist
  <2>2. WriteTypes' /\ DepthTypes' /\ BarTypes'
    BY <2>1 DEF Types, WriteTypes, DepthTypes, BarTypes, writeVars, depthVars, barVars
  <2> QED BY <1>2, <2>2, ReadTypesOfHist DEF Types
<1>3. CASE Acknowledge
  <2>1. /\ UNCHANGED <<writeVars, depthVars, barVars, pubVars, readVars>>
        /\ crossing' = [state |-> "idle"]
    BY <1>3 DEF Acknowledge
  <2>2. WriteTypes' /\ DepthTypes' /\ BarTypes'
    BY <2>1 DEF Types, WriteTypes, DepthTypes, BarTypes, writeVars, depthVars, barVars
  <2>3. crossing'.state = "idle"
    BY <2>1
  <2>4. PubTypes' /\ ReadTypes'
    BY <2>1, <2>3 DEF Types, PubTypes, ReadTypes, pubVars, readVars
  <2> QED BY <2>2, <2>4 DEF Types
<1>4. CASE UNCHANGED vars
  BY <1>4 DEF vars, Types, WriteTypes, DepthTypes, BarTypes, PubTypes, ReadTypes,
              writeVars, depthVars, barVars, pubVars, readVars
<1> QED BY <1>1, <1>2, <1>3, <1>4, NextNamed

-----------------------------------------------------------------------------
(* The credits in front of the output FIFO.                                *)

One(x) == IF x = None THEN 0 ELSE 1

LEMMA OneMore ==
  ASSUME NEW p, NEW k \in Nat, IsFiniteSet({i \in 1 .. k : p[i] # None})
  PROVE  /\ IsFiniteSet({i \in 1 .. k + 1 : p[i] # None})
         /\ Cardinality({i \in 1 .. k + 1 : p[i] # None})
              = Cardinality({i \in 1 .. k : p[i] # None}) + One(p[k + 1])
<1> DEFINE S == {i \in 1 .. k : p[i] # None}
           T == {i \in 1 .. k + 1 : p[i] # None}
<1>1. CASE p[k + 1] = None
  <2>1. T = S
    BY <1>1
  <2>2. Cardinality(S) \in Nat
    BY FS_CardinalityType
  <2> QED BY <1>1, <2>1, <2>2 DEF One
<1>2. CASE p[k + 1] # None
  <2>1. T = S \cup {k + 1} /\ k + 1 \notin S
    BY <1>2
  <2> QED BY <1>2, <2>1, FS_AddElement DEF One
<1> QED BY <1>1, <1>2

LEMMA Occupied ==
  ASSUME NEW p
  PROVE  Cardinality({i \in 1 .. 4 : p[i] # None})
           = One(p[1]) + One(p[2]) + One(p[3]) + One(p[4])
<1>0. {i \in 1 .. 0 : p[i] # None} = {}
  OBVIOUS
<1>1. /\ IsFiniteSet({i \in 1 .. 0 : p[i] # None})
      /\ Cardinality({i \in 1 .. 0 : p[i] # None}) = 0
  BY <1>0, FS_EmptySet
<1>2. /\ IsFiniteSet({i \in 1 .. 1 : p[i] # None})
      /\ Cardinality({i \in 1 .. 1 : p[i] # None}) = 0 + One(p[1])
  <2>1. 0 + 1 = 1
    OBVIOUS
  <2> QED BY <1>1, <2>1, OneMore
<1>3. /\ IsFiniteSet({i \in 1 .. 2 : p[i] # None})
      /\ Cardinality({i \in 1 .. 2 : p[i] # None}) = 0 + One(p[1]) + One(p[2])
  <2>1. 1 + 1 = 2
    OBVIOUS
  <2> QED BY <1>2, <2>1, OneMore
<1>4. /\ IsFiniteSet({i \in 1 .. 3 : p[i] # None})
      /\ Cardinality({i \in 1 .. 3 : p[i] # None}) = 0 + One(p[1]) + One(p[2]) + One(p[3])
  <2>1. 2 + 1 = 3
    OBVIOUS
  <2> QED BY <1>3, <2>1, OneMore
<1>5. Cardinality({i \in 1 .. 4 : p[i] # None})
        = 0 + One(p[1]) + One(p[2]) + One(p[3]) + One(p[4])
  <2>1. 3 + 1 = 4
    OBVIOUS
  <2> QED BY <1>4, <2>1, OneMore
<1> QED BY <1>5 DEF One

CreditInv ==
  /\ credit \in Nat /\ held \in Nat
  /\ credit + held + One(pipe[1]) + One(pipe[2]) + One(pipe[3]) + One(pipe[4]) = OutDepth

LEMMA CreditKept ==
  ASSUME Types, CreditInv, NEW req \in Asks, NEW pop \in {FALSE, held > 0}, NEW deliver,
         Hist(req, pop, deliver)
  PROVE  CreditInv'
<1>1. ReadPipe(req, pop)
  BY DEF Hist
<1>2. credit' = credit_d(req, pop) /\ held' = held + (IF out_v /\ held < OutDepth THEN 1 ELSE 0)
                                                  - (IF pop THEN 1 ELSE 0)
  BY <1>1 DEF ReadPipe
<1>3. One(pipe'[1]) = Cardinality(req) /\ Cardinality(req) \in 0 .. credit
  <2>1. CASE req = {} /\ pipe'[1] = None
    BY <2>1, FS_EmptySet DEF One, CreditInv
  <2>2. CASE MayAsk /\ \E off \in Nat : \E bin \in Beat :
               req = {<<off, bin>>} /\ pipe'[1] = Decode(off, bin)
    <3>1. Cardinality(req) = 1
      BY <2>2, FS_Singleton
    <3>2. credit >= 1
      BY <2>2 DEF MayAsk, rd_req_ready, CreditInv
    <3>3. pipe'[1] # None
      BY <2>2, DecodeTyped, NoneApart
    <3> QED BY <3>1, <3>2, <3>3 DEF One, CreditInv
  <2> QED BY <1>1, <2>1, <2>2, PipeMoves
<1>4. /\ One(pipe'[2]) = One(pipe[1]) /\ One(pipe'[4]) = One(pipe[3])
      /\ One(pipe'[3]) = One(pipe[2])
  <2>1. pipe[2] \in Entry \cup {None}
    BY DEF Types, ReadTypes
  <2>2. pipe[2] # None => Read(pipe[2]) # None
    BY <2>1, ReadTyped, NoneApart
  <2> QED BY <1>1, <2>2, PipeMoves DEF One
<1>5. held < OutDepth \/ ~out_v
  BY DEF CreditInv, out_v, One
<1>6. pop => held > 0
  OBVIOUS
<1>7. credit' = credit - Cardinality(req) + (IF pop THEN 1 ELSE 0)
  BY <1>2 DEF credit_d
<1>8. held' = held + One(pipe[4]) - (IF pop THEN 1 ELSE 0)
  BY <1>2, <1>5 DEF out_v, One, CreditInv
<1>9. One(pipe[1]) \in 0 .. 1 /\ One(pipe[2]) \in 0 .. 1 /\ One(pipe[3]) \in 0 .. 1
      /\ One(pipe[4]) \in 0 .. 1
  BY DEF One
<1>10. (IF pop THEN 1 ELSE 0) \in 0 .. held /\ (IF pop THEN 1 ELSE 0) \in 0 .. 1
  BY <1>6 DEF CreditInv
<1> QED BY <1>3, <1>4, <1>7, <1>8, <1>9, <1>10 DEF CreditInv

-----------------------------------------------------------------------------
(* The rotation of the ring and the barrier over the antennas.             *)

Rotating == Rotation /\ (frames_done = 0 => done_slot = 0)

LEMMA InitRotating == Init => Rotating
<1> SUFFICES ASSUME Init PROVE Rotating
  OBVIOUS
<1>1. /\ slot = [a \in Ant |-> 0] /\ frame = [a \in Ant |-> 0]
      /\ depth = FramesMax /\ frames_done = 0 /\ done_slot = 0
  BY DEF Init
<1>2. 0 % FramesMax = 0
  BY GeometryAssumption, ModSmall
<1> QED BY <1>1, <1>2, GeometryAssumption DEF Rotating, Rotation

\* An increment that wraps at the depth follows the remainder.
LEMMA SlotFollows ==
  ASSUME NEW d \in 1 .. FramesMax, NEW f \in Nat
  PROVE  SlotSucc(f % d, d) = (f + 1) % d
<1>1. d \in Nat \ {0}
  BY GeometryAssumption
<1>2. (f + 1) % d = IF (f % d) + 1 = d THEN 0 ELSE (f % d) + 1
  BY <1>1, ModSucc
<1> QED BY <1>2 DEF SlotSucc

LEMMA RotatingKept ==
  ASSUME Types, Rotating, NEW fire \in SUBSET Ant, NEW write \in Writes, Core(fire, write)
  PROVE  Rotating' /\ (~depth_apply => frames_done' \in {frames_done, frames_done + 1})
<1>1. /\ depth \in 1 .. FramesMax /\ frames_done \in Nat /\ FramesMax \in Nat \ {0, 1}
      /\ frame \in [Ant -> 0 .. FrameLimit] /\ FrameLimit \in Nat
  BY GeometryAssumption, EnvAssumption DEF Types, WriteTypes, DepthTypes, BarTypes
<1>2. /\ \A a \in Ant : slot[a] = frame[a] % depth /\ frame[a] >= frames_done
      /\ \E a \in Ant : frame[a] <= frames_done + 1
      /\ frames_done > 0 => done_slot = (frames_done - 1) % depth
      /\ frames_done = 0 => done_slot = 0
  BY DEF Rotating, Rotation
<1>3. CASE depth_apply
  <2>1. /\ slot' = [a \in Ant |-> 0] /\ frame' = [a \in Ant |-> 0]
        /\ frames_done' = 0 /\ done_slot' = 0
    BY <1>3 DEF Core, Sequencers, Barrier
  <2>2. depth' \in 1 .. FramesMax
    BY DepthTypesKept DEF DepthTypes
  <2>3. 0 % depth' = 0
    BY <2>2, ZeroSlot
  <2> QED BY <1>3, <2>1, <2>3, GeometryAssumption DEF Rotating, Rotation
<1>4. CASE ~depth_apply
  <2>1. /\ slot' = [a \in Ant |-> IF a \in fire /\ eof(a) THEN SlotSucc(slot[a], depth)
                                  ELSE slot[a]]
        /\ frame' = [a \in Ant |-> IF a \in fire /\ eof(a) THEN frame[a] + 1
                                   ELSE frame[a]]
    BY <1>4 DEF Core, Sequencers
  <2>2. depth' = depth
    BY <1>4 DEF Core, DepthControl
  <2>3. /\ frames_done' = IF all_past_barrier THEN frames_done + 1 ELSE frames_done
        /\ done_slot' = IF all_past_barrier /\ frames_done # 0
                        THEN SlotSucc(done_slot, depth) ELSE done_slot
    BY <1>4 DEF Core, Barrier, frames_done_inc
  <2>4. \A a \in Ant : slot'[a] = frame'[a] % depth
    <3> TAKE a \in Ant
    <3>1. frame[a] \in Nat /\ slot[a] = frame[a] % depth
      BY <1>1, <1>2
    <3>2. SlotSucc(frame[a] % depth, depth) = (frame[a] + 1) % depth
      BY <1>1, <3>1, SlotFollows
    <3> QED BY <2>1, <3>1, <3>2
  <2>5. \A a \in Ant : frame'[a] >= frames_done'
    BY <1>1, <1>2, <2>1, <2>3 DEF all_past_barrier
  <2>6. \E a \in Ant : frame'[a] <= frames_done' + 1
    <3>1. CASE all_past_barrier
      <4>1. PICK a \in Ant : frame[a] <= frames_done + 1
        BY <1>2
      <4>2. frame'[a] <= frame[a] + 1
        BY <1>1, <2>1
      <4> QED BY <1>1, <2>1, <2>3, <3>1, <4>1, <4>2
    <3>2. CASE ~all_past_barrier
      <4>1. PICK a \in Ant : frame[a] = frames_done
        BY <3>2 DEF all_past_barrier
      <4> QED BY <1>1, <2>1, <2>3, <3>2, <4>1
    <3> QED BY <3>1, <3>2
  <2>7. frames_done' > 0 => done_slot' = (frames_done' - 1) % depth
    <3>1. CASE all_past_barrier /\ frames_done = 0
      <4>1. 0 % depth = 0
        BY <1>1, ModSmall
      <4>2. frames_done' - 1 = 0 /\ done_slot' = 0
        BY <1>1, <1>2, <2>3, <3>1
      <4> QED BY <4>1, <4>2
    <3>2. CASE all_past_barrier /\ frames_done # 0
      <4>1. PICK f \in Nat : frames_done = f + 1
        BY <1>1, <3>2
      <4>2. done_slot = f % depth
        BY <1>1, <1>2, <3>2, <4>1
      <4>3. done_slot' = (f + 1) % depth
        BY <1>1, <2>3, <3>2, <4>2, SlotFollows
      <4>4. frames_done' - 1 = f + 1
        BY <2>3, <3>2, <4>1
      <4> QED BY <4>3, <4>4
    <3>3. CASE ~all_past_barrier
      BY <1>2, <2>3, <3>3
    <3> QED BY <3>1, <3>2, <3>3
  <2>8. frames_done' = 0 => done_slot' = 0
    BY <1>1, <1>2, <2>3
  <2> QED BY <1>4, <2>2, <2>3, <2>4, <2>5, <2>6, <2>7, <2>8 DEF Rotating, Rotation
<1> QED BY <1>3, <1>4

\* Where software writes no depth, no change is pending and there is one epoch.
Quiet == DepthWrites = {} => ~depth_pending /\ epoch = 0

LEMMA QuietKept ==
  ASSUME Quiet, NEW fire \in SUBSET Ant, NEW write \in Writes, Core(fire, write)
  PROVE  Quiet' /\ (DepthWrites = {} => ~depth_apply)
<1> SUFFICES ASSUME DepthWrites = {} PROVE ~depth_pending' /\ epoch' = 0 /\ ~depth_apply
  BY DEF Quiet
<1>1. write = {}
  BY DEF Writes, AtMostOne
<1>2. ~depth_pending /\ ~depth_apply /\ epoch = 0
  BY DEF Quiet, depth_apply
<1>3. depth_pending' <=> ((depth_pending \/ write # {}) /\ ~depth_apply)
  BY Zenon DEF Core, DepthControl
<1>4. epoch' = 0
  BY <1>2 DEF Core, DepthControl
<1> QED BY <1>1, <1>2, <1>3, <1>4

LEMMA OverwriteKept ==
  ASSUME Types, Rotating, OverwriteExact,
         NEW fire \in SUBSET Ant, NEW write \in Writes, Core(fire, write)
  PROVE  OverwriteExact'
<1>1. /\ depth \in 1 .. FramesMax /\ frames_done \in Nat /\ FramesMax \in Nat
      /\ overwrites \in Nat /\ epoch \in Nat
  BY GeometryAssumption, EnvAssumption DEF Types, DepthTypes, BarTypes
<1>2. CASE depth_apply
  <2>1. epoch' # 0
    BY <1>1, <1>2 DEF Core, DepthControl
  <2> QED BY <2>1 DEF OverwriteExact
<1>3. CASE ~depth_apply
  <2>1. depth' = depth /\ epoch' = epoch
    BY <1>3 DEF Core, DepthControl
  <2>2. /\ overwrites' = IF frames_done_inc /\ frames_done >= depth THEN overwrites + 1 ELSE overwrites
        /\ frames_done' = IF frames_done_inc THEN frames_done + 1 ELSE frames_done
    BY <1>3 DEF Core, Barrier, overwrite_event
  <2> QED BY <1>1, <2>1, <2>2 DEF OverwriteExact
<1> QED BY <1>2, <1>3

-----------------------------------------------------------------------------
(* The publication: what crosses belongs to one configuration, is never    *)
(* ahead of the barrier of its epoch, and arrives in order.                *)

Consistent(b) ==
  /\ b.done_slot = IF b.frames_done = 0 THEN 0 ELSE (b.frames_done - 1) % b.depth
  /\ b.readable <= b.frames_done /\ (b.readable = 0 \/ b.readable <= b.depth - 2)
Announced(b, e) ==
  /\ Consistent(b) /\ e <= epoch
  /\ e = epoch => b.frames_done <= frames_done /\ (b.depth = depth \/ b.readable = 0)
Ordered ==
  crossing.state = "req" =>
    /\ Announced(crossing.bundle, crossing.epoch) /\ seen_epoch <= crossing.epoch
    /\ seen_epoch = crossing.epoch => view.frames_done <= crossing.bundle.frames_done

ViewInv == Announced(view, seen_epoch) /\ Ordered

LEMMA InitViewInv == Init => ViewInv
<1> SUFFICES ASSUME Init PROVE ViewInv
  OBVIOUS
<1>1. /\ view = [unsafe |-> FALSE, readable |-> 0, depth |-> 1, done_slot |-> 0, frames_done |-> 0]
      /\ seen_epoch = 0 /\ epoch = 0 /\ frames_done = 0 /\ crossing = [state |-> "idle"]
  BY DEF Init
<1> QED BY <1>1 DEF ViewInv, Announced, Consistent, Ordered

\* An epoch never goes back, and within one the barrier only advances.
LEMMA EpochOrder ==
  ASSUME Types, Rotating, NEW fire \in SUBSET Ant, NEW write \in Writes, Core(fire, write)
  PROVE  /\ epoch' \in {epoch, epoch + 1} /\ epoch \in Nat
         /\ epoch' = epoch => ~depth_apply /\ depth' = depth /\ frames_done' >= frames_done
<1>1. epoch \in Nat /\ frames_done \in Nat
  BY EnvAssumption DEF Types, DepthTypes, BarTypes
<1>2. CASE depth_apply
  BY <1>1, <1>2 DEF Core, DepthControl
<1>3. CASE ~depth_apply
  <2>1. epoch' = epoch /\ depth' = depth
    BY <1>3 DEF Core, DepthControl
  <2>2. frames_done' \in {frames_done, frames_done + 1}
    BY <1>3, RotatingKept
  <2> QED BY <1>1, <1>3, <2>1, <2>2
<1> QED BY <1>2, <1>3

LEMMA BundleAnnounced ==
  ASSUME Types, Rotating
  PROVE  Announced(pub_bundle, epoch)
<1>1. depth \in 1 .. FramesMax /\ frames_done \in Nat /\ epoch \in Nat /\ FramesMax \in Nat
  BY GeometryAssumption, EnvAssumption DEF Types, DepthTypes, BarTypes
<1>2. /\ pub_bundle.done_slot = done_slot /\ pub_bundle.depth = depth
      /\ pub_bundle.frames_done = frames_done
  BY DEF pub_bundle
<1>3. done_slot = IF frames_done = 0 THEN 0 ELSE (frames_done - 1) % depth
  BY <1>1 DEF Rotating, Rotation
<1> QED BY <1>1, <1>2, <1>3, BundleTyped DEF Announced, Consistent

LEMMA ViewKeptByCore ==
  ASSUME Types, Rotating, ViewInv,
         NEW fire \in SUBSET Ant, NEW write \in Writes, Core(fire, write)
  PROVE  ViewInv'
<1>0. view' = view /\ seen_epoch' = seen_epoch
  BY DEF Core, readVars
<1>1. /\ seen_epoch \in Nat /\ view \in Bundle /\ view.frames_done \in Nat /\ frames_done \in Nat
  BY DEF Types, ReadTypes, BarTypes, Bundle
<1>2. frames_done' \in Nat
  BY BarTypesKept DEF BarTypes
<1>3. ASSUME NEW b, NEW e \in Nat, b.frames_done \in Nat, Consistent(b), e <= epoch,
             e = epoch => b.frames_done <= frames_done /\ (b.depth = depth \/ b.readable = 0)
      PROVE  /\ e <= epoch'
             /\ e = epoch' => b.frames_done <= frames_done' /\ (b.depth = depth' \/ b.readable = 0)
  <2>1. e <= epoch'
    BY <1>3, EpochOrder
  <2>2. e = epoch' => epoch' = epoch
    BY <1>3, EpochOrder
  <2>3. epoch' = epoch => depth' = depth /\ frames_done' >= frames_done
    BY EpochOrder
  <2> QED BY <1>1, <1>2, <1>3, <2>1, <2>2, <2>3
<1>4. Announced(view, seen_epoch)'
  BY <1>0, <1>1, <1>3 DEF ViewInv, Announced, Consistent
<1>5. CASE crossing' = crossing
  <2>1. SUFFICES ASSUME crossing.state = "req" PROVE ViewInv'
    BY <1>4, <1>5 DEF ViewInv, Ordered
  <2>2. crossing \in Sent
    BY <2>1 DEF Types, PubTypes
  <2>3. crossing.epoch \in Nat /\ crossing.bundle.frames_done \in Nat
    BY <2>2 DEF Sent, Bundle
  <2>4. Announced(crossing.bundle, crossing.epoch)
    BY <2>1 DEF ViewInv, Ordered
  <2>5. Announced(crossing.bundle, crossing.epoch)'
    BY <1>3, <1>5, <2>3, <2>4 DEF Announced, Consistent
  <2> QED BY <1>0, <1>4, <1>5, <2>5 DEF ViewInv, Ordered
<1>6. CASE crossing' = [state |-> "req", bundle |-> pub_bundle, epoch |-> epoch]
  <2>1. crossing'.bundle = pub_bundle /\ crossing'.epoch = epoch /\ epoch \in Nat
    BY <1>6, EpochOrder
  <2>2. pub_bundle.frames_done = frames_done
    BY DEF pub_bundle
  <2>3. Announced(pub_bundle, epoch)
    BY BundleAnnounced
  <2>4. Announced(crossing.bundle, crossing.epoch)'
    BY <1>1, <1>3, <2>1, <2>2, <2>3 DEF Announced, Consistent
  <2>5. seen_epoch' <= crossing'.epoch
        /\ (seen_epoch' = crossing'.epoch => view'.frames_done <= crossing'.bundle.frames_done)
    BY <1>0, <2>1, <2>2 DEF ViewInv, Announced
  <2> QED BY <1>4, <2>4, <2>5 DEF ViewInv, Ordered
<1> QED BY <1>5, <1>6 DEF Core, Publisher

LEMMA ViewKeptByHist ==
  ASSUME Types, ViewInv, NEW req, NEW pop, NEW deliver, Hist(req, pop, deliver)
  PROVE  ViewInv'
<1>1. UNCHANGED <<epoch, frames_done, depth>>
  BY DEF Hist, depthVars, barVars
<1>2. CASE deliver /\ crossing.state = "req"
  <2>1. view' = crossing.bundle /\ seen_epoch' = crossing.epoch /\ crossing' = [state |-> "ack"]
    BY <1>2 DEF Hist, View
  <2>2. crossing'.state # "req"
    BY <2>1
  <2> QED BY <1>1, <1>2, <2>1, <2>2 DEF ViewInv, Ordered, Announced, Consistent
<1>3. CASE view' = view /\ seen_epoch' = seen_epoch /\ crossing' = crossing
  BY <1>1, <1>3 DEF ViewInv, Ordered, Announced, Consistent
<1> QED BY <1>2, <1>3 DEF Hist, View

LEMMA ViewSuffices == ASSUME Types, ViewInv PROVE ViewIsConsistent
<1>1. /\ view.depth \in Nat \ {0} /\ view.readable \in Nat /\ view.frames_done \in Nat
  BY GeometryAssumption DEF Types, ReadTypes, Bundle
<1> QED BY <1>1 DEF ViewInv, Announced, Consistent, ViewIsConsistent

LEMMA ForgottenKept ==
  ASSUME Types, NothingForgotten, [Next]_vars
  PROVE  NothingForgotten'
<1>1. ASSUME NEW fire \in SUBSET Ant, NEW write \in Writes, Core(fire, write)
      PROVE  NothingForgotten'
  <2>1. view' = view
    BY <1>1 DEF Core, readVars
  <2>2. CASE pub_sent' = pub_bundle /\ crossing' = [state |-> "req", bundle |-> pub_bundle, epoch |-> epoch]
    BY <2>2 DEF NothingForgotten
  <2>3. CASE UNCHANGED <<pub_sent, crossing>>
    BY <2>1, <2>3 DEF NothingForgotten
  <2> QED BY <1>1, <2>2, <2>3 DEF Core, Publisher
<1>2. ASSUME NEW req, NEW pop, NEW deliver, Hist(req, pop, deliver)
      PROVE  NothingForgotten'
  <2>1. pub_sent' = pub_sent
    BY <1>2 DEF Hist, pubVars
  <2>2. CASE crossing.state = "req" /\ view' = crossing.bundle /\ crossing' = [state |-> "ack"]
    BY <2>1, <2>2 DEF NothingForgotten
  <2>3. CASE UNCHANGED <<view, crossing>>
    BY <2>1, <2>3 DEF NothingForgotten
  <2> QED BY <1>2, <2>2, <2>3 DEF Hist, View
<1>3. CASE Acknowledge
  BY <1>3 DEF Acknowledge, pubVars, readVars, NothingForgotten
<1>4. CASE UNCHANGED vars
  BY <1>4 DEF vars, pubVars, readVars, NothingForgotten
<1> QED BY <1>1, <1>2, <1>3, <1>4, NextNamed

-----------------------------------------------------------------------------
(* The read pipe.                                                          *)

\* An offset in range is not changed; its slot is its frame's and neither the one
\* being filled nor the one to be filled next.
LEMMA InRange ==
  ASSUME Types, ViewInv, NEW off \in Nat, NEW bin \in Beat, ~Decode(off, bin).oor
  PROVE  LET r == Decode(off, bin)
         IN  /\ r.off = off /\ r.beat = bin /\ off < view.readable
             /\ r.frame_id = view.frames_done - 1 - off /\ r.frame_id \in Nat
             /\ off + 3 <= view.depth
             /\ r.slot = r.frame_id % view.depth /\ ~r.hit
<1>1. /\ view.readable \in Nat /\ view.depth \in 1 .. FramesMax /\ view.done_slot \in Nat
      /\ view.frames_done \in Nat /\ FramesMax \in Nat \ {0} /\ off \in Nat
      /\ view.done_slot < view.depth
  BY GeometryAssumption, EnvAssumption DEF Types, ReadTypes, Bundle, Slot
<1>2. ~oor(off) /\ off_safe(off) = off /\ off < view.readable
  <2>1. Decode(off, bin).oor = oor(off)
    BY DEF Decode
  <2>2. ~oor(off)
    BY <2>1
  <2> QED BY <1>1, <2>2 DEF oor, off_safe
<1>3. /\ view.readable <= view.frames_done /\ view.readable <= view.depth - 2
      /\ view.done_slot = (view.frames_done - 1) % view.depth
  BY <1>1, <1>2 DEF ViewInv, Announced, Consistent
<1>4. off + 3 <= view.depth /\ off + 1 <= view.frames_done
  BY <1>1, <1>2, <1>3
<1>5. slot_of(off) = IF view.done_slot >= off THEN view.done_slot - off
                     ELSE view.done_slot - off + view.depth
  <2>1. CASE view.done_slot < off
    <3>1. PICK x \in Nat : x = view.done_slot - off + view.depth
      BY <1>1, <1>4
    <3>2. x < FramesMax
      BY <1>1, <2>1, <3>1
    <3>3. x % FramesMax = x
      BY <1>1, <3>2, ModSmall
    <3> QED BY <1>1, <2>1, <3>1, <3>3 DEF slot_of
  <2> QED BY <1>1, <2>1 DEF slot_of
<1>6. slot_of(off) # write_slot
  BY <1>1, <1>4, <1>5 DEF write_slot, SlotSucc
<1>7. slot_of(off) = (view.frames_done - 1 - off) % view.depth
  <2>1. PICK x \in Nat : x = view.frames_done - 1
    BY <1>1, <1>4
  <2>2. view.depth \in Nat \ {0} /\ off < view.depth /\ off <= x
    BY <1>1, <1>4, <2>1
  <2>3. (x - off) % view.depth = IF x % view.depth >= off THEN (x % view.depth) - off
                                 ELSE (x % view.depth) - off + view.depth
    BY <1>1, <2>2, ModBack
  <2> QED BY <1>3, <1>5, <2>1, <2>3
<1>8. /\ Decode(off, bin).off = off /\ Decode(off, bin).beat = bin
      /\ Decode(off, bin).frame_id = view.frames_done - 1 - off
      /\ Decode(off, bin).slot = slot_of(off)
  BY <1>2 DEF Decode
<1>9. ~Decode(off, bin).hit
  BY <1>2, <1>6 DEF Decode
<1> QED BY <1>1, <1>2, <1>4, <1>7, <1>8, <1>9

Safe == \A i \in 1 .. 4 : pipe[i] # None /\ ~pipe[i].oor => ~pipe[i].hit

LEMMA SafeKept ==
  ASSUME Types, ViewInv, Safe, NEW req \in Asks, NEW pop, NEW deliver, Hist(req, pop, deliver)
  PROVE  Safe'
<1> DEFINE good(r) == r # None /\ ~r.oor => ~r.hit
<1>1. ReadPipe(req, pop) /\ good(pipe[1]) /\ good(pipe[2]) /\ good(pipe[3])
  BY DEF Hist, Safe
<1>2. good(pipe'[1])
  BY <1>1, PipeMoves, InRange
<1>3. good(pipe'[3])
  <2>1. pipe[2] \in Entry \cup {None}
    BY DEF Types, ReadTypes
  <2> QED BY <1>1, <2>1, PipeMoves, ReadTyped
<1>4. good(pipe'[2]) /\ good(pipe'[4])
  BY <1>1, PipeMoves
<1>5. \A i \in 1 .. 4 : good(pipe'[i])
  BY <1>2, <1>3, <1>4
<1> QED BY <1>5 DEF Safe

-----------------------------------------------------------------------------
(* What holds when sources and reader pause around a depth change, or when *)
(* there is none.                                                          *)

Careful == Quiesce \/ DepthWrites = {}

\* While anything is being read, no change waits and the view is of this epoch.
Settled == \A i \in 1 .. 4 : pipe[i] # None => ~depth_pending /\ seen_epoch = epoch

\* A change lands on no beat, so the sequencers never part from their sources.
Framed == /\ \A a \in Ant : beat[a] = src_beat[a] /\ (in_frame[a] <=> src_beat[a] # 0)
          /\ ~fault.framing

LEMMA SettledKeptByCore ==
  ASSUME Careful, Types, Rotating, Quiet, Settled,
         NEW fire \in SUBSET Ant, NEW write \in Writes, Core(fire, write)
  PROVE  Settled' /\ \A i \in 1 .. 4 : pipe[i] # None => epoch' = epoch /\ depth' = depth
<1>1. SUFFICES ASSUME NEW i \in 1 .. 4, pipe[i] # None
               PROVE  ~depth_pending' /\ seen_epoch' = epoch' /\ epoch' = epoch /\ depth' = depth
  BY DEF Settled, Core, readVars
<1>2. ~depth_pending /\ seen_epoch = epoch /\ ~depth_apply
  BY <1>1 DEF Settled, depth_apply
<1>3. write = {}
  BY <1>1, <1>2 DEF Writes, AtMostOne, MayApply, Careful
<1>4. depth_pending' <=> ((depth_pending \/ write # {}) /\ ~depth_apply)
  BY Zenon DEF Core, DepthControl
<1>5. epoch' = epoch /\ depth' = depth /\ seen_epoch' = seen_epoch
  BY <1>2 DEF Core, DepthControl, readVars
<1> QED BY <1>2, <1>3, <1>4, <1>5

LEMMA SettledKeptByHist ==
  ASSUME Careful, Types, ViewInv, Quiet, Settled,
         NEW req \in Asks, NEW pop, NEW deliver, Hist(req, pop, deliver)
  PROVE  /\ Settled'
         /\ seen_epoch = epoch => seen_epoch' = epoch /\ view'.frames_done >= view.frames_done
         /\ pipe'[1] # None => seen_epoch = epoch
<1>1. depth_pending' = depth_pending /\ epoch' = epoch
  BY DEF Hist, depthVars
<1>2. /\ epoch \in Nat /\ seen_epoch \in Nat /\ seen_epoch <= epoch /\ view.frames_done \in Nat
  BY EnvAssumption DEF Types, DepthTypes, ReadTypes, ViewInv, Announced, Bundle
<1>3. seen_epoch = epoch => seen_epoch' = epoch /\ view'.frames_done >= view.frames_done
  <2>1. CASE deliver /\ crossing.state = "req"
    <3>1. view' = crossing.bundle /\ seen_epoch' = crossing.epoch
      BY <2>1 DEF Hist, View
    <3>2. crossing \in Sent
      BY <2>1 DEF Types, PubTypes
    <3>3. crossing.epoch \in Nat /\ crossing.bundle.frames_done \in Nat
      BY <3>2 DEF Sent, Bundle
    <3> QED BY <1>2, <2>1, <3>1, <3>3 DEF ViewInv, Ordered, Announced
  <2>2. CASE view' = view /\ seen_epoch' = seen_epoch
    BY <1>2, <2>2
  <2> QED BY <2>1, <2>2 DEF Hist, View
<1>4. pipe'[1] # None => ~depth_pending /\ seen_epoch = epoch
  <2>1. pipe'[1] # None => MayAsk
    BY PipeMoves DEF Hist
  <2>2. Quiesce /\ MayAsk => ~depth_pending /\ seen_epoch = epoch
    BY DEF MayAsk
  <2>3. DepthWrites = {} => ~depth_pending /\ seen_epoch = epoch
    BY <1>2 DEF Quiet
  <2> QED BY <2>1, <2>2, <2>3 DEF Careful
<1>5. \A i \in 1 .. 3 : pipe[i] # None => ~depth_pending /\ seen_epoch = epoch
  BY DEF Settled
<1>6. pipe'[3] # None => pipe[2] # None
  BY PipeMoves DEF Hist
<1>7. pipe'[2] = pipe[1] /\ pipe'[4] = pipe[3]
  BY PipeMoves DEF Hist
<1>8. \A i \in 1 .. 4 : pipe'[i] # None => ~depth_pending /\ seen_epoch = epoch
  BY <1>4, <1>5, <1>6, <1>7
<1> QED BY <1>1, <1>3, <1>4, <1>8 DEF Settled

\* Nothing is accepted on the edge on which a change lands.
LEMMA NothingLandsOn ==
  ASSUME Careful, Quiet, Framed, Types, NEW fire \in SUBSET Ant, NEW write \in Writes,
         Core(fire, write), depth_apply
  PROVE  fire = {} /\ \A a \in Ant : src_beat[a] = 0
<1>1. Quiesce
  BY QuietKept DEF Careful
<1>2. depth_pending /\ \A a \in Ant : ~in_frame[a]
  BY DEF depth_apply, at_safe_boundary
<1>3. \A a \in Ant : src_beat[a] = 0
  BY <1>2 DEF Framed
<1>4. \A a \in fire : ~depth_pending
  BY <1>1, <1>3 DEF Core, MayBegin, sof
<1> QED BY <1>2, <1>3, <1>4

LEMMA FramedKept ==
  ASSUME Careful, Types, Quiet, Framed,
         NEW fire \in SUBSET Ant, NEW write \in Writes, Core(fire, write)
  PROVE  Framed'
<1>1. /\ src_beat \in [Ant -> Beat] /\ in_frame \in [Ant -> BOOLEAN]
      /\ \A a \in Ant : beat[a] = src_beat[a] /\ (in_frame[a] <=> src_beat[a] # 0)
      /\ ~fault.framing
  BY DEF Framed, Types, WriteTypes
<1>2. Beats \in Nat \ {0, 1}
  BY GeometryAssumption
<1>3. \A a \in Ant : src_beat'[a] = IF a \in fire
                       THEN IF eof(a) THEN 0 ELSE src_beat[a] + 1 ELSE src_beat[a]
  <2>1. \A a \in Ant : src_beat'[a] = IF a \in fire THEN (src_beat[a] + 1) % Beats ELSE src_beat[a]
    BY DEF Core, Sequencers
  <2> QED BY <1>1, <2>1, BeatSucc DEF eof
<1>4. ~fault'.framing
  <2>1. fault' = [framing |-> fault.framing \/ framing_err(fire),
                  skew    |-> fault.skew \/ (skew_now /\ ~skew)]
    BY DEF Core, Barrier
  <2>2. ~framing_err(fire)
    BY <1>1 DEF framing_err, eof, sof
  <2> QED BY <1>1, <2>1, <2>2
<1>5. \A a \in Ant : beat'[a] = src_beat'[a] /\ (in_frame'[a] <=> src_beat'[a] # 0)
  <2>1. CASE depth_apply
    <3>1. fire = {} /\ \A a \in Ant : src_beat[a] = 0
      BY <2>1, NothingLandsOn
    <3>2. beat' = [a \in Ant |-> 0] /\ in_frame' = [a \in Ant |-> FALSE]
      BY <2>1 DEF Core, Sequencers
    <3> QED BY <1>3, <3>1, <3>2
  <2>2. CASE ~depth_apply
    <3>1. /\ beat' = [a \in Ant |-> IF a \notin fire THEN beat[a]
                                    ELSE IF eof(a) THEN 0 ELSE (beat[a] + 1) % Beats]
          /\ in_frame' = [a \in Ant |-> IF a \in fire THEN ~eof(a) ELSE in_frame[a]]
      BY <2>2 DEF Core, Sequencers
    <3>2. \A a \in Ant : ~eof(a) => (beat[a] + 1) % Beats = src_beat[a] + 1
      BY <1>1, BeatSucc DEF eof
    <3>3. \A a \in Ant : beat'[a] = src_beat'[a]
      BY <1>1, <1>3, <3>1, <3>2
    <3>4. \A a \in Ant : in_frame'[a] <=> src_beat'[a] # 0
      <4> TAKE a \in Ant
      <4>1. src_beat[a] \in Nat
        BY <1>1, <1>2 DEF Beat
      <4>2. a \in fire => (in_frame'[a] <=> ~eof(a))
        BY <3>1
      <4>3. a \notin fire => (in_frame'[a] <=> in_frame[a])
        BY <3>1
      <4> QED BY <1>1, <1>3, <4>1, <4>2, <4>3
    <3> QED BY <3>3, <3>4
  <2> QED BY <2>1, <2>2
<1> QED BY <1>4, <1>5 DEF Framed

-----------------------------------------------------------------------------
(* What is in the banks, on its way there, and what is read from them.     *)

LEMMA SourceSteps ==
  ASSUME Types, NEW fire \in SUBSET Ant, NEW write \in Writes, Core(fire, write), NEW a \in Ant
  PROVE  src_beat'[a] = IF a \notin fire THEN src_beat[a]
                        ELSE IF eof(a) THEN 0 ELSE src_beat[a] + 1
<1>1. src_beat[a] \in Beat
  BY DEF Types, WriteTypes
<1>2. src_beat'[a] = IF a \in fire THEN (src_beat[a] + 1) % Beats ELSE src_beat[a]
  BY DEF Core, Sequencers
<1> QED BY <1>1, <1>2, BeatSucc DEF eof

\* The word of beat b of frame f has been sent and nothing newer lies over it.
Written(a, f, b) ==
  \/ f < frame[a] /\ frame[a] < f + depth
  \/ f = frame[a] /\ b < src_beat[a]
  \/ frame[a] = f + depth /\ src_beat[a] <= b

\* What the place holds once the writes on their way have landed.
Onto(w, s, b) == w # None /\ w.slot = s /\ w.beat = b
At(a, s, b) == IF Onto(wr[a], s, b) THEN wr[a].word
               ELSE IF Onto(bank_wr[a], s, b) THEN bank_wr[a].word
               ELSE mem[a][<<s, b>>]

Landing == \A a \in Ant : \A f \in Nat : \A b \in Beat :
             Written(a, f, b) => At(a, f % depth, b) = <<epoch, f, b>>

\* A word is on its way only while its frame has not been announced.
Late ==
  \A a \in Ant :
    /\ wr[a] # None /\ wr[a].word[1] = epoch => wr[a].word[2] >= frames_done
    /\ bank_wr[a] # None /\ bank_wr[a].word[1] = epoch =>
         /\ seen_epoch = epoch => bank_wr[a].word[2] >= view.frames_done
         /\ crossing.state = "req" /\ crossing.epoch = epoch =>
              bank_wr[a].word[2] >= crossing.bundle.frames_done

\* One edge moves what is on its way and adds what is accepted.
LEMMA AtMoves ==
  ASSUME Types, NEW fire \in SUBSET Ant, NEW write \in Writes, Core(fire, write),
         ~depth_apply, NEW a \in Ant, NEW s \in Slot, NEW b \in Beat
  PROVE  At(a, s, b)' = IF a \in fire /\ slot[a] = s /\ beat[a] = b
                        THEN <<epoch, frame[a], src_beat[a]>> ELSE At(a, s, b)
<1>1. mem \in [Ant -> [Slot \X Beat -> Word \cup {NoWord}]]
      /\ bank_wr \in [Ant -> Write \cup {None}]
  BY DEF Types, WriteTypes
<1>2. bank_wr'[a] = wr[a]
  BY DEF Core, BankWrite
<1>3. wr'[a] = IF a \in fire THEN [slot |-> slot[a], beat |-> beat[a],
                                   word |-> <<epoch, frame[a], src_beat[a]>>]
               ELSE None
  BY DEF Core, Sequencers
<1>4. mem'[a][<<s, b>>] = IF Onto(bank_wr[a], s, b) THEN bank_wr[a].word ELSE mem[a][<<s, b>>]
  <2>1. mem'[a] = IF bank_wr[a] = None THEN mem[a]
                  ELSE [mem[a] EXCEPT ![<<bank_wr[a].slot, bank_wr[a].beat>>] = bank_wr[a].word]
    BY <1>1 DEF Core, BankWrite
  <2>2. mem[a] \in [Slot \X Beat -> Word \cup {NoWord}] /\ <<s, b>> \in Slot \X Beat
    BY <1>1
  <2>3. (<<bank_wr[a].slot, bank_wr[a].beat>> = <<s, b>>) <=>
          (bank_wr[a].slot = s /\ bank_wr[a].beat = b)
    OBVIOUS
  <2> QED BY <2>1, <2>2, <2>3 DEF Onto
<1>5. Onto(wr'[a], s, b) <=> a \in fire /\ slot[a] = s /\ beat[a] = b
  BY <1>3 DEF Onto, None
<1>6. Onto(wr'[a], s, b) => wr'[a].word = <<epoch, frame[a], src_beat[a]>>
  BY <1>3, <1>5
<1> QED BY <1>2, <1>4, <1>5, <1>6 DEF At, Onto

\* A beat goes where the ring has its oldest word, and only there.
LEMMA WrittenMoves ==
  ASSUME Types, Rotating, Framed, NEW fire \in SUBSET Ant, NEW write \in Writes,
         Core(fire, write), ~depth_apply, NEW a \in fire, NEW f \in Nat, NEW b \in Beat,
         Written(a, f, b)'
  PROVE  IF slot[a] = f % depth /\ beat[a] = b THEN f = frame[a] /\ b = src_beat[a]
         ELSE Written(a, f, b)
<1>1. /\ frame[a] \in Nat /\ src_beat[a] \in Beat /\ depth \in Nat \ {0} /\ Beats \in Nat
      /\ b \in 0 .. Beats - 1 /\ src_beat[a] \in 0 .. Beats - 1
  BY GeometryAssumption, EnvAssumption DEF Types, WriteTypes, DepthTypes, Beat
<1>2. /\ depth' = depth /\ src_beat'[a] = IF eof(a) THEN 0 ELSE src_beat[a] + 1
      /\ frame'[a] = IF eof(a) THEN frame[a] + 1 ELSE frame[a]
  BY SourceSteps DEF Core, DepthControl, Sequencers
<1>3. slot[a] = frame[a] % depth /\ beat[a] = src_beat[a]
  BY DEF Rotating, Rotation, Framed
<1>4. \/ f < frame'[a] /\ frame'[a] < f + depth
      \/ f = frame'[a] /\ b < src_beat'[a]
      \/ frame'[a] = f + depth /\ src_beat'[a] <= b
  BY <1>2 DEF Written
<1>5. CASE slot[a] = f % depth /\ beat[a] = b
  <2>1. f % depth = frame[a] % depth /\ b = src_beat[a]
    BY <1>3, <1>5
  <2>2. f <= frame[a] /\ frame[a] < f + depth
    BY <1>1, <1>2, <1>4, <2>1 DEF eof
  <2>3. f = frame[a]
    BY <1>1, <2>1, <2>2, ModInjective
  <2> QED BY <1>5, <2>1, <2>3
<1>6. CASE ~(slot[a] = f % depth /\ beat[a] = b)
  <2>1. f = frame[a] => b # src_beat[a]
    BY <1>3, <1>6
  <2> QED BY <1>1, <1>2, <1>4, <1>6, <2>1 DEF Written, eof
<1> QED BY <1>5, <1>6

\* Nothing counts as written at the start of an epoch.
LEMMA NothingWritten ==
  ASSUME NEW d \in Nat \ {0}, NEW f \in Nat, NEW b \in Beat
  PROVE  ~(f < 0) /\ ~(b < 0) /\ 0 # f + d
BY GeometryAssumption DEF Beat

LEMMA LandingKept ==
  ASSUME Careful, Types, Rotating, Quiet, Framed, Landing,
         NEW fire \in SUBSET Ant, NEW write \in Writes, Core(fire, write)
  PROVE  Landing'
<1> SUFFICES ASSUME NEW a \in Ant, NEW f \in Nat, NEW b \in Beat, Written(a, f, b)'
             PROVE  (At(a, f % depth, b) = <<epoch, f, b>>)'
  BY DEF Landing
<1>1. CASE depth_apply
  <2>1. frame'[a] = 0 /\ src_beat'[a] = 0
    <3>1. a \notin fire /\ src_beat[a] = 0
      BY <1>1, NothingLandsOn
    <3>2. src_beat'[a] = 0
      BY <3>1, SourceSteps
    <3> QED BY <1>1, <3>2 DEF Core, Sequencers
  <2>2. depth' \in Nat \ {0}
    BY DepthTypesKept, GeometryAssumption DEF DepthTypes
  <2> QED BY <2>1, <2>2, NothingWritten DEF Written
<1>2. CASE ~depth_apply
  <2>1. depth' = depth /\ epoch' = epoch
    BY <1>2 DEF Core, DepthControl
  <2>2. PICK s \in Slot : s = f % depth
    <3>1. depth \in 1 .. FramesMax /\ FramesMax \in Nat /\ depth \in Nat \ {0}
      BY GeometryAssumption DEF Types, DepthTypes
    <3>2. f % depth \in 0 .. depth - 1
      BY <3>1, ModRange
    <3> QED BY <3>1, <3>2 DEF Slot
  <2>3. At(a, s, b)' = IF a \in fire /\ slot[a] = s /\ beat[a] = b
                       THEN <<epoch, frame[a], src_beat[a]>> ELSE At(a, s, b)
    BY <1>2, AtMoves
  <2>4. Written(a, f, b) => At(a, s, b) = <<epoch, f, b>>
    BY <2>2 DEF Landing
  <2>5. At(a, s, b)' = <<epoch, f, b>>
    <3>1. CASE a \in fire
      BY <1>2, <2>2, <2>3, <2>4, <3>1, WrittenMoves
    <3>2. CASE a \notin fire
      <4>1. src_beat'[a] = src_beat[a]
        BY <3>2, SourceSteps
      <4>2. frame'[a] = frame[a]
        BY <1>2, <3>2 DEF Core, Sequencers
      <4>3. Written(a, f, b)
        BY <2>1, <4>1, <4>2 DEF Written
      <4> QED BY <2>3, <2>4, <3>2, <4>3
    <3> QED BY <3>1, <3>2
  <2>6. s = f % depth'
    BY <2>1, <2>2
  <2> QED BY <2>1, <2>5, <2>6 DEF At
<1> QED BY <1>1, <1>2

LEMMA LateKeptByCore ==
  ASSUME Types, Rotating, ViewInv, Late,
         NEW fire \in SUBSET Ant, NEW write \in Writes, Core(fire, write)
  PROVE  Late'
<1> SUFFICES ASSUME NEW a \in Ant
             PROVE  /\ wr'[a] # None /\ wr'[a].word[1] = epoch' => wr'[a].word[2] >= frames_done'
                    /\ bank_wr'[a] # None /\ bank_wr'[a].word[1] = epoch' =>
                         /\ seen_epoch' = epoch' => bank_wr'[a].word[2] >= view'.frames_done
                         /\ crossing'.state = "req" /\ crossing'.epoch = epoch' =>
                              bank_wr'[a].word[2] >= crossing'.bundle.frames_done
  BY DEF Late
<1>1. /\ frames_done \in Nat /\ frame[a] \in Nat /\ frame[a] >= frames_done /\ epoch \in Nat
      /\ seen_epoch <= epoch /\ seen_epoch \in Nat /\ wr[a] \in Write \cup {None}
      /\ view.frames_done \in Nat /\ crossing \in Sent \cup {[state |-> "idle"], [state |-> "ack"]}
  BY EnvAssumption DEF Types, WriteTypes, DepthTypes, BarTypes, PubTypes, ReadTypes, Bundle,
                       Rotating, Rotation, ViewInv, Announced
<1>2. bank_wr'[a] = wr[a] /\ view' = view /\ seen_epoch' = seen_epoch
  BY DEF Core, BankWrite, readVars
<1>3. CASE depth_apply
  <2>1. wr'[a] = None /\ epoch' = epoch + 1
    BY <1>3 DEF Core, Sequencers, DepthControl
  <2>2. seen_epoch' # epoch'
    BY <1>1, <1>2, <2>1
  <2>3. crossing'.state = "req" => crossing'.epoch # epoch'
    <3>1. CASE crossing' = crossing
      <4>1. crossing.state = "req" => crossing.epoch \in Nat /\ crossing.epoch <= epoch
        BY <1>1 DEF Sent, ViewInv, Ordered, Announced
      <4> QED BY <1>1, <2>1, <3>1, <4>1
    <3>2. CASE crossing' = [state |-> "req", bundle |-> pub_bundle, epoch |-> epoch]
      BY <1>1, <2>1, <3>2
    <3> QED BY <3>1, <3>2 DEF Core, Publisher
  <2> QED BY <2>1, <2>2, <2>3
<1>4. CASE ~depth_apply
  <2>1. epoch' = epoch
    BY <1>4 DEF Core, DepthControl
  <2>2. wr'[a] # None => wr'[a].word[2] >= frames_done'
    <3>1. wr'[a] # None => wr'[a].word = <<epoch, frame[a], src_beat[a]>>
      BY <1>4 DEF Core, Sequencers
    <3>2. frames_done' = IF all_past_barrier THEN frames_done + 1 ELSE frames_done
      BY <1>4 DEF Core, Barrier, frames_done_inc
    <3>3. frame[a] >= frames_done'
      BY <1>1, <3>2 DEF all_past_barrier
    <3> QED BY <3>1, <3>3
  <2>3. wr[a] # None /\ wr[a].word[1] = epoch => wr[a].word[2] >= frames_done /\ wr[a].word[2] \in Int
    <3>1. wr[a] # None => wr[a].word[2] \in Int
      BY <1>1, EnvAssumption DEF Write, Word
    <3> QED BY <3>1 DEF Late
  <2>4. seen_epoch = epoch => view.frames_done <= frames_done
    BY DEF ViewInv, Announced
  <2>5. crossing'.state = "req" /\ crossing'.epoch = epoch =>
          crossing'.bundle.frames_done <= frames_done /\ crossing'.bundle.frames_done \in Nat
    <3>1. CASE crossing' = crossing
      BY <1>1, <3>1 DEF Sent, Bundle, ViewInv, Ordered, Announced
    <3>2. CASE crossing' = [state |-> "req", bundle |-> pub_bundle, epoch |-> epoch]
      <4>1. crossing'.bundle.frames_done = frames_done
        BY <3>2 DEF pub_bundle
      <4> QED BY <1>1, <4>1
    <3> QED BY <3>1, <3>2 DEF Core, Publisher
  <2>6. seen_epoch = epoch /\ wr[a] # None /\ wr[a].word[1] = epoch => wr[a].word[2] >= view.frames_done
    BY <1>1, <2>3, <2>4
  <2>7. crossing'.state = "req" /\ crossing'.epoch = epoch /\ wr[a] # None /\ wr[a].word[1] = epoch
          => wr[a].word[2] >= crossing'.bundle.frames_done
    BY <1>1, <2>3, <2>5
  <2> QED BY <1>2, <2>1, <2>2, <2>6, <2>7
<1> QED BY <1>3, <1>4

LEMMA LateKeptByHist ==
  ASSUME Late, NEW req, NEW pop, NEW deliver, Hist(req, pop, deliver)
  PROVE  Late'
<1>1. UNCHANGED <<wr, bank_wr, epoch, frames_done>>
  BY DEF Hist, writeVars, depthVars, barVars
<1>2. CASE crossing.state = "req" /\ view' = crossing.bundle /\ seen_epoch' = crossing.epoch
           /\ crossing' = [state |-> "ack"]
  <2>1. crossing'.state # "req"
    BY <1>2
  <2> QED BY <1>1, <1>2, <2>1 DEF Late
<1>3. CASE UNCHANGED <<view, seen_epoch, crossing>>
  BY <1>1, <1>3 DEF Late
<1> QED BY <1>2, <1>3 DEF Hist, View

\* A word of an announced frame that is not written over yet is in its bank.
LEMMA Resides ==
  ASSUME Types, ViewInv, Landing, Late, seen_epoch = epoch, NEW a \in Ant, NEW f \in Nat,
         NEW b \in Beat, f < view.frames_done, Written(a, f, b)
  PROVE  mem[a][<<f % depth, b>>] = <<epoch, f, b>>
<1>1. /\ view.frames_done \in Nat /\ frames_done \in Nat /\ view.frames_done <= frames_done
  BY DEF Types, BarTypes, ReadTypes, Bundle, ViewInv, Announced
<1>2. At(a, f % depth, b) = <<epoch, f, b>>
  BY DEF Landing
<1>3. ~Onto(wr[a], f % depth, b)
  <2> SUFFICES ASSUME Onto(wr[a], f % depth, b) PROVE FALSE
    OBVIOUS
  <2>1. wr[a].word = <<epoch, f, b>> /\ wr[a] # None
    BY <1>2 DEF At, Onto
  <2>2. f >= frames_done
    BY <2>1 DEF Late
  <2> QED BY <1>1, <2>2
<1>4. ~Onto(bank_wr[a], f % depth, b)
  <2> SUFFICES ASSUME Onto(bank_wr[a], f % depth, b) PROVE FALSE
    OBVIOUS
  <2>1. bank_wr[a].word = <<epoch, f, b>> /\ bank_wr[a] # None
    BY <1>2, <1>3 DEF At, Onto
  <2>2. f >= view.frames_done
    BY <2>1 DEF Late
  <2> QED BY <1>1, <2>2
<1> QED BY <1>2, <1>3, <1>4 DEF At

\* A request in range stays on a frame that the reader has been told of.
Aimed ==
  \A i \in 1 .. 2 : pipe[i] # None /\ ~pipe[i].oor =>
    /\ pipe[i].frame_id \in Nat /\ pipe[i].frame_id < view.frames_done
    /\ pipe[i].slot = pipe[i].frame_id % depth /\ pipe[i].off + 3 <= depth

LEMMA AimedKeptByCore ==
  ASSUME Careful, Types, Rotating, Quiet, Settled, Aimed,
         NEW fire \in SUBSET Ant, NEW write \in Writes, Core(fire, write)
  PROVE  Aimed'
<1>1. view' = view /\ pipe' = pipe
  BY DEF Core, readVars
<1>2. \A i \in 1 .. 2 : pipe[i] # None => depth' = depth
  BY SettledKeptByCore
<1> QED BY <1>1, <1>2 DEF Aimed

LEMMA AimedKeptByHist ==
  ASSUME Careful, Types, ViewInv, Quiet, Settled, Aimed,
         NEW req \in Asks, NEW pop, NEW deliver, Hist(req, pop, deliver)
  PROVE  Aimed'
<1>1. depth' = depth /\ epoch' = epoch
  BY DEF Hist, depthVars
<1>2. view.frames_done \in Nat /\ view'.frames_done \in Nat
  BY ReadTypesOfHist DEF Types, ReadTypes, Bundle
<1> DEFINE aim(r) == /\ r.frame_id \in Nat /\ r.frame_id < view.frames_done
                     /\ r.slot = r.frame_id % depth /\ r.off + 3 <= depth
<1>3. pipe'[1] # None /\ ~pipe'[1].oor => aim(pipe'[1]) /\ seen_epoch = epoch
  <2> SUFFICES ASSUME pipe'[1] # None, ~pipe'[1].oor PROVE aim(pipe'[1]) /\ seen_epoch = epoch
    OBVIOUS
  <2>1. PICK off \in Nat, bin \in Beat : pipe'[1] = Decode(off, bin)
    BY PipeMoves DEF Hist
  <2>2. ~Decode(off, bin).oor
    BY <2>1
  <2>3. /\ Decode(off, bin).off = off /\ off < view.readable
        /\ Decode(off, bin).frame_id = view.frames_done - 1 - off
        /\ Decode(off, bin).frame_id \in Nat /\ off + 3 <= view.depth
        /\ Decode(off, bin).slot = Decode(off, bin).frame_id % view.depth
    BY <2>2, InRange
  <2>4. off \in Nat /\ view.readable \in Nat
    BY EnvAssumption DEF Types, ReadTypes, Bundle
  <2>5. seen_epoch = epoch
    BY SettledKeptByHist
  <2>6. view.depth = depth
    BY <2>3, <2>4, <2>5 DEF ViewInv, Announced
  <2> QED BY <1>2, <2>1, <2>3, <2>4, <2>5, <2>6
<1>4. pipe'[2] # None /\ ~pipe'[2].oor => aim(pipe'[2]) /\ seen_epoch = epoch
  <2>1. pipe'[2] = pipe[1]
    BY PipeMoves DEF Hist
  <2> QED BY <2>1 DEF Aimed, Settled
<1>5. seen_epoch = epoch => view'.frames_done >= view.frames_done
  BY SettledKeptByHist
<1>6. \A r : aim(r) /\ seen_epoch = epoch => r.frame_id < view'.frames_done
  BY <1>2, <1>5
<1>7. ASSUME NEW i \in 1 .. 2, pipe'[i] # None, ~pipe'[i].oor
      PROVE  aim(pipe'[i]) /\ pipe'[i].frame_id < view'.frames_done
  <2>1. CASE i = 1
    BY <1>3, <1>6, <1>7, <2>1
  <2>2. CASE i = 2
    BY <1>4, <1>6, <1>7, <2>2
  <2> QED BY <2>1, <2>2
<1> QED BY <1>1, <1>7 DEF Aimed

\* A request about to be read finds, in the bank of each antenna, the word it asks
\* for, or that antenna has come round to it: the second slot held back puts that
\* two frames past the barrier.
LEMMA FindsItsWord ==
  ASSUME Careful, Types, Rotating, ViewInv, Settled, Landing, Late, Aimed,
         pipe[2] # None, ~pipe[2].oor, NEW a \in Ant
  PROVE  \/ mem[a][<<pipe[2].slot, pipe[2].beat>>] = <<epoch, pipe[2].frame_id, pipe[2].beat>>
         \/ Lapped(a, pipe[2])
<1>1. pipe[2] \in Entry
  BY DEF Types, ReadTypes
<1>2. PICK r \in Entry : r = pipe[2]
  BY <1>1
<1>3. /\ r.frame_id \in Nat /\ r.frame_id < view.frames_done /\ r.off \in Nat /\ r.beat \in Beat
      /\ r.slot = r.frame_id % depth /\ r.off + 3 <= depth
  BY <1>2 DEF Aimed, Entry
<1>4. seen_epoch = epoch
  BY DEF Settled
<1>5. /\ frame[a] \in Nat /\ frames_done \in Nat /\ depth \in Nat
      /\ src_beat[a] \in Nat /\ view.frames_done \in Nat /\ r.beat \in Nat
      /\ frame[a] >= frames_done /\ view.frames_done <= frames_done
  BY <1>3, <1>4, EnvAssumption, GeometryAssumption
     DEF Types, WriteTypes, DepthTypes, BarTypes, ReadTypes, Bundle, Beat, Rotating, Rotation,
         ViewInv, Announced
<1>6. Written(a, r.frame_id, r.beat) \/ Lapped(a, r)
  BY <1>3, <1>5 DEF Written, Lapped, AskedAt
<1> QED BY <1>2, <1>3, <1>4, <1>6, Resides

\* An antenna that has lapped a request does not go back.
LEMMA LappedKept ==
  ASSUME Types, NEW fire \in SUBSET Ant, NEW write \in Writes, Core(fire, write),
         ~depth_apply, NEW a \in Ant, NEW r \in Entry, Lapped(a, r)
  PROVE  Lapped(a, r)'
<1>1. /\ frame[a] \in Nat /\ src_beat[a] \in Nat /\ depth \in Nat
      /\ r.frame_id \in Int /\ r.off \in Nat /\ r.beat \in Nat
  BY GeometryAssumption, EnvAssumption DEF Types, WriteTypes, DepthTypes, Entry, Beat
<1>2. depth' = depth
  BY DEF Core, DepthControl
<1>3. frame'[a] = IF a \in fire /\ eof(a) THEN frame[a] + 1 ELSE frame[a]
  BY DEF Core, Sequencers
<1>4. ~(a \in fire /\ eof(a)) => src_beat'[a] >= src_beat[a] /\ src_beat'[a] \in Nat
  BY <1>1, SourceSteps
<1>5. CASE a \in fire /\ eof(a)
  BY <1>1, <1>2, <1>3, <1>5 DEF Lapped, AskedAt
<1>6. CASE ~(a \in fire /\ eof(a))
  BY <1>1, <1>2, <1>3, <1>4, <1>6 DEF Lapped, AskedAt
<1> QED BY <1>5, <1>6

Whole ==
  \A i \in 3 .. 4 : pipe[i] # None /\ ~pipe[i].oor =>
    \A a \in Ant : \/ pipe[i].words[a] = <<epoch, pipe[i].frame_id, pipe[i].beat>>
                   \/ Lapped(a, pipe[i])

LEMMA WholeKeptByCore ==
  ASSUME Careful, Types, Rotating, Quiet, Settled, Whole,
         NEW fire \in SUBSET Ant, NEW write \in Writes, Core(fire, write)
  PROVE  Whole'
<1> SUFFICES ASSUME NEW i \in 3 .. 4, pipe[i] # None, ~pipe[i].oor, NEW a \in Ant
             PROVE  \/ pipe[i].words[a] = <<epoch', pipe[i].frame_id, pipe[i].beat>>
                    \/ Lapped(a, pipe[i])'
  <2>1. pipe' = pipe
    BY DEF Core, readVars
  <2> QED BY <2>1 DEF Whole
<1>1. pipe[i] \in Entry /\ pipe' = pipe
  BY DEF Types, ReadTypes, Core, readVars
<1>2. epoch' = epoch /\ ~depth_apply
  BY SettledKeptByCore DEF Settled, depth_apply
<1>3. \/ pipe[i].words[a] = <<epoch, pipe[i].frame_id, pipe[i].beat>>
      \/ Lapped(a, pipe[i])
  BY DEF Whole
<1>4. PICK r \in Entry : r = pipe[i] /\ r = pipe'[i]
  BY <1>1
<1>5. Lapped(a, r) => Lapped(a, r)'
  BY <1>2, LappedKept
<1> QED BY <1>2, <1>3, <1>4, <1>5

LEMMA WholeKeptByHist ==
  ASSUME Careful, Types, Rotating, ViewInv, Settled, Landing, Late, Aimed,
         Whole, NEW req \in Asks, NEW pop, NEW deliver, Hist(req, pop, deliver)
  PROVE  Whole'
<1>1. UNCHANGED <<epoch, depth, frame, src_beat>>
  BY DEF Hist, depthVars, writeVars
<1>2. pipe'[4] = pipe[3] /\ pipe'[3] = IF pipe[2] = None THEN None ELSE Read(pipe[2])
  BY PipeMoves DEF Hist
<1>3. ASSUME pipe'[3] # None, ~pipe'[3].oor, NEW a \in Ant
      PROVE  \/ pipe'[3].words[a] = <<epoch, pipe'[3].frame_id, pipe'[3].beat>>
             \/ Lapped(a, pipe[3])'
  <2>1. pipe[2] \in Entry /\ pipe[2] # None /\ pipe'[3] = Read(pipe[2])
    BY <1>2, <1>3 DEF Types, ReadTypes
  <2>2. /\ Read(pipe[2]).words = [x \in Ant |-> mem[x][<<pipe[2].slot, pipe[2].beat>>]]
        /\ Read(pipe[2]).frame_id = pipe[2].frame_id /\ Read(pipe[2]).beat = pipe[2].beat
        /\ Read(pipe[2]).oor = pipe[2].oor /\ Read(pipe[2]).off = pipe[2].off
    BY <2>1, ReadTyped
  <2>3. ~pipe[2].oor
    BY <1>3, <2>1, <2>2
  <2>4. \/ mem[a][<<pipe[2].slot, pipe[2].beat>>] = <<epoch, pipe[2].frame_id, pipe[2].beat>>
        \/ Lapped(a, pipe[2])
    BY <2>1, <2>3, FindsItsWord
  <2>5. Lapped(a, pipe[2]) => Lapped(a, pipe[3])'
    BY <1>1, <2>1, <2>2 DEF Lapped, AskedAt
  <2> QED BY <2>1, <2>2, <2>4, <2>5
<1>4. ASSUME pipe'[4] # None, ~pipe'[4].oor, NEW a \in Ant
      PROVE  \/ pipe'[4].words[a] = <<epoch, pipe'[4].frame_id, pipe'[4].beat>>
             \/ Lapped(a, pipe[4])'
  <2>1. \/ pipe[3].words[a] = <<epoch, pipe[3].frame_id, pipe[3].beat>>
        \/ Lapped(a, pipe[3])
    BY <1>2, <1>4 DEF Whole
  <2>2. Lapped(a, pipe[3]) => Lapped(a, pipe[4])'
    BY <1>1, <1>2 DEF Lapped, AskedAt
  <2> QED BY <1>2, <2>1, <2>2
<1>5. \A i \in 3 .. 4 : i = 3 \/ i = 4
  OBVIOUS
<1> QED BY <1>1, <1>3, <1>4, <1>5 DEF Whole

-----------------------------------------------------------------------------
(* Steps of neither side, the initial state, and the theorems.             *)

LEMMA Otherwise ==
  ASSUME Acknowledge \/ UNCHANGED vars
  PROVE  /\ UNCHANGED <<writeVars, depthVars, barVars, pubVars, readVars>>
         /\ crossing' = crossing \/ crossing'.state # "req"
<1>1. CASE Acknowledge
  <2>1. crossing'.state = "idle"
    BY <1>1 DEF Acknowledge
  <2> QED BY <1>1, <2>1 DEF Acknowledge
<1>2. CASE UNCHANGED vars
  BY <1>2 DEF vars
<1> QED BY <1>1, <1>2

\* The writer's and the reader's books.
Books == Types /\ Rotating /\ CreditInv

LEMMA InitBooks == Init => Books
<1> SUFFICES ASSUME Init PROVE CreditInv
  BY InitTypes, InitRotating DEF Books
<1>1. credit = OutDepth /\ held = 0 /\ \A i \in 1 .. 4 : pipe[i] = None
  BY DEF Init
<1> QED BY <1>1, GeometryAssumption DEF CreditInv, One

LEMMA BooksKept == Books /\ [Next]_vars => Books'
<1> SUFFICES ASSUME Books, [Next]_vars PROVE Rotating' /\ CreditInv'
  BY TypesKept DEF Books
<1>1. ASSUME NEW fire \in SUBSET Ant, NEW write \in Writes, Core(fire, write)
      PROVE  Rotating' /\ CreditInv'
  BY <1>1, RotatingKept DEF Books, Core, readVars, CreditInv
<1>2. ASSUME NEW req \in Asks, NEW pop \in {FALSE, held > 0}, NEW deliver,
             Hist(req, pop, deliver)
      PROVE  Rotating' /\ CreditInv'
  <2>1. CreditInv'
    BY <1>2, CreditKept DEF Books
  <2>2. Rotating'
    BY <1>2 DEF Books, Hist, writeVars, depthVars, barVars, Rotating, Rotation
  <2> QED BY <2>1, <2>2
<1>3. CASE Acknowledge \/ UNCHANGED vars
  BY <1>3, Otherwise DEF Books, writeVars, depthVars, barVars, readVars, Rotating, Rotation, CreditInv
<1> QED BY <1>1, <1>2, <1>3, NextNamed

LEMMA BooksSuffice == Books => TypeOK /\ Rotation /\ CreditsCover
<1> SUFFICES ASSUME Books PROVE TypeOK /\ Rotation /\ CreditsCover
  OBVIOUS
<1>1. /\ FrameLimit \in Nat /\ EpochLimit \in Nat /\ FramesMax \in Nat /\ OutDepth \in Nat
      /\ Ant # {} /\ Beats \in Nat
  BY GeometryAssumption, EnvAssumption
<1>2. Rotation
  BY DEF Books, Rotating
<1>3. CreditsCover
  <2>1. Cardinality({i \in 1 .. 4 : pipe[i] # None})
          = One(pipe[1]) + One(pipe[2]) + One(pipe[3]) + One(pipe[4])
    BY Occupied
  <2>2. /\ One(pipe[1]) \in 0 .. 1 /\ One(pipe[2]) \in 0 .. 1 /\ One(pipe[3]) \in 0 .. 1
        /\ One(pipe[4]) = IF out_v THEN 1 ELSE 0
    BY DEF One, out_v
  <2> QED BY <1>1, <2>1, <2>2 DEF Books, CreditInv, CreditsCover
<1>4. TypeOK
  <2>1. /\ src_beat \in [Ant -> 0 .. Beats - 1] /\ beat \in [Ant -> 0 .. Beats - 1]
        /\ in_frame \in [Ant -> BOOLEAN] /\ frame \in [Ant -> 0 .. FrameLimit]
        /\ slot \in [Ant -> 0 .. depth - 1]
        /\ \A a \in Ant : mem[a] \in [(0 .. FramesMax - 1) \X (0 .. Beats - 1) -> Word \cup {NoWord}]
    BY DEF Books, Types, WriteTypes, Beat, Slot
  <2>2. /\ depth \in 1 .. FramesMax /\ depth_req \in 1 .. FramesMax
        /\ depth_pending \in BOOLEAN /\ epoch \in 0 .. EpochLimit
    BY DEF Books, Types, DepthTypes
  <2>3. frames_done \in Nat /\ done_slot \in 0 .. depth - 1 /\ overwrites \in Nat
        /\ skew \in BOOLEAN /\ fault \in [framing : BOOLEAN, skew : BOOLEAN]
    BY DEF Books, Types, BarTypes
  <2>4. frame \in [Ant -> 0 .. FrameLimit + 1] /\ slot \in [Ant -> 0 .. FramesMax - 1]
        /\ done_slot \in 0 .. FramesMax - 1
    BY <1>1, <2>1, <2>2, <2>3
  <2>5. frames_done \in 0 .. FrameLimit + 1
    <3>1. PICK a \in Ant : TRUE
      BY <1>1
    <3>2. frame[a] >= frames_done /\ frame[a] \in 0 .. FrameLimit
      BY <1>2, <2>1 DEF Rotation
    <3> QED BY <1>1, <2>3, <3>2
  <2>6. pub_dirty \in BOOLEAN /\ crossing.state \in {"idle", "req", "ack"}
    BY DEF Books, Types, PubTypes, Sent
  <2>7. view.depth \in 1 .. FramesMax /\ view.done_slot \in 0 .. FramesMax - 1
    BY DEF Books, Types, ReadTypes, Bundle, Slot
  <2>8. credit \in 0 .. OutDepth /\ held \in 0 .. OutDepth
    <3>1. /\ One(pipe[1]) \in 0 .. 1 /\ One(pipe[2]) \in 0 .. 1 /\ One(pipe[3]) \in 0 .. 1
          /\ One(pipe[4]) \in 0 .. 1
      BY DEF One
    <3> QED BY <1>1, <3>1 DEF Books, CreditInv
  <2> QED BY <2>1, <2>2, <2>3, <2>4, <2>5, <2>6, <2>7, <2>8 DEF TypeOK
<1> QED BY <1>2, <1>3, <1>4

\* The writer's slots and barrier, and the reader's credits, agree with what they
\* stand for at every edge, through depth changes too: the increments of
\* history_core.sv that wrap at the depth never leave the remainder they replace,
\* and the output FIFO never refuses a response.
THEOREM BooksAlwaysKept == Spec => [](TypeOK /\ Rotation /\ CreditsCover)
<1> QED BY InitBooks, BooksKept, BooksSuffice, PTL DEF Spec

\* The count of overwritten frames is exact as well, up to the first depth change:
\* the header's "exactly max(frames_done - depth, 0) at every instant".
THEOREM BookkeepingAlways == Spec => []BookkeepingExact
<1> DEFINE Inv == Books /\ OverwriteExact
<1>1. Init => Inv
  <2>1. Init => frames_done = 0 /\ depth = FramesMax /\ overwrites = 0
    BY DEF Init
  <2> QED BY <2>1, InitBooks, GeometryAssumption DEF OverwriteExact
<1>2. Inv /\ [Next]_vars => Inv'
  <2> SUFFICES ASSUME Inv, [Next]_vars PROVE OverwriteExact'
    BY BooksKept
  <2>1. ASSUME NEW fire \in SUBSET Ant, NEW write \in Writes, Core(fire, write)
        PROVE  OverwriteExact'
    BY <2>1, OverwriteKept DEF Books
  <2>2. CASE UNCHANGED <<depthVars, barVars>>
    BY <2>2 DEF depthVars, barVars, OverwriteExact
  <2> QED BY <2>1, <2>2, Otherwise, NextNamed DEF Hist
<1>3. Inv => BookkeepingExact
  BY BooksSuffice DEF BookkeepingExact
<1> HIDE DEF Inv
<1> QED BY <1>1, <1>2, <1>3, PTL DEF Spec

\* A frame that completes while an older bundle is still crossing is announced
\* later and never forgotten: what the writer takes for sent is what the reader
\* has or is about to be handed.
THEOREM NothingForgottenAlways == Spec => []NothingForgotten
<1>1. Init => Types /\ NothingForgotten
  <2>1. Init => pub_sent.depth = 0
    BY DEF Init
  <2> QED BY <2>1, InitTypes DEF NothingForgotten
<1>2. Types /\ NothingForgotten /\ [Next]_vars => Types' /\ NothingForgotten'
  BY TypesKept, ForgottenKept
<1> QED BY <1>1, <1>2, PTL DEF Spec

\* The publication and the requests made from it, whatever the depth does.
Published == Types /\ Rotating /\ ViewInv /\ Safe

LEMMA InitPublished == Init => Published
<1>1. Init => \A i \in 1 .. 4 : pipe[i] = None
  BY DEF Init
<1> QED BY <1>1, InitTypes, InitRotating, InitViewInv DEF Published, Safe

LEMMA PublishedKept == Published /\ [Next]_vars => Published'
<1> SUFFICES ASSUME Published, [Next]_vars PROVE Rotating' /\ ViewInv' /\ Safe'
  BY TypesKept DEF Published
<1>1. ASSUME NEW fire \in SUBSET Ant, NEW write \in Writes, Core(fire, write)
      PROVE  Rotating' /\ ViewInv' /\ Safe'
  BY <1>1, RotatingKept, ViewKeptByCore DEF Published, Core, readVars, Safe
<1>2. ASSUME NEW req \in Asks, NEW pop, NEW deliver, Hist(req, pop, deliver)
      PROVE  Rotating' /\ ViewInv' /\ Safe'
  <2>1. ViewInv' /\ Safe'
    BY <1>2, ViewKeptByHist, SafeKept DEF Published
  <2>2. Rotating'
    BY <1>2 DEF Published, Hist, writeVars, depthVars, barVars, Rotating, Rotation
  <2> QED BY <2>1, <2>2
<1>3. CASE Acknowledge \/ UNCHANGED vars
  <2>1. /\ UNCHANGED <<writeVars, depthVars, barVars, pubVars, readVars>>
        /\ crossing' = crossing \/ crossing'.state # "req"
    BY <1>3, Otherwise
  <2>2. UNCHANGED <<slot, frame, depth, epoch, frames_done, done_slot, view, seen_epoch, pipe>>
    BY <2>1 DEF writeVars, depthVars, barVars, readVars
  <2>3. Rotating' /\ Safe'
    BY <2>2 DEF Published, Rotating, Rotation, Safe
  <2>4. ViewInv'
    BY <2>1, <2>2 DEF Published, ViewInv, Announced, Consistent, Ordered
  <2> QED BY <2>3, <2>4
<1> QED BY <1>1, <1>2, <1>3, NextNamed

\* A request the read side does not flag as out of range never meets the slot the
\* writer fills, by the view it is decoded with, whatever software does to the
\* depth (a_history_no_safe_collision).
THEOREM NoSafeCollisionAlways == Spec => []NoSafeCollision
<1>1. Published => NoSafeCollision
  BY DEF Published, Safe, NoSafeCollision
<1> QED BY <1>1, InitPublished, PublishedKept, PTL DEF Spec

\* The view the reader works from is of one configuration and never ahead of the
\* barrier of its epoch, although it crosses a clock boundary while the writer
\* goes on and the depth changes.
THEOREM ViewAlwaysConsistent == Spec => []ViewIsConsistent
<1>1. Published => ViewIsConsistent
  BY ViewSuffices DEF Published
<1> QED BY <1>1, InitPublished, PublishedKept, PTL DEF Spec

\* What holds of the sources and the reader when depth changes are made with care.
Tended == Types /\ Rotating /\ ViewInv /\ Quiet /\ Settled /\ Framed

LEMMA InitTended == Init => Tended
<1> SUFFICES ASSUME Init PROVE Quiet /\ Settled /\ Framed
  BY InitTypes, InitRotating, InitViewInv DEF Tended
<1>1. /\ ~depth_pending /\ epoch = 0 /\ \A i \in 1 .. 4 : pipe[i] = None
      /\ \A a \in Ant : beat[a] = 0 /\ src_beat[a] = 0 /\ ~in_frame[a]
      /\ ~fault.framing
  BY DEF Init
<1> QED BY <1>1 DEF Quiet, Settled, Framed

LEMMA TendedKept ==
  ASSUME Careful, Tended, [Next]_vars
  PROVE  Tended'
<1> SUFFICES Rotating' /\ ViewInv' /\ Quiet' /\ Settled' /\ Framed'
  BY TypesKept DEF Tended
<1>1. ASSUME NEW fire \in SUBSET Ant, NEW write \in Writes, Core(fire, write)
      PROVE  Rotating' /\ ViewInv' /\ Quiet' /\ Settled' /\ Framed'
  BY <1>1, RotatingKept, ViewKeptByCore, QuietKept, SettledKeptByCore, FramedKept DEF Tended
<1>2. ASSUME NEW req \in Asks, NEW pop, NEW deliver, Hist(req, pop, deliver)
      PROVE  Rotating' /\ ViewInv' /\ Quiet' /\ Settled' /\ Framed'
  <2>1. ViewInv' /\ Settled'
    BY <1>2, ViewKeptByHist, SettledKeptByHist DEF Tended
  <2>2. Rotating' /\ Quiet' /\ Framed'
    BY <1>2 DEF Tended, Hist, writeVars, depthVars, barVars, Rotating, Rotation, Quiet, Framed
  <2> QED BY <2>1, <2>2
<1>3. CASE Acknowledge \/ UNCHANGED vars
  <2>1. /\ UNCHANGED <<writeVars, depthVars, barVars, pubVars, readVars>>
        /\ crossing' = crossing \/ crossing'.state # "req"
    BY <1>3, Otherwise
  <2>2. UNCHANGED <<slot, frame, src_beat, beat, in_frame, fault, depth, depth_pending, epoch,
                    frames_done, done_slot, view, seen_epoch, pipe>>
    BY <2>1 DEF writeVars, depthVars, barVars, readVars
  <2>3. Rotating' /\ Quiet' /\ Settled' /\ Framed'
    BY <2>2 DEF Tended, Rotating, Rotation, Quiet, Settled, Framed
  <2>4. ViewInv'
    BY <2>1, <2>2 DEF Tended, ViewInv, Announced, Consistent, Ordered
  <2> QED BY <2>3, <2>4
<1> QED BY <1>1, <1>2, <1>3, NextNamed

\* When the sources and the reader pause around a depth change, no beat is lost
\* to the restart of the sequencers: well-framed sources raise no framing fault.
THEOREM FramingAlwaysClean ==
  ASSUME Careful
  PROVE  Spec => []FramingClean
<1>1. Tended /\ [Next]_vars => Tended'
  BY TendedKept
<1>2. Tended => FramingClean
  BY DEF Tended, Framed, FramingClean
<1> QED BY <1>1, <1>2, InitTended, PTL DEF Spec

\* And the words: where they lie, when they land, what a read finds.
Turned == Tended /\ Landing /\ Late /\ Aimed /\ Whole

LEMMA InitTurned == Init => Turned
<1> SUFFICES ASSUME Init PROVE Landing /\ Late /\ Aimed /\ Whole
  BY InitTended DEF Turned
<1>1. /\ depth = FramesMax /\ \A i \in 1 .. 4 : pipe[i] = None
      /\ \A a \in Ant : frame[a] = 0 /\ src_beat[a] = 0 /\ wr[a] = None /\ bank_wr[a] = None
  BY DEF Init
<1>2. FramesMax \in Nat \ {0}
  BY GeometryAssumption
<1>3. Landing
  BY <1>1, <1>2, NothingWritten DEF Landing, Written
<1> QED BY <1>1, <1>3 DEF Late, Aimed, Whole

LEMMA TurnedKept ==
  ASSUME Careful, Turned, [Next]_vars
  PROVE  Turned'
<1> SUFFICES Landing' /\ Late' /\ Aimed' /\ Whole'
  BY TendedKept DEF Turned
<1>0. Types /\ Rotating /\ ViewInv /\ Quiet /\ Settled /\ Framed
      /\ Landing /\ Late /\ Aimed /\ Whole
  BY DEF Turned, Tended
<1>1. ASSUME NEW fire \in SUBSET Ant, NEW write \in Writes, Core(fire, write)
      PROVE  Landing' /\ Late' /\ Aimed' /\ Whole'
  <2>1. Landing'
    BY <1>0, <1>1, LandingKept
  <2>2. Late'
    BY <1>0, <1>1, LateKeptByCore
  <2>3. Aimed' /\ Whole'
    BY <1>0, <1>1, AimedKeptByCore, WholeKeptByCore
  <2> QED BY <2>1, <2>2, <2>3
<1>2. ASSUME NEW req \in Asks, NEW pop, NEW deliver, Hist(req, pop, deliver)
      PROVE  Landing' /\ Late' /\ Aimed' /\ Whole'
  <2>1. Late' /\ Aimed' /\ Whole'
    BY <1>0, <1>2, LateKeptByHist, AimedKeptByHist, WholeKeptByHist
  <2>2. UNCHANGED <<frame, src_beat, wr, bank_wr, mem, depth, epoch>>
    BY <1>2 DEF Hist, writeVars, depthVars
  <2>3. Landing'
    BY <1>0, <2>2 DEF Landing, Written, At, Onto
  <2> QED BY <2>1, <2>3
<1>3. CASE Acknowledge \/ UNCHANGED vars
  <2>1. /\ UNCHANGED <<writeVars, depthVars, barVars, pubVars, readVars>>
        /\ crossing' = crossing \/ crossing'.state # "req"
    BY <1>3, Otherwise
  <2>2. UNCHANGED <<frame, src_beat, wr, bank_wr, mem, depth, epoch, frames_done, view,
                    seen_epoch, pipe>>
    BY <2>1 DEF writeVars, depthVars, barVars, readVars
  <2>3. Aimed' /\ Whole'
    BY <1>0, <2>2 DEF Aimed, Whole, Lapped
  <2>4. Landing'
    BY <1>0, <2>2 DEF Landing, Written, At, Onto
  <2>5. Late'
    BY <1>0, <2>1, <2>2 DEF Late
  <2> QED BY <2>3, <2>4, <2>5
<1> QED BY <1>1, <1>2, <1>3, NextNamed

\* What a response without a flag is worth, for every geometry and however far the
\* antennas drift apart: from each it carries the word of the frame and bin it says
\* it carries, unless that antenna has lapped it, which takes two whole frames past
\* the barrier the request was answered from. Depth changes are made with care.
THEOREM ResponsesAlwaysRight ==
  ASSUME Careful
  PROVE  Spec => []ResponsesAreRight
<1>1. Turned /\ [Next]_vars => Turned'
  BY TurnedKept
<1>2. Turned => ResponsesAreRight
  <2> SUFFICES ASSUME Turned PROVE ViewIsConsistent /\ UnflaggedIsWhole
    BY DEF ResponsesAreRight
  <2>1. ViewIsConsistent
    BY ViewSuffices DEF Turned, Tended
  <2>2. 4 \in 3 .. 4
    OBVIOUS
  <2>3. UnflaggedIsWhole
    BY <2>2 DEF Turned, Whole, UnflaggedIsWhole, out_v
  <2> QED BY <2>1, <2>3
<1> QED BY <1>1, <1>2, InitTurned, PTL DEF Spec
=============================================================================
