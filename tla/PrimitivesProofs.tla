------------------------- MODULE PrimitivesProofs -------------------------
(***************************************************************************)
(* Proofs about the bench of the small primitives (MCPrimitives): that the *)
(* four stream buffers are queues and the pipe runs at full rate for every *)
(* depth and number of stages, and that the crossings are safe for every   *)
(* width of pointer and number of flops.                                   *)
(*                                                                         *)
(* Streams: an edge lets `in` enter and `gone` leave (Through).  A ring of *)
(* storage, a delay line and a skid each pass words through, what passes   *)
(* through two in a row passes through both, and what passes through is a  *)
(* step of the abstract queue and what the two faces exchanged.            *)
(*                                                                         *)
(* Gray pointers: one increment flips one bit, so a sample on the move is  *)
(* the old pointer or the new one; the invariant relates the gaps between  *)
(* the pointers to the gaps each side sees.  Pulse: the old level moves    *)
(* down the two chains as one edge (OneEdge).                              *)
(***************************************************************************)
EXTENDS MCPrimitives, SequenceTheorems, FiniteSetTheorems, WellFoundedInduction, TLAPS

-----------------------------------------------------------------------------
(* What passes through a channel in one edge.                              *)

\* Concatenation, under a name of its own: the provers' theory of \o stays out of the
\* proofs that only need its laws.
Cat(s, t) == s \o t

\* The laws of concatenation.
LEMMA CatLaws ==
  /\ \A a, b \in Seq(Data) : Cat(a, b) \in Seq(Data)
  /\ \A a, b, c \in Seq(Data) : Cat(Cat(a, b), c) = Cat(a, Cat(b, c))
<1>1. ASSUME NEW a \in Seq(Data), NEW b \in Seq(Data) PROVE Cat(a, b) \in Seq(Data)
  BY ConcatProperties DEF Cat
<1>2. ASSUME NEW a \in Seq(Data), NEW b \in Seq(Data), NEW c \in Seq(Data)
      PROVE  Cat(Cat(a, b), c) = Cat(a, Cat(b, c))
  BY ConcatAssociative DEF Cat
<1> QED BY <1>1, <1>2

\* In one edge `gone` leaves the front of q and `in` enters at its back.
Through(q, in, gone, p) ==
  \E rest \in Seq(Data) : q = Cat(Beat(gone), rest) /\ p = Cat(rest, Beat(in))

\* A beat is a sequence of no word or of one.
LEMMA BeatIsSeq ==
  ASSUME NEW w \in Words
  PROVE  /\ Beat(w) \in Seq(Data)
         /\ Len(Beat(w)) = IF w = NoData THEN 0 ELSE 1
         /\ w # NoData => Beat(w)[1] = w
<1>1. CASE w = NoData
  BY <1>1, EmptySeq DEF Beat
<1>2. CASE w # NoData
  <2>1. w \in Data /\ Beat(w) = <<w>>
    BY <1>2 DEF Words, Beat
  <2> QED BY <2>1, <1>2
<1> QED BY <1>1, <1>2

\* What the two faces of an edge say of the contents before and after it.
LEMMA ThroughTypes ==
  ASSUME NEW q, NEW in \in Words, NEW gone \in Words, NEW p, Through(q, in, gone, p)
  PROVE  /\ q \in Seq(Data) /\ p \in Seq(Data)
         /\ gone # NoData => q # << >> /\ Head(q) = gone
         /\ Len(p) = Len(q) + Len(Beat(in)) - Len(Beat(gone))
<1>1. PICK rest \in Seq(Data) : q = Beat(gone) \o rest /\ p = rest \o Beat(in)
  BY DEF Through, Cat
<1>2. Beat(gone) \in Seq(Data) /\ Beat(in) \in Seq(Data) /\ Len(Beat(gone)) \in Nat
      /\ Len(Beat(in)) \in Nat /\ Len(rest) \in Nat
  BY BeatIsSeq, LenProperties
<1>3. /\ q \in Seq(Data) /\ Len(q) = Len(Beat(gone)) + Len(rest)
      /\ \A i \in 1 .. Len(Beat(gone)) + Len(rest) :
           q[i] = IF i <= Len(Beat(gone)) THEN Beat(gone)[i] ELSE rest[i - Len(Beat(gone))]
  BY <1>1, <1>2, ConcatProperties
<1>4. p \in Seq(Data) /\ Len(p) = Len(rest) + Len(Beat(in))
  BY <1>1, <1>2, ConcatProperties
<1>5. ASSUME gone # NoData PROVE q # << >> /\ Head(q) = gone
  <2>1. Len(Beat(gone)) = 1 /\ Beat(gone)[1] = gone
    BY <1>5, BeatIsSeq
  <2>2. q[1] = gone /\ Len(q) # 0
    BY <2>1, <1>2, <1>3
  <2>3. q # << >>
    BY <2>2, EmptySeq
  <2>4. Head(q) = q[1]
    OBVIOUS
  <2> QED BY <2>2, <2>3, <2>4
<1> QED BY <1>2, <1>3, <1>4, <1>5

\* Two channels in a row, the first handing `mid` to the second: one channel.
LEMMA ThroughChain ==
  ASSUME NEW q1, NEW p1, NEW q2, NEW p2,
         NEW in \in Words, NEW mid \in Words, NEW gone \in Words,
         Through(q1, in, mid, p1), Through(q2, mid, gone, p2)
  PROVE  Through(Cat(q2, q1), in, gone, Cat(p2, p1))
<1>1. PICK r1 \in Seq(Data) : q1 = Cat(Beat(mid), r1) /\ p1 = Cat(r1, Beat(in))
  BY DEF Through
<1>2. PICK r2 \in Seq(Data) : q2 = Cat(Beat(gone), r2) /\ p2 = Cat(r2, Beat(mid))
  BY DEF Through
<1>3. Beat(in) \in Seq(Data) /\ Beat(mid) \in Seq(Data) /\ Beat(gone) \in Seq(Data)
  BY BeatIsSeq
<1>4. PICK rest \in Seq(Data) : rest = Cat(Cat(r2, Beat(mid)), r1)
  BY <1>3, CatLaws
<1>5. Cat(q2, q1) = Cat(Beat(gone), rest)
  BY <1>1, <1>2, <1>3, <1>4, CatLaws
<1>6. Cat(p2, p1) = Cat(rest, Beat(in))
  BY <1>1, <1>2, <1>3, <1>4, CatLaws
<1> QED BY <1>5, <1>6 DEF Through

\* The edge as its two faces see it: the front taken away, the new word appended.
LEMMA ThroughExchanges ==
  ASSUME NEW q, NEW in \in Words, NEW gone \in Words, NEW p, Through(q, in, gone, p)
  PROVE  LET rest == IF gone # NoData THEN SubSeq(q, 2, Len(q)) ELSE q
         IN  p = IF in # NoData THEN Append(rest, in) ELSE rest
<1>1. PICK rest \in Seq(Data) : q = Beat(gone) \o rest /\ p = rest \o Beat(in)
  BY DEF Through, Cat
<1>2. rest = IF gone # NoData THEN SubSeq(q, 2, Len(q)) ELSE q
  <2>1. CASE gone = NoData
    BY <2>1, <1>1, ConcatEmptySeq DEF Beat
  <2>2. CASE gone # NoData
    <3>1. q \in Seq(Data) /\ q # << >>
      BY <2>2, ThroughTypes
    <3>2. Tail(q) = SubSeq(q, 2, Len(q))
      BY <3>1, TailIsSubSeq
    <3>3. gone \in Data /\ Beat(gone) = <<gone>> /\ <<gone>> \in Seq(Data)
      BY <2>2, BeatIsSeq DEF Words, Beat
    <3>4. Len(q) = 1 + Len(rest) /\ Len(rest) \in Nat
          /\ \A i \in 1 .. 1 + Len(rest) : q[i] = IF i <= 1 THEN gone ELSE rest[i - 1]
      <4>1. Len(<<gone>>) = 1 /\ <<gone>>[1] = gone
        OBVIOUS
      <4>2. Len(rest) \in Nat
        BY LenProperties
      <4>3. /\ Len(<<gone>> \o rest) = Len(<<gone>>) + Len(rest)
            /\ \A i \in 1 .. Len(<<gone>>) + Len(rest) : (<<gone>> \o rest)[i] =
                  IF i <= Len(<<gone>>) THEN <<gone>>[i] ELSE rest[i - Len(<<gone>>)]
        BY <3>3, ConcatProperties
      <4> QED BY <4>1, <4>2, <4>3, <3>3, <1>1
    <3>5. Tail(q) \in Seq(Data) /\ Len(Tail(q)) = Len(q) - 1
          /\ \A i \in 1 .. Len(Tail(q)) : Tail(q)[i] = q[i + 1]
      BY <3>1, HeadTailProperties
    <3>6. Len(Tail(q)) = Len(rest) /\ \A i \in 1 .. Len(rest) : Tail(q)[i] = rest[i]
      BY <3>4, <3>5
    <3>7. Tail(q) = rest
      BY <3>5, <3>6, SeqEqual
    <3> QED BY <3>2, <3>7, <2>2
  <2> QED BY <2>1, <2>2
<1>3. p = IF in # NoData THEN Append(rest, in) ELSE rest
  <2>1. CASE in = NoData
    BY <2>1, <1>1, ConcatEmptySeq DEF Beat
  <2>2. CASE in # NoData
    <3>1. in \in Data
      BY <2>2 DEF Words
    <3> QED BY <3>1, <2>2, <1>1, AppendIsConcat DEF Beat
  <2> QED BY <2>1, <2>2
<1> QED BY <1>2, <1>3
\* A step of the abstract queue of `cap` words, or none.
QueueStep(q, p, cap) ==
  \/ Len(q) < cap /\ \E d \in Data : p = Append(q, d)
  \/ q # << >> /\ p = Tail(q)
  \/ q # << >> /\ Len(q) < cap /\ \E d \in Data : p = Append(Tail(q), d)
  \/ p = << >> \/ p = q

\* What passes through is a step of the queue, if nothing enters a full one.
LEMMA ThroughIsStep ==
  ASSUME NEW q, NEW in \in Words, NEW gone \in Words, NEW p, NEW cap, Through(q, in, gone, p),
         in # NoData => Len(q) < cap
  PROVE  QueueStep(q, p, cap)
<1>1. p = IF in # NoData THEN Append(IF gone # NoData THEN SubSeq(q, 2, Len(q)) ELSE q, in)
          ELSE IF gone # NoData THEN SubSeq(q, 2, Len(q)) ELSE q
  BY ThroughExchanges
<1>2. q \in Seq(Data) /\ (gone # NoData => q # << >>)
  BY ThroughTypes
<1>3. gone # NoData => SubSeq(q, 2, Len(q)) = Tail(q)
  BY <1>2, TailIsSubSeq
<1>4. in # NoData => in \in Data
  BY DEF Words
<1> QED BY <1>1, <1>2, <1>3, <1>4 DEF QueueStep

-----------------------------------------------------------------------------
(* The ring of storage, for any depth: the words from r on, c of them, in  *)
(* the D places of m; w is where the next one goes.                        *)

At(r, k, D) == IF r + k >= D THEN r + k - D ELSE r + k
Ring(m, r, c, D) == [i \in 1 .. c |-> m[At(r, i - 1, D)]]

RingOK(m, w, r, c, D) ==
  /\ D \in Nat \ {0} /\ m \in [0 .. D - 1 -> Words] /\ r \in 0 .. D - 1 /\ c \in 0 .. D
  /\ w = At(r, c, D)
  /\ \A k \in 0 .. c - 1 : m[At(r, k, D)] \in Data

\* One edge: `in` is stored, `gone` is the oldest word or NoData.
RingEdge(m, w, r, c, D, in, gone, m2, w2, r2, c2) ==
  /\ in \in Words /\ (in # NoData => c < D)
  /\ gone = NoData \/ (c # 0 /\ gone = m[r])
  /\ m2 = IF in # NoData THEN [m EXCEPT ![w] = in] ELSE m
  /\ w2 = IF in # NoData THEN (IF w = D - 1 THEN 0 ELSE w + 1) ELSE w
  /\ r2 = IF gone # NoData THEN (IF r = D - 1 THEN 0 ELSE r + 1) ELSE r
  /\ c2 = IF in # NoData /\ gone = NoData THEN c + 1
          ELSE IF gone # NoData /\ in = NoData THEN c - 1 ELSE c

\* The places of the ring.
LEMMA AtLaws ==
  ASSUME NEW D \in Nat \ {0}, NEW r \in 0 .. D - 1
  PROVE  /\ \A k \in 0 .. D : At(r, k, D) \in 0 .. D - 1
         /\ At(r, 0, D) = r
         /\ \A k \in 0 .. D - 1 : \A j \in 0 .. k - 1 : At(r, j, D) # At(r, k, D)
         /\ \A k \in 0 .. D - 1 :
              At(r, k + 1, D) = IF At(r, k, D) = D - 1 THEN 0 ELSE At(r, k, D) + 1
         /\ \A k \in 0 .. D - 1 :
              At(IF r = D - 1 THEN 0 ELSE r + 1, k, D) = At(r, k + 1, D)
  BY DEF At

\* What a concatenation holds at each place.
LEMMA CatAt ==
  ASSUME NEW s \in Seq(Data), NEW t \in Seq(Data)
  PROVE  /\ Cat(s, t) \in Seq(Data) /\ Len(Cat(s, t)) = Len(s) + Len(t)
         /\ Len(s) \in Nat /\ Len(t) \in Nat
         /\ \A i \in 1 .. Len(s) + Len(t) :
              Cat(s, t)[i] = IF i <= Len(s) THEN s[i] ELSE t[i - Len(s)]
  BY ConcatProperties, LenProperties DEF Cat

\* A function on an interval is a sequence.
LEMMA SeqOfLength ==
  ASSUME NEW n \in Nat, NEW s \in [1 .. n -> Data]
  PROVE  s \in Seq(Data) /\ Len(s) = n
<1>1. s \in Seq(Data)
  BY SeqDef
<1> QED BY <1>1, LenProperties

\* The contents of a ring are a sequence of words.
LEMMA RingIsSeq ==
  ASSUME NEW m, NEW w, NEW r, NEW c, NEW D, RingOK(m, w, r, c, D)
  PROVE  /\ Ring(m, r, c, D) \in Seq(Data) /\ Len(Ring(m, r, c, D)) = c
         /\ c # 0 => m[r] \in Data
         /\ w \in 0 .. D - 1
<1>1. \A i \in 1 .. c : m[At(r, i - 1, D)] \in Data
  BY DEF RingOK
<1>2. c \in Nat
  BY DEF RingOK
<1>3. Ring(m, r, c, D) \in [1 .. c -> Data]
  BY <1>1 DEF Ring
<1>4. Ring(m, r, c, D) \in Seq(Data)
  BY <1>2, <1>3, SeqDef
<1>5. Len(Ring(m, r, c, D)) = c
  BY <1>2, <1>3, <1>4, LenProperties
<1>6. c # 0 => m[r] \in Data
  <2>1. r \in 0 .. D - 1 /\ D \in Nat \ {0}
    BY DEF RingOK
  <2>2. At(r, 0, D) = r
    BY <2>1, AtLaws
  <2> QED BY <2>2, <1>2 DEF RingOK
<1>7. w \in 0 .. D - 1
  BY AtLaws DEF RingOK
<1> QED BY <1>4, <1>5, <1>6, <1>7

\* A ring passes its words through, and stays a ring.
LEMMA RingPasses ==
  ASSUME NEW m, NEW w, NEW r, NEW c, NEW D, NEW in, NEW gone,
         NEW m2, NEW w2, NEW r2, NEW c2,
         RingOK(m, w, r, c, D), RingEdge(m, w, r, c, D, in, gone, m2, w2, r2, c2)
  PROVE  /\ RingOK(m2, w2, r2, c2, D)
         /\ Through(Ring(m, r, c, D), in, gone, Ring(m2, r2, c2, D))
<1> DEFINE n == IF gone = NoData THEN 0 ELSE 1
           e == IF in = NoData THEN 0 ELSE 1
           rest == [i \in 1 .. c - n |-> m[At(r, i - 1 + n, D)]]
<1>0. n = (IF gone = NoData THEN 0 ELSE 1) /\ e = IF in = NoData THEN 0 ELSE 1
  OBVIOUS
<1>places. \A i \in 1 .. c - n : rest[i] = m[At(r, i - 1 + n, D)]
  OBVIOUS
<1>typed. (\A i \in 1 .. c - n : m[At(r, i - 1 + n, D)] \in Data) => rest \in [1 .. c - n -> Data]
  OBVIOUS
<1> HIDE DEF n, e, rest
<1>1. /\ D \in Nat \ {0} /\ r \in 0 .. D - 1 /\ c \in 0 .. D /\ n \in {0, 1} /\ e \in {0, 1}
      /\ n <= c /\ (e = 1 => c < D) /\ m \in [0 .. D - 1 -> Words] /\ w = At(r, c, D)
  BY <1>0 DEF RingOK, RingEdge
<1>2. in \in Words /\ gone \in Words /\ (in # NoData => in \in Data)
      /\ (gone # NoData => c # 0 /\ gone = m[r])
  <2>1. gone \in Words
    BY RingIsSeq DEF RingEdge, Words
  <2> QED BY <2>1 DEF RingEdge, Words
<1>3. c2 = c - n + e
  BY <1>0, <1>1 DEF RingEdge
<1>4. r2 = At(r, n, D) /\ r2 \in 0 .. D - 1
  BY <1>0, <1>1 DEF RingEdge, At
<1>5. \A k \in 0 .. c - n : At(r2, k, D) = At(r, k + n, D)
  <2>1. CASE n = 0
    BY <2>1, <1>1, <1>4 DEF At
  <2>2. CASE n = 1
    BY <2>2, <1>1, <1>4 DEF At
  <2> QED BY <2>1, <2>2, <1>1
<1>6. w2 = At(r2, c2, D)
  <2>1. w2 = IF e = 1 THEN (IF w = D - 1 THEN 0 ELSE w + 1) ELSE w
    BY <1>0 DEF RingEdge
  <2>2. w = At(r2, c - n, D)
    BY <1>1, <1>5
  <2>3. CASE e = 0
    BY <2>1, <2>2, <2>3, <1>1, <1>3
  <2>4. CASE e = 1
    <3>1. c - n \in 0 .. D - 1 /\ c2 = c - n + 1
      BY <2>4, <1>1, <1>3
    <3>2. At(r2, c - n + 1, D) = IF At(r2, c - n, D) = D - 1 THEN 0 ELSE At(r2, c - n, D) + 1
      BY <3>1, <1>1, <1>4 DEF At
    <3> QED BY <2>1, <2>2, <2>4, <3>1, <3>2
  <2> QED BY <2>3, <2>4, <1>1
<1>7. /\ m2 \in [0 .. D - 1 -> Words]
      /\ \A p \in 0 .. D - 1 : m2[p] = IF e = 1 /\ p = w THEN in ELSE m[p]
  <2>1. m2 = IF in # NoData THEN [m EXCEPT ![w] = in] ELSE m
    BY DEF RingEdge
  <2>2. w \in 0 .. D - 1
    BY RingIsSeq
  <2> QED BY <2>1, <2>2, <1>0, <1>1, <1>2
<1>8. \A k \in 0 .. c - 1 : At(r, k, D) \in 0 .. D - 1 /\ (e = 1 => At(r, k, D) # w)
  BY <1>1 DEF At
<1>9. \A k \in 0 .. c - 1 : m2[At(r, k, D)] = m[At(r, k, D)]
  BY <1>1, <1>7, <1>8
<1>10. e = 1 => m2[At(r2, c - n, D)] = in
  <2>1. At(r2, c - n, D) = w /\ w \in 0 .. D - 1
    BY <1>1, <1>5, RingIsSeq
  <2> QED BY <2>1, <1>7, <1>1
<1>11. \A k \in 0 .. c - n - 1 : m2[At(r2, k, D)] = m[At(r, k + n, D)] /\ m[At(r, k + n, D)] \in Data
  <2> SUFFICES ASSUME NEW k \in 0 .. c - n - 1
               PROVE  m2[At(r2, k, D)] = m[At(r, k + n, D)] /\ m[At(r, k + n, D)] \in Data
    OBVIOUS
  <2>1. k + n \in 0 .. c - 1 /\ k \in 0 .. c - n
    BY <1>1
  <2>2. At(r2, k, D) = At(r, k + n, D)
    BY <2>1, <1>5
  <2> QED BY <2>1, <2>2, <1>9 DEF RingOK
<1>12. RingOK(m2, w2, r2, c2, D)
  <2>1. \A k \in 0 .. c2 - 1 : m2[At(r2, k, D)] \in Data
    <3> SUFFICES ASSUME NEW k \in 0 .. c2 - 1 PROVE m2[At(r2, k, D)] \in Data
      OBVIOUS
    <3>1. k \in 0 .. c - n - 1 \/ (k = c - n /\ e = 1)
      BY <1>1, <1>3
    <3>2. e = 1 => in \in Data
      BY <1>0, <1>2
    <3> QED BY <3>1, <3>2, <1>10, <1>11
  <2>2. c2 \in 0 .. D
    BY <1>1, <1>3
  <2> QED BY <2>1, <2>2, <1>1, <1>4, <1>6, <1>7 DEF RingOK
<1>13. rest \in Seq(Data) /\ Len(rest) = c - n
  <2>1. c - n \in Nat
    BY <1>1
  <2>2. \A i \in 1 .. c - n : m[At(r, i - 1 + n, D)] \in Data
    <3> SUFFICES ASSUME NEW i \in 1 .. c - n PROVE m[At(r, i - 1 + n, D)] \in Data
      OBVIOUS
    <3>1. i - 1 \in 0 .. c - n - 1
      BY <1>1
    <3> QED BY <3>1, <1>11
  <2> QED BY <2>1, <2>2, <1>typed, SeqOfLength
<1>14. Ring(m, r, c, D) = Cat(Beat(gone), rest)
  <2>1. Beat(gone) \in Seq(Data) /\ Len(Beat(gone)) = n /\ (n = 1 => Beat(gone)[1] = m[r])
    BY <1>0, <1>2, BeatIsSeq
  <2>2. /\ Cat(Beat(gone), rest) \in Seq(Data) /\ Len(Cat(Beat(gone), rest)) = c
        /\ \A i \in 1 .. c : Cat(Beat(gone), rest)[i] = IF i <= n THEN Beat(gone)[i] ELSE rest[i - n]
    <3>1. n + (c - n) = c
      BY <1>1
    <3>2. PICK s \in Seq(Data) : s = Beat(gone)
      BY <2>1
    <3>3. Len(s) + Len(rest) = c /\ Len(s) = n
      BY <3>1, <3>2, <2>1, <1>13
    <3>4. /\ Cat(s, rest) \in Seq(Data) /\ Len(Cat(s, rest)) = Len(s) + Len(rest)
          /\ \A i \in 1 .. Len(s) + Len(rest) :
               Cat(s, rest)[i] = IF i <= Len(s) THEN s[i] ELSE rest[i - Len(s)]
      BY <1>13, CatAt
    <3> QED BY <3>2, <3>3, <3>4
  <2>3. Ring(m, r, c, D) \in Seq(Data) /\ Len(Ring(m, r, c, D)) = c
        /\ \A i \in 1 .. c : Ring(m, r, c, D)[i] = m[At(r, i - 1, D)]
    <3>1. \A i \in 1 .. c : Ring(m, r, c, D)[i] = m[At(r, i - 1, D)]
      BY DEF Ring
    <3> QED BY <3>1, RingIsSeq
  <2>4. \A i \in 1 .. c : Cat(Beat(gone), rest)[i] = m[At(r, i - 1, D)]
    <3> SUFFICES ASSUME NEW i \in 1 .. c PROVE Cat(Beat(gone), rest)[i] = m[At(r, i - 1, D)]
      OBVIOUS
    <3>1. CASE i <= n
      <4>1. i = 1 /\ n = 1
        BY <3>1, <1>1
      <4>2. At(r, 0, D) = r
        BY <1>1, AtLaws
      <4> QED BY <4>1, <4>2, <2>1, <2>2
    <3>2. CASE ~(i <= n)
      <4>1. i - n \in 1 .. c - n /\ i - n - 1 + n = i - 1
        BY <3>2, <1>1
      <4>2. rest[i - n] = m[At(r, i - n - 1 + n, D)]
        BY <4>1, <1>places
      <4> QED BY <4>1, <4>2, <3>2, <2>2
    <3> QED BY <3>1, <3>2
  <2> QED BY <2>2, <2>3, <2>4, SeqEqual
<1>15. Ring(m2, r2, c2, D) = Cat(rest, Beat(in))
  <2>1. Beat(in) \in Seq(Data) /\ Len(Beat(in)) = e /\ (e = 1 => Beat(in)[1] = in)
    BY <1>0, <1>2, BeatIsSeq
  <2>2. /\ Cat(rest, Beat(in)) \in Seq(Data) /\ Len(Cat(rest, Beat(in))) = c2
        /\ \A i \in 1 .. c2 : Cat(rest, Beat(in))[i] =
             IF i <= c - n THEN rest[i] ELSE Beat(in)[i - (c - n)]
    <3>2. PICK t \in Seq(Data) : t = Beat(in)
      BY <2>1
    <3>3. Len(rest) + Len(t) = c2 /\ Len(rest) = c - n
      BY <3>2, <2>1, <1>3, <1>13
    <3>4. /\ Cat(rest, t) \in Seq(Data) /\ Len(Cat(rest, t)) = Len(rest) + Len(t)
          /\ \A i \in 1 .. Len(rest) + Len(t) :
               Cat(rest, t)[i] = IF i <= Len(rest) THEN rest[i] ELSE t[i - Len(rest)]
      BY <1>13, CatAt
    <3> QED BY <3>2, <3>3, <3>4
  <2>3. Ring(m2, r2, c2, D) \in Seq(Data) /\ Len(Ring(m2, r2, c2, D)) = c2
        /\ \A i \in 1 .. c2 : Ring(m2, r2, c2, D)[i] = m2[At(r2, i - 1, D)]
    <3>1. \A i \in 1 .. c2 : Ring(m2, r2, c2, D)[i] = m2[At(r2, i - 1, D)]
      BY DEF Ring
    <3> QED BY <3>1, <1>12, RingIsSeq
  <2>4. \A i \in 1 .. c2 : Cat(rest, Beat(in))[i] = m2[At(r2, i - 1, D)]
    <3> SUFFICES ASSUME NEW i \in 1 .. c2 PROVE Cat(rest, Beat(in))[i] = m2[At(r2, i - 1, D)]
      OBVIOUS
    <3>1. CASE i <= c - n
      <4>1. i \in 1 .. c - n /\ i - 1 \in 0 .. c - n - 1
        BY <3>1, <1>1, <1>3
      <4> QED BY <3>1, <4>1, <2>2, <1>places, <1>11
    <3>2. CASE ~(i <= c - n)
      <4>1. e = 1 /\ i - 1 = c - n /\ i - (c - n) = 1
        BY <3>2, <1>1, <1>3
      <4> QED BY <4>1, <3>2, <2>1, <2>2, <1>10
    <3> QED BY <3>1, <3>2
  <2> QED BY <2>2, <2>3, <2>4, SeqEqual
<1> QED BY <1>12, <1>13, <1>14, <1>15 DEF Through

-----------------------------------------------------------------------------
(* The delay line, for any number of stages.                               *)

\* F[n] is the beats in the first n of the S stages of L, oldest first.
LineBeats(F, L, S) ==
  F = [n \in 0 .. S |-> IF n = 0 THEN << >> ELSE Cat(Beat(L[n]), F[n - 1])]

\* A property of numbers that fails somewhere fails first somewhere.
LEMMA LeastElement ==
  ASSUME NEW T \in SUBSET Nat, T # {}
  PROVE  \E n \in T : \A k \in T : n <= k
<1> DEFINE R == OpToRel(<, Nat)
<1>1. IsWellFoundedOn(R, Nat)
  BY NatLessThanWellFounded
<1>2. PICK x \in T : \A y \in T : ~(<<y, x>> \in R)
  BY <1>1, WFMin
<1>3. ASSUME NEW y \in T PROVE x <= y
  <2>1. ~(y < x)
    BY <1>2, <1>3 DEF OpToRel
  <2> QED BY <2>1
<1> QED BY <1>3

\* The recursive definition of the beats defines a function.
LEMMA LineBeatsExist ==
  ASSUME NEW L, NEW S \in Nat
  PROVE  \E F : LineBeats(F, L, S)
<1> DEFINE T == {n \in Nat : ~\E F : LineBeats(F, L, n)}
<1>1. \E F : LineBeats(F, L, 0)
  <2> DEFINE F == [n \in 0 .. 0 |-> << >>]
  <2>1. F = [n \in 0 .. 0 |-> IF n = 0 THEN << >> ELSE Cat(Beat(L[n]), F[n - 1])]
    OBVIOUS
  <2> QED BY <2>1 DEF LineBeats
<1>2. ASSUME NEW n \in Nat, NEW F, LineBeats(F, L, n) PROVE \E G : LineBeats(G, L, n + 1)
  <2> DEFINE G == [k \in 0 .. n + 1 |-> IF k = n + 1 THEN Cat(Beat(L[n + 1]), F[n]) ELSE F[k]]
  <2>1. F = [k \in 0 .. n |-> IF k = 0 THEN << >> ELSE Cat(Beat(L[k]), F[k - 1])]
    BY <1>2 DEF LineBeats
  <2>2. ASSUME NEW k \in 0 .. n + 1
        PROVE  G[k] = IF k = 0 THEN << >> ELSE Cat(Beat(L[k]), G[k - 1])
    <3>1. CASE k = 0
      BY <2>1, <3>1
    <3>2. CASE k = n + 1
      BY <3>2
    <3>3. CASE k \in 1 .. n
      <4>1. G[k] = F[k] /\ G[k - 1] = F[k - 1]
        BY <3>3
      <4>2. F[k] = Cat(Beat(L[k]), F[k - 1])
        BY <2>1, <3>3
      <4> QED BY <4>1, <4>2, <3>3
    <3> QED BY <3>1, <3>2, <3>3
  <2>3. G = [k \in 0 .. n + 1 |-> IF k = 0 THEN << >> ELSE Cat(Beat(L[k]), G[k - 1])]
    BY <2>2
  <2> QED BY <2>3 DEF LineBeats
<1>3. ASSUME T # {} PROVE FALSE
  <2>1. PICK n \in T : \A k \in T : n <= k
    BY <1>3, LeastElement
  <2>2. n \in Nat /\ ~\E F : LineBeats(F, L, n)
    BY <2>1
  <2>3. n # 0
    BY <1>1, <2>2
  <2>4. n - 1 \in Nat /\ n - 1 \notin T
    BY <2>1, <2>2, <2>3
  <2>5. PICK F : LineBeats(F, L, n - 1)
    BY <2>4
  <2>6. \E G : LineBeats(G, L, n - 1 + 1)
    BY <2>4, <2>5, <1>2
  <2> QED BY <2>2, <2>6
<1> QED BY <1>3

\* What the beats are at each stage.
LEMMA LineBeatsAt ==
  ASSUME NEW F, NEW L, NEW S \in Nat, LineBeats(F, L, S)
  PROVE  F[0] = << >> /\ \A n \in 1 .. S : F[n] = Cat(Beat(L[n]), F[n - 1])
  BY DEF LineBeats

\* Each F[n] is a sequence, with as many beats as the stages that hold one.
LEMMA LineBeatsCount ==
  ASSUME NEW F, NEW S \in Nat, NEW L \in [1 .. S -> Words], LineBeats(F, L, S)
  PROVE  \A n \in 0 .. S :
           /\ F[n] \in Seq(Data)
           /\ IsFiniteSet({i \in 1 .. n : L[i] # NoData})
           /\ Len(F[n]) = Cardinality({i \in 1 .. n : L[i] # NoData})
<1> DEFINE Busy(n) == {i \in 1 .. n : L[i] # NoData}
           Good(n) == /\ F[n] \in Seq(Data) /\ IsFiniteSet(Busy(n))
                      /\ Len(F[n]) = Cardinality(Busy(n))
           T == {n \in 0 .. S : ~Good(n)}
<1>1. Good(0)
  <2>1. Busy(0) = {} /\ F[0] = << >>
    BY LineBeatsAt
  <2> QED BY <2>1, FS_EmptySet, EmptySeq
<1>2. ASSUME NEW n \in 1 .. S, Good(n - 1) PROVE Good(n)
  <2>1. F[n] = Cat(Beat(L[n]), F[n - 1])
    BY LineBeatsAt
  <2>2. PICK b \in Seq(Data) : b = Beat(L[n]) /\ Len(b) = IF L[n] = NoData THEN 0 ELSE 1
    BY BeatIsSeq
  <2>3. PICK q \in Seq(Data) : q = F[n - 1] /\ Len(q) = Cardinality(Busy(n - 1))
    BY <1>2
  <2>4. F[n] \in Seq(Data) /\ Len(F[n]) = Len(b) + Len(q) /\ Len(q) \in Nat
    <3>1. Cat(b, q) \in Seq(Data) /\ Len(Cat(b, q)) = Len(b) + Len(q) /\ Len(q) \in Nat
      BY CatAt
    <3>2. F[n] = Cat(b, q)
      BY <2>1, <2>2, <2>3
    <3> QED BY <3>1, <3>2
  <2>5. CASE L[n] = NoData
    <3>1. Busy(n) = Busy(n - 1)
      BY <2>5
    <3> HIDE DEF Busy
    <3> QED BY <3>1, <2>5, <2>2, <2>3, <2>4, <1>2
  <2>6. CASE L[n] # NoData
    <3>1. Busy(n) = Busy(n - 1) \cup {n} /\ n \notin Busy(n - 1) /\ IsFiniteSet(Busy(n - 1))
      BY <2>6, <1>2
    <3> HIDE DEF Busy
    <3>2. PICK K : K = Busy(n - 1) /\ IsFiniteSet(K) /\ n \notin K /\ Busy(n) = K \cup {n}
      BY <3>1
    <3>3. IsFiniteSet(K \cup {n}) /\ Cardinality(K \cup {n}) = Cardinality(K) + 1
      BY <3>2, FS_AddElement
    <3> QED BY <3>2, <3>3, <2>6, <2>2, <2>3, <2>4
  <2> QED BY <2>5, <2>6
<1> HIDE DEF Good
<1>3. ASSUME T # {} PROVE FALSE
  <2>1. PICK n \in T : \A k \in T : n <= k
    <3>1. T \in SUBSET Nat
      OBVIOUS
    <3> QED BY <3>1, <1>3, LeastElement
  <2>2. n # 0
    BY <1>1, <2>1
  <2>3. n \in 1 .. S /\ n - 1 \in 0 .. S /\ n - 1 \notin T
    BY <2>1, <2>2
  <2> QED BY <2>1, <2>3, <1>2
<1>4. \A n \in 0 .. S : Good(n)
  BY <1>3
<1> QED BY <1>4 DEF Good

\* An empty line holds no beats.
LEMMA LineEmpty ==
  ASSUME NEW F, NEW S \in Nat, NEW L \in [1 .. S -> Words], LineBeats(F, L, S),
         \A i \in 1 .. S : L[i] = NoData
  PROVE  F[S] = << >>
<1>1. {i \in 1 .. S : L[i] # NoData} = {}
  OBVIOUS
<1>2. F[S] \in Seq(Data) /\ Len(F[S]) = 0
  BY <1>1, LineBeatsCount, FS_EmptySet
<1> QED BY <1>2, EmptySeq

\* The stages of a line shift: `in` enters the first, the beat in the last leaves.
Shifted(L, S, in, M) == M = [i \in 1 .. S |-> IF i = 1 THEN in ELSE L[i - 1]]

\* A shift passes the beats through, in order.
LEMMA LinePasses ==
  ASSUME NEW F, NEW G, NEW S \in Nat \ {0}, NEW L \in [1 .. S -> Words], NEW M,
         NEW in \in Words, LineBeats(F, L, S), LineBeats(G, M, S), Shifted(L, S, in, M)
  PROVE  Through(F[S], in, L[S], G[S])
<1>1. M \in [1 .. S -> Words] /\ M[1] = in /\ \A n \in 2 .. S : M[n] = L[n - 1]
  BY DEF Shifted
<1>2. \A n \in 0 .. S : F[n] \in Seq(Data)
  BY LineBeatsCount
<1>3. Beat(in) \in Seq(Data) /\ \A n \in 1 .. S : Beat(L[n]) \in Seq(Data)
  BY BeatIsSeq
<1>4. G[1] = Cat(F[0], Beat(in))
  <2>1. F[0] = << >> /\ G[1] = Cat(Beat(in), G[0]) /\ G[0] = << >>
    BY <1>1, LineBeatsAt
  <2> QED BY <2>1, <1>3, ConcatEmptySeq DEF Cat
<1>5. ASSUME NEW n \in 2 .. S, G[n - 1] = Cat(F[n - 2], Beat(in))
      PROVE  G[n] = Cat(F[n - 1], Beat(in))
  <2>1. G[n] = Cat(Beat(M[n]), G[n - 1]) /\ M[n] = L[n - 1]
    <3>1. n \in 1 .. S
      OBVIOUS
    <3>2. G[n] = Cat(Beat(M[n]), G[n - 1])
      BY <3>1, LineBeatsAt
    <3> QED BY <3>2, <1>1
  <2>2. n - 1 \in 1 .. S /\ n - 2 \in 0 .. S /\ n - 1 - 1 = n - 2
    OBVIOUS
  <2>3. F[n - 1] = Cat(Beat(L[n - 1]), F[n - 2])
    BY <2>2, LineBeatsAt
  <2>4. /\ F[n - 2] \in Seq(Data) /\ Beat(L[n - 1]) \in Seq(Data)
    BY <2>2, <1>2, <1>3
  <2>5. Cat(Beat(L[n - 1]), Cat(F[n - 2], Beat(in))) = Cat(Cat(Beat(L[n - 1]), F[n - 2]), Beat(in))
    <3>1. PICK a, b, c \in Seq(Data) : a = Beat(L[n - 1]) /\ b = F[n - 2] /\ c = Beat(in)
      BY <2>4, <1>3
    <3>2. Cat(a, Cat(b, c)) = Cat(Cat(a, b), c)
      BY CatLaws
    <3> QED BY <3>1, <3>2
  <2> QED BY <2>1, <2>3, <2>5, <1>5
<1> DEFINE T == {n \in 1 .. S : G[n] # Cat(F[n - 1], Beat(in))}
<1>6. ASSUME T # {} PROVE FALSE
  <2>1. PICK n \in T : \A k \in T : n <= k
    <3>1. T \in SUBSET Nat
      OBVIOUS
    <3> QED BY <3>1, <1>6, LeastElement
  <2>2. n # 1
    BY <1>4, <2>1
  <2>3. n \in 2 .. S /\ n - 1 \in 1 .. S /\ n - 1 \notin T /\ n - 1 - 1 = n - 2
    BY <2>1, <2>2
  <2>4. G[n - 1] = Cat(F[n - 2], Beat(in))
    BY <2>3
  <2> QED BY <2>1, <2>3, <2>4, <1>5
<1>7. G[S] = Cat(F[S - 1], Beat(in))
  BY <1>6
<1>8. F[S] = Cat(Beat(L[S]), F[S - 1]) /\ F[S - 1] \in Seq(Data)
  BY <1>2, LineBeatsAt
<1> QED BY <1>7, <1>8 DEF Through
-----------------------------------------------------------------------------
(* The Gray code, for every width.                                         *)

\* The definition of ^, which the provers do not know.
PowersOfTwo == 2 ^ 0 = 1 /\ \A i \in Nat : 2 ^ (i + 1) = 2 * 2 ^ i

\* ... and that each of them is a number above 0.
Doubling == PowersOfTwo /\ \A i \in Nat : 2 ^ i \in Nat \ {0}

\* Every power of two is a number, and not zero.
LEMMA PowersDouble == ASSUME PowersOfTwo PROVE Doubling
<1> DEFINE U == {i \in Nat : 2 ^ i \notin Nat \ {0}}
<1>1. ASSUME U # {} PROVE FALSE
  <2>1. PICK u \in U : \A k \in U : u <= k
    BY <1>1, LeastElement
  <2>2. 0 \notin U
    <3>1. 2 ^ 0 = 1
      BY DEF PowersOfTwo
    <3> QED BY <3>1
  <2>3. u - 1 \in Nat /\ u - 1 \notin U /\ (u - 1) + 1 = u
    <3>1. u \in Nat /\ u # 0
      BY <2>2
    <3>2. u - 1 \in Nat /\ (u - 1) + 1 = u /\ ~(u <= u - 1)
      BY <3>1
    <3> HIDE DEF U
    <3> QED BY <2>1, <3>2
  <2>4. 2 ^ ((u - 1) + 1) = 2 * 2 ^ (u - 1)
    BY <2>3 DEF PowersOfTwo
  <2> QED BY <2>1, <2>3, <2>4
<1> QED BY <1>1 DEF Doubling

\* Induction from 0 up to n, and from n down to 0.
LEMMA Upwards ==
  ASSUME NEW n \in Nat, NEW T, 0 \in T, \A i \in 0 .. n - 1 : i \in T => i + 1 \in T
  PROVE  \A i \in 0 .. n : i \in T
<1> DEFINE U == {i \in 0 .. n : i \notin T}
<1>1. ASSUME U # {} PROVE FALSE
  <2>1. U \in SUBSET Nat
    OBVIOUS
  <2>2. PICK u \in U : \A k \in U : u <= k
    BY <1>1, <2>1, LeastElement
  <2>3. u # 0 /\ u - 1 \in 0 .. n - 1 /\ u - 1 \notin U
    BY <2>2
  <2> QED BY <2>2, <2>3
<1> QED BY <1>1

\* Induction from n down to 0.
LEMMA Downwards ==
  ASSUME NEW n \in Nat, NEW T, n \in T, \A i \in 0 .. n - 1 : i + 1 \in T => i \in T
  PROVE  \A i \in 0 .. n : i \in T
<1> DEFINE U == {k \in 0 .. n : n - k \notin T}
<1>1. ASSUME U # {} PROVE FALSE
  <2>1. U \in SUBSET Nat
    OBVIOUS
  <2>2. PICK u \in U : \A k \in U : u <= k
    BY <1>1, <2>1, LeastElement
  <2>3. u # 0 /\ u - 1 \in 0 .. n /\ u - 1 \notin U
    BY <2>2
  <2>4. n - u \in 0 .. n - 1 /\ n - (u - 1) = (n - u) + 1
    BY <2>2, <2>3
  <2> QED BY <2>2, <2>3, <2>4
<1>2. ASSUME NEW i \in 0 .. n PROVE i \in T
  <2>1. n - i \in 0 .. n /\ n - (n - i) = i
    OBVIOUS
  <2> QED BY <1>1, <2>1
<1> QED BY <1>2

\* The bits of p from the i-th on, as a number.
Q(p, i) == p \div 2 ^ i

\* Division once by a and then by 2 is division by 2 * a.
LEMMA Halves ==
  ASSUME NEW p \in Nat, NEW a \in Nat \ {0}
  PROVE  /\ (p \div a) \div 2 = p \div (2 * a)
         /\ (p \div 2) \div a = p \div (2 * a)
         /\ p \div a \in Nat
  OBVIOUS

\* Dropping one bit more halves the number.
LEMMA QLaws ==
  ASSUME Doubling, NEW p \in Nat
  PROVE  /\ Q(p, 0) = p
         /\ \A i \in Nat : /\ Q(p, i) \in Nat
                          /\ Q(p, i + 1) = Q(p, i) \div 2
                          /\ Q(p \div 2, i) = Q(p, i + 1)
<1>1. Q(p, 0) = p
  BY DEF Q, Doubling, PowersOfTwo
<1>2. ASSUME NEW i \in Nat
      PROVE  Q(p, i) \in Nat /\ Q(p, i + 1) = Q(p, i) \div 2 /\ Q(p \div 2, i) = Q(p, i + 1)
  <2>1. PICK a \in Nat \ {0} : a = 2 ^ i /\ 2 * a = 2 ^ (i + 1)
    BY DEF Doubling, PowersOfTwo
  <2>2. (p \div a) \div 2 = p \div (2 * a) /\ (p \div 2) \div a = p \div (2 * a) /\ p \div a \in Nat
    BY Halves
  <2> QED BY <2>1, <2>2 DEF Q
<1> QED BY <1>1, <1>2

\* A pointer has Width bits.
LEMMA QTop ==
  ASSUME Doubling, NEW p \in Gray!Ptr
  PROVE  p \in Nat /\ Q(p, Width) = 0
<1>1. 2 ^ Width \in Nat \ {0} /\ p \in 0 .. 2 ^ Width - 1
  BY BenchAssumption DEF Doubling, PowersOfTwo, Gray!Ptr
<1> QED BY <1>1 DEF Q

\* Bit i of a pointer, and nothing above the top.
B(p, i) == Q(p, i) % 2

\* The Gray bits are the sums of neighbouring bits.
LEMMA GrayBits ==
  ASSUME Doubling, NEW p \in Gray!Ptr
  PROVE  /\ \A i \in 0 .. Width : B(p, i) \in {0, 1}
         /\ B(p, Width) = 0
         /\ Gray!to_gray(p) \in Gray!Word
         /\ \A i \in Gray!Bit : /\ Gray!bits(p)[i] = B(p, i)
                               /\ Gray!to_gray(p)[i] = (B(p, i) + B(p, i + 1)) % 2
<1>1. p \in Nat /\ Q(p, Width) = 0 /\ Width \in Nat
  BY QTop, BenchAssumption
<1>2. ASSUME NEW i \in 0 .. Width PROVE Q(p, i) \in Nat /\ i \in Nat
  <2>1. i \in Nat
    BY <1>1
  <2> QED BY <2>1, <1>1, QLaws
<1>3. \A i \in 0 .. Width : B(p, i) \in {0, 1}
  BY <1>2 DEF B
<1>4. ASSUME NEW i \in Gray!Bit
      PROVE  /\ i \in 0 .. Width /\ i + 1 \in 0 .. Width
             /\ Gray!bits(p)[i] = B(p, i)
             /\ Gray!to_gray(p)[i] = (B(p, i) + B(p, i + 1)) % 2
  <2>1. i \in Nat /\ i \in 0 .. Width /\ i + 1 \in 0 .. Width
    BY <1>1 DEF Gray!Bit
  <2>2. Gray!bits(p)[i] = B(p, i)
    BY DEF Gray!bits, B, Q
  <2>3. Gray!bits(p \div 2)[i] = Q(p \div 2, i) % 2
    BY DEF Gray!bits, Q
  <2>4. Gray!bits(p \div 2)[i] = B(p, i + 1)
    BY <2>1, <2>3, <1>1, QLaws DEF B
  <2> QED BY <2>1, <2>2, <2>4 DEF Gray!to_gray
<1>5. Gray!to_gray(p) \in Gray!Word
  <2>1. \A i \in Gray!Bit : Gray!to_gray(p)[i] \in {0, 1}
    BY <1>3, <1>4
  <2>2. Gray!to_gray(p) = [i \in Gray!Bit |-> Gray!to_gray(p)[i]]
    BY DEF Gray!to_gray
  <2> QED BY <2>1, <2>2 DEF Gray!Word
<1> QED BY <1>1, <1>3, <1>4, <1>5 DEF B

\* A pointer is its bits.
LEMMA BitsTell ==
  ASSUME Doubling, NEW p \in Gray!Ptr, NEW r \in Gray!Ptr,
         \A i \in Gray!Bit : B(p, i) = B(r, i)
  PROVE  p = r
<1> DEFINE T == {i \in 0 .. Width : Q(p, i) = Q(r, i)}
<1>1. Width \in Nat /\ p \in Nat /\ r \in Nat /\ Width \in T
  BY QTop, BenchAssumption
<1>2. ASSUME NEW i \in 0 .. Width - 1, i + 1 \in T PROVE i \in T
  <2>1. i \in Nat /\ i \in Gray!Bit
    BY <1>1 DEF Gray!Bit
  <2>2. /\ Q(p, i) \in Nat /\ Q(p, i + 1) = Q(p, i) \div 2
        /\ Q(r, i) \in Nat /\ Q(r, i + 1) = Q(r, i) \div 2
    BY <2>1, <1>1, QLaws
  <2>3. Q(p, i) % 2 = Q(r, i) % 2
    BY <2>1 DEF B
  <2> QED BY <2>2, <2>3, <1>1, <1>2
<1>3. 0 \in T
  <2> HIDE DEF T
  <2>1. \A i \in 0 .. Width : i \in T
    BY <1>1, <1>2, Downwards
  <2> QED BY <2>1, <1>1
<1> QED BY <1>1, <1>3, QLaws

\* Decoding the Gray code: each bit is the sum of the Gray bits from it on.
LEMMA GrayTells ==
  ASSUME Doubling, NEW p \in Gray!Ptr, NEW r \in Gray!Ptr,
         Gray!to_gray(p) = Gray!to_gray(r)
  PROVE  p = r
<1> DEFINE T == {i \in 0 .. Width : B(p, i) = B(r, i)}
<1>1. Width \in Nat /\ Width \in T
  BY GrayBits, BenchAssumption
<1>2. ASSUME NEW i \in 0 .. Width - 1, i + 1 \in T PROVE i \in T
  <2>1. i \in Gray!Bit /\ i \in 0 .. Width /\ i + 1 \in 0 .. Width
    BY <1>1 DEF Gray!Bit
  <2>2. /\ Gray!to_gray(p)[i] = (B(p, i) + B(p, i + 1)) % 2
        /\ Gray!to_gray(r)[i] = (B(r, i) + B(r, i + 1)) % 2
        /\ B(p, i) \in {0, 1} /\ B(r, i) \in {0, 1} /\ B(p, i + 1) \in {0, 1}
    BY <2>1, GrayBits
  <2> QED BY <2>1, <2>2, <1>2
<1>3. \A i \in 0 .. Width : i \in T
  <2> HIDE DEF T
  <2> QED BY <1>1, <1>2, Downwards
<1>4. \A i \in Gray!Bit : B(p, i) = B(r, i)
  BY <1>1, <1>3 DEF Gray!Bit
<1> QED BY <1>4, BitsTell

\* Each decoded bit is the parity of the Gray bits from it on.
LEMMA ParityIsBit ==
  ASSUME Doubling, NEW p \in Gray!Ptr
  PROVE  \A i \in Gray!Bit : Gray!parity(Gray!to_gray(p), i) = B(p, i)
<1> DEFINE g == Gray!to_gray(p)
           Ones(i) == {j \in i .. Width - 1 : g[j] = 1}
           T == {i \in 0 .. Width : IsFiniteSet(Ones(i)) /\ Cardinality(Ones(i)) \in Nat
                                   /\ Cardinality(Ones(i)) % 2 = B(p, i)}
<1>1. Width \in Nat
  BY BenchAssumption
<1>2. Width \in T
  <2>1. Ones(Width) = {}
    BY <1>1
  <2> HIDE DEF Ones
  <2>2. IsFiniteSet(Ones(Width)) /\ Cardinality(Ones(Width)) = 0
    BY <2>1, FS_EmptySet
  <2> QED BY <2>2, <1>1, GrayBits
<1>3. ASSUME NEW i \in 0 .. Width - 1, i + 1 \in T PROVE i \in T
  <2>1. i \in Gray!Bit /\ i \in 0 .. Width /\ i + 1 \in 0 .. Width
    BY <1>1 DEF Gray!Bit
  <2>2. /\ g[i] = (B(p, i) + B(p, i + 1)) % 2
        /\ B(p, i) \in {0, 1} /\ B(p, i + 1) \in {0, 1}
    BY <2>1, GrayBits
  <2> HIDE DEF g
  <2>3. CASE g[i] # 1
    <3>1. Ones(i) = Ones(i + 1)
      BY <2>3, <1>1
    <3> HIDE DEF Ones
    <3>2. B(p, i) = B(p, i + 1)
      BY <2>2, <2>3
    <3> QED BY <3>1, <3>2, <2>1, <1>3
  <2>4. CASE g[i] = 1
    <3>1. Ones(i) = Ones(i + 1) \cup {i} /\ i \notin Ones(i + 1)
      BY <2>4, <1>1
    <3>2. IsFiniteSet(Ones(i + 1)) /\ Cardinality(Ones(i + 1)) \in Nat
          /\ Cardinality(Ones(i + 1)) % 2 = B(p, i + 1)
      BY <1>3
    <3> HIDE DEF Ones
    <3>3. IsFiniteSet(Ones(i)) /\ Cardinality(Ones(i)) = Cardinality(Ones(i + 1)) + 1
      BY <3>1, <3>2, FS_AddElement
    <3>4. (Cardinality(Ones(i + 1)) + 1) % 2 = B(p, i)
      BY <3>2, <2>2, <2>4
    <3> QED BY <3>2, <3>3, <3>4, <2>1
  <2> QED BY <2>3, <2>4
<1>4. \A i \in 0 .. Width : i \in T
  <2> HIDE DEF T
  <2> QED BY <1>1, <1>2, <1>3, Downwards
<1>5. ASSUME NEW i \in Gray!Bit PROVE Gray!parity(g, i) = B(p, i)
  <2>1. i \in 0 .. Width
    BY <1>1 DEF Gray!Bit
  <2>2. Cardinality(Ones(i)) % 2 = B(p, i)
    BY <2>1, <1>4
  <2>3. Gray!Cardinality(Ones(i)) = Cardinality(Ones(i))
    BY DEF Gray!Cardinality, Cardinality
  <2> QED BY <2>2, <2>3 DEF Gray!parity
<1> QED BY <1>5

\* The decoder inverts the encoder.
LEMMA DecodeEncode ==
  ASSUME Doubling, NEW p \in Gray!Ptr
  PROVE  Gray!to_bin(Gray!to_gray(p)) = p
<1> DEFINE g == Gray!to_gray(p)
           D(r) == \A i \in Gray!Bit : Gray!bits(r)[i] = Gray!parity(g, i)
<1>1. D(p)
  BY GrayBits, ParityIsBit
<1>2. ASSUME NEW r \in Gray!Ptr, D(r) PROVE r = p
  <2>1. \A i \in Gray!Bit : B(r, i) = B(p, i)
    BY <1>2, GrayBits, ParityIsBit
  <2> QED BY <2>1, BitsTell
<1>3. Gray!to_bin(g) = CHOOSE r \in Gray!Ptr : D(r)
  BY DEF Gray!to_bin
<1> HIDE DEF D, g
<1>4. Gray!to_bin(g) \in Gray!Ptr /\ D(Gray!to_bin(g))
  BY <1>1, <1>3
<1>5. Gray!to_bin(g) = p
  BY <1>2, <1>4
<1> QED BY <1>5 DEF g

-----------------------------------------------------------------------------
(* Counting: one step of a pointer changes one Gray bit.                   *)

\* What a step carries into bit i: 0 or 1.
C(p, i) == Q(p + 1, i) - Q(p, i)

\* A carry comes from the bit below it, when that is one.
LEMMA CarryLaws ==
  ASSUME Doubling, NEW p \in Nat
  PROVE  /\ C(p, 0) = 1
         /\ \A i \in Nat : C(p, i) \in {0, 1} =>
              C(p, i + 1) = IF C(p, i) = 1 /\ B(p, i) = 1 THEN 1 ELSE 0
<1>1. C(p, 0) = 1
  BY QLaws DEF C
<1>2. ASSUME NEW i \in Nat, C(p, i) \in {0, 1}
      PROVE  C(p, i + 1) = IF C(p, i) = 1 /\ B(p, i) = 1 THEN 1 ELSE 0
  <2>1. Q(p, i) \in Nat /\ Q(p, i + 1) = Q(p, i) \div 2
    BY QLaws
  <2>2. Q(p + 1, i) \in Nat /\ Q(p + 1, i + 1) = Q(p + 1, i) \div 2
    <3>1. p + 1 \in Nat
      OBVIOUS
    <3> QED BY <3>1, QLaws
  <2>3. Q(p + 1, i) = Q(p, i) \/ Q(p + 1, i) = Q(p, i) + 1
    BY <2>1, <2>2, <1>2 DEF C
  <2> QED BY <2>1, <2>2, <2>3 DEF C, B
<1> QED BY <1>1, <1>2

\* A carry that reaches a bit went through all the bits below it.
LEMMA CarryChain ==
  ASSUME Doubling, NEW p \in Nat
  PROVE  \A i \in 0 .. Width : /\ C(p, i) \in {0, 1}
                               /\ C(p, i) = 1 => \A j \in 0 .. i - 1 : B(p, j) = 1
<1> DEFINE Chain(i) == C(p, i) = 1 => \A j \in 0 .. i - 1 : B(p, j) = 1
           T == {i \in 0 .. Width : C(p, i) \in {0, 1} /\ Chain(i)}
<1>1. Width \in Nat /\ 0 \in T
  BY CarryLaws, BenchAssumption
<1>2. ASSUME NEW i \in 0 .. Width - 1, i \in T PROVE i + 1 \in T
  <2>1. i \in Nat /\ C(p, i) \in {0, 1}
    BY <1>1, <1>2
  <2>2. C(p, i + 1) = IF C(p, i) = 1 /\ B(p, i) = 1 THEN 1 ELSE 0
    BY <2>1, CarryLaws
  <2>3. ASSUME C(p, i + 1) = 1, NEW j \in 0 .. i + 1 - 1 PROVE B(p, j) = 1
    <3>1. C(p, i) = 1 /\ B(p, i) = 1
      BY <2>2, <2>3
    <3>2. j = i \/ j \in 0 .. i - 1
      BY <2>1
    <3> QED BY <3>1, <3>2, <1>2
  <2> QED BY <2>2, <2>3, <1>1
<1>3. \A i \in 0 .. Width : i \in T
  <2> HIDE DEF T
  <2> QED BY <1>1, <1>2, Upwards
<1> QED BY <1>3

\* Where the code of two pointers differs in one place at the most.
OneBitApart(p, r) ==
  \A i, j \in Gray!Bit :
    Gray!to_gray(p)[i] # Gray!to_gray(r)[i] /\ Gray!to_gray(p)[j] # Gray!to_gray(r)[j] => i = j

\* The code of the next pointer, below the last.
LEMMA StepMovesOneBit ==
  ASSUME Doubling, NEW p \in Gray!Ptr, p + 1 \in Gray!Ptr
  PROVE  OneBitApart(p, p + 1)
<1>1. p \in Nat /\ Width \in Nat
  BY QTop, BenchAssumption
<1>2. ASSUME NEW i \in Gray!Bit, Gray!to_gray(p)[i] # Gray!to_gray(p + 1)[i]
      PROVE  C(p, i) = 1 /\ B(p, i) = 0
  <2>1. i \in Nat /\ i + 1 \in Nat /\ i \in 0 .. Width /\ i + 1 \in 0 .. Width
    BY <1>1 DEF Gray!Bit
  <2>2. C(p, i) \in {0, 1}
    BY <1>1, <2>1, CarryChain
  <2>3. C(p, i + 1) = IF C(p, i) = 1 /\ B(p, i) = 1 THEN 1 ELSE 0
    BY <1>1, <2>1, <2>2, CarryLaws
  <2>4. /\ Q(p, i) \in Nat /\ Q(p, i + 1) \in Nat
        /\ Q(p + 1, i) = Q(p, i) + C(p, i) /\ Q(p + 1, i + 1) = Q(p, i + 1) + C(p, i + 1)
    <3>1. p + 1 \in Nat
      BY <1>1
    <3>2. Q(p, i) \in Nat /\ Q(p + 1, i) \in Nat
      BY <1>1, <2>1, <3>1, QLaws
    <3>3. Q(p, i + 1) \in Nat /\ Q(p + 1, i + 1) \in Nat
      BY <1>1, <2>1, <3>1, QLaws
    <3> QED BY <3>2, <3>3 DEF C
  <2>5. (B(p, i) + B(p, i + 1)) % 2 # (B(p + 1, i) + B(p + 1, i + 1)) % 2
    BY <1>2, GrayBits
  <2>6. /\ B(p + 1, i) = (Q(p, i) + C(p, i)) % 2
        /\ B(p + 1, i + 1) = (Q(p, i + 1) + C(p, i + 1)) % 2
    BY <2>4 DEF B
  <2>7. B(p, i) = Q(p, i) % 2 /\ B(p, i + 1) = Q(p, i + 1) % 2
    BY DEF B
  <2>8. PICK u \in Nat, v \in Nat : u = Q(p, i) /\ v = Q(p, i + 1)
    BY <2>4
  <2>9. CASE C(p, i) = 0
    <3>1. C(p, i + 1) = 0
      BY <2>3, <2>9
    <3>2. B(p + 1, i) = B(p, i) /\ B(p + 1, i + 1) = B(p, i + 1)
      BY <2>6, <2>7, <2>8, <2>9, <3>1
    <3> QED BY <2>5, <3>2
  <2>10. CASE C(p, i) = 1 /\ B(p, i) = 1
    <3>1. C(p, i + 1) = 1
      BY <2>3, <2>10
    <3>2. u % 2 = 1 /\ B(p + 1, i) = (u + 1) % 2 /\ B(p + 1, i + 1) = (v + 1) % 2 /\ B(p, i + 1) = v % 2
      BY <2>6, <2>7, <2>8, <2>10, <3>1
    <3>3. (1 + (v % 2)) % 2 = (0 + ((v + 1) % 2)) % 2 /\ (u + 1) % 2 = 0
      BY <3>2
    <3> QED BY <2>5, <2>10, <3>2, <3>3
  <2>11. B(p, i) \in {0, 1}
    BY <2>7, <2>8
  <2> QED BY <2>2, <2>9, <2>10, <2>11
<1>3. ASSUME NEW i \in Gray!Bit, NEW j \in Gray!Bit, i < j,
             Gray!to_gray(p)[i] # Gray!to_gray(p + 1)[i],
             Gray!to_gray(p)[j] # Gray!to_gray(p + 1)[j]
      PROVE  FALSE
  <2>1. C(p, j) = 1 /\ B(p, i) = 0
    BY <1>2, <1>3
  <2>2. j \in 0 .. Width /\ i \in 0 .. j - 1
    BY <1>1, <1>3 DEF Gray!Bit
  <2>3. B(p, i) = 1
    BY <1>1, <2>1, <2>2, CarryChain
  <2> QED BY <2>1, <2>3
<1>4. \A i, j \in Gray!Bit : i = j \/ i < j \/ j < i
  BY <1>1 DEF Gray!Bit
<1> QED BY <1>3, <1>4 DEF OneBitApart

\* The last pointer has all its bits set, the first none.
LEMMA WrapMovesOneBit ==
  ASSUME Doubling, NEW p \in Gray!Ptr, p + 1 = 2 ^ Width
  PROVE  OneBitApart(p, 0) /\ 0 \in Gray!Ptr
<1> DEFINE T == {i \in 0 .. Width : Q(p, i) + 1 = 2 ^ (Width - i) /\ Q(0, i) = 0}
<1>1. p \in Nat /\ Width \in Nat /\ 0 \in Gray!Ptr
  <2>1. 2 ^ Width \in Nat \ {0}
    BY BenchAssumption DEF Doubling, PowersOfTwo
  <2> QED BY <2>1, QTop, BenchAssumption DEF Gray!Ptr
<1>2. 0 \in T
  BY <1>1, QLaws
<1>3. ASSUME NEW i \in 0 .. Width - 1, i \in T PROVE i + 1 \in T
  <2>1. i \in Nat /\ Width - (i + 1) \in Nat /\ Width - (i + 1) + 1 = Width - i /\ i + 1 \in 0 .. Width
    BY <1>1
  <2>2. PICK a \in Nat \ {0} : a = 2 ^ (Width - (i + 1)) /\ 2 * a = 2 ^ (Width - i)
    BY <2>1 DEF Doubling, PowersOfTwo
  <2>3. Q(p, i) \in Nat /\ Q(p, i + 1) = Q(p, i) \div 2 /\ Q(0, i + 1) = Q(0, i) \div 2
    BY <1>1, <2>1, QLaws
  <2>4. Q(p, i) + 1 = 2 * a /\ Q(0, i) = 0
    BY <1>3, <2>2
  <2>5. Q(p, i + 1) + 1 = a /\ Q(0, i + 1) = 0
    BY <2>3, <2>4
  <2> QED BY <2>1, <2>2, <2>5
<1>4. \A i \in 0 .. Width : i \in T
  <2> HIDE DEF T
  <2> QED BY <1>1, <1>2, <1>3, Upwards
<1>5. ASSUME NEW i \in 0 .. Width - 1 PROVE B(p, i) = 1 /\ B(0, i) = 0
  <2>1. i \in Nat /\ i \in 0 .. Width /\ Width - i - 1 \in Nat /\ Width - i - 1 + 1 = Width - i
    BY <1>1
  <2>2. PICK a \in Nat \ {0} : 2 * a = 2 ^ (Width - i)
    BY <2>1 DEF Doubling, PowersOfTwo
  <2>3. Q(p, i) + 1 = 2 * a /\ Q(0, i) = 0
    BY <2>1, <2>2, <1>4
  <2>4. Q(p, i) \in Nat
    BY <1>1, <2>1, QLaws
  <2> QED BY <2>3, <2>4 DEF B
<1>6. ASSUME NEW i \in Gray!Bit, i # Width - 1 PROVE Gray!to_gray(p)[i] = Gray!to_gray(0)[i]
  <2>1. i \in 0 .. Width - 1 /\ i + 1 \in 0 .. Width - 1
    BY <1>1, <1>6 DEF Gray!Bit
  <2>2. B(p, i) = 1 /\ B(p, i + 1) = 1 /\ B(0, i) = 0 /\ B(0, i + 1) = 0
    BY <2>1, <1>5
  <2>3. /\ Gray!to_gray(p)[i] = (B(p, i) + B(p, i + 1)) % 2
        /\ Gray!to_gray(0)[i] = (B(0, i) + B(0, i + 1)) % 2
    BY <1>1, GrayBits
  <2> QED BY <2>2, <2>3
<1> QED BY <1>1, <1>6 DEF OneBitApart

\* A register sampled while it takes the code of the next pointer is the old or the new.
LEMMA SampledIsReal ==
  ASSUME Doubling, NEW p \in Gray!Ptr, NEW r, r \in {p, Gray!Inc(p)},
         NEW w \in Gray!Resolved(Gray!to_gray(p), Gray!to_gray(r))
  PROVE  r \in Gray!Ptr /\ w \in {Gray!to_gray(p), Gray!to_gray(r)}
<1>1. 2 ^ Width \in Nat \ {0} /\ p \in 0 .. 2 ^ Width - 1
  BY BenchAssumption DEF Doubling, PowersOfTwo, Gray!Ptr
<1>2. r \in Gray!Ptr /\ OneBitApart(p, r)
  <2>1. CASE r = p
    BY <2>1 DEF OneBitApart
  <2>2. CASE r = Gray!Inc(p) /\ p + 1 # 2 ^ Width
    <3>1. r = p + 1 /\ r \in Gray!Ptr
      BY <2>2, <1>1 DEF Gray!Inc, Gray!Ptr
    <3> QED BY <3>1, StepMovesOneBit
  <2>3. CASE r = Gray!Inc(p) /\ p + 1 = 2 ^ Width
    <3>1. r = 0
      BY <2>3, <1>1 DEF Gray!Inc
    <3> QED BY <3>1, <2>3, WrapMovesOneBit
  <2> QED BY <2>1, <2>2, <2>3
<1> DEFINE g == Gray!to_gray(p)  h == Gray!to_gray(r)
<1>3. g \in Gray!Word /\ h \in Gray!Word /\ w \in Gray!Word
      /\ \A i \in Gray!Bit : w[i] \in {g[i], h[i]}
  BY <1>2, GrayBits DEF Gray!Resolved
<1>4. \A i, j \in Gray!Bit : g[i] # h[i] /\ g[j] # h[j] => i = j
  BY <1>2 DEF OneBitApart
<1> HIDE DEF g, h
<1>5. CASE \A i \in Gray!Bit : w[i] = g[i]
  <2>1. w = g
    BY <1>3, <1>5 DEF Gray!Word
  <2> QED BY <2>1, <1>2 DEF g
<1>6. CASE \E i \in Gray!Bit : w[i] # g[i]
  <2>1. \A i \in Gray!Bit : w[i] = h[i]
    BY <1>3, <1>4, <1>6
  <2>2. w = h
    BY <1>3, <2>1 DEF Gray!Word
  <2> QED BY <2>2, <1>2 DEF h
<1> QED BY <1>5, <1>6

-----------------------------------------------------------------------------
(* The stream devices, one by one: what each edge passes through them.     *)

\* A word let in by a ready, or taken by one.
If(flag, word) == IF flag THEN word ELSE NoData

\* A short buffer: a ring, whose ready is up only when there is room.
ElasticOK == /\ RingOK(e_mem, e_wr_ptr, e_rd_ptr, e_count, Depth)
             /\ e_rdy \in BOOLEAN /\ (e_rdy => e_count < Depth)
BufOK     == /\ RingOK(mem, wr_ptr, rd_ptr, count, OutDepth)
             /\ buf_rdy \in BOOLEAN /\ (buf_rdy => count < OutDepth)
MidOK     == /\ RingOK(l_mem, l_wr_ptr, l_rd_ptr, l_count, ElasticDepth)
             /\ mid_rdy \in BOOLEAN /\ (mid_rdy => l_count < ElasticDepth)

\* An edge of the registered-ready buffer takes out the word at its front and
\* puts in the one offered.
LEMMA ElasticClock ==
  ASSUME ElasticOK, NEW word \in Words, NEW ready \in BOOLEAN, Elastic!Clock(word, ready)
  PROVE  /\ ElasticOK' /\ If(e_rdy, word) \in Words /\ If(ready, Elastic!m_word) \in Words
         /\ Through(Elastic!stored, If(e_rdy, word), If(ready, Elastic!m_word), Elastic!stored')
<1>0. RingOK(e_mem, e_wr_ptr, e_rd_ptr, e_count, Depth)
  BY DEF ElasticOK
<1>1. e_count # 0 => e_mem[e_rd_ptr] \in Data
  BY <1>0, RingIsSeq
<1>2. Elastic!Accepted(word) = If(e_rdy, word) /\ If(e_rdy, word) \in Words
  BY DEF Elastic!Accepted, If, Words
<1>3. PICK in \in Words, gone \in Words : in = If(e_rdy, word) /\ gone = If(ready, Elastic!m_word)
  BY <1>1, <1>2 DEF If, Words, Elastic!m_word, Elastic!m_valid
<1>4. Elastic!rd_en(ready) <=> gone # NoData
  BY <1>1, <1>3, DataAssumption DEF If, Elastic!m_word, Elastic!m_valid, Elastic!rd_en
<1>5. gone = NoData \/ (e_count # 0 /\ gone = e_mem[e_rd_ptr])
  BY <1>3 DEF If, Elastic!m_word, Elastic!m_valid
<1>6. in # NoData => e_count < Depth
  BY <1>3 DEF If, ElasticOK
<1>7. RingEdge(e_mem, e_wr_ptr, e_rd_ptr, e_count, Depth, in, gone,
               e_mem', e_wr_ptr', e_rd_ptr', e_count')
  <2>1. Elastic!Move(in, gone # NoData)
    BY <1>2, <1>3, <1>4 DEF Elastic!Clock, Elastic!Move
  <2> QED BY <2>1, <1>5, <1>6 DEF RingEdge, Elastic!Move, Elastic!Store, Elastic!Bump
<1>8. /\ RingOK(e_mem', e_wr_ptr', e_rd_ptr', e_count', Depth)
      /\ Through(Ring(e_mem, e_rd_ptr, e_count, Depth), in, gone,
                 Ring(e_mem', e_rd_ptr', e_count', Depth))
  BY <1>7, RingPasses DEF ElasticOK
<1>9. ElasticOK'
  <2>1. e_rdy' = (e_count' < Depth)
    BY DEF Elastic!Clock
  <2>2. e_count' \in Nat /\ Depth \in Nat
    BY <1>8 DEF RingOK
  <2>3. e_rdy' \in BOOLEAN
    BY <2>1, <2>2
  <2>4. e_rdy' => e_count' < Depth
    BY <2>1
  <2> QED BY <2>3, <2>4, <1>8 DEF ElasticOK
<1>10. /\ Elastic!stored = Ring(e_mem, e_rd_ptr, e_count, Depth)
       /\ Elastic!stored' = Ring(e_mem', e_rd_ptr', e_count', Depth)
  BY DEF Elastic!stored, Elastic!Plus, Ring, At
<1> QED BY <1>3, <1>8, <1>9, <1>10

\* An edge in reset empties it.
LEMMA ElasticReset ==
  ASSUME ElasticOK, NEW word \in Words, Elastic!ResetEdge(word)
  PROVE  ElasticOK' /\ Elastic!stored' = << >>
<1>0. RingOK(e_mem, e_wr_ptr, e_rd_ptr, e_count, Depth)
  BY DEF ElasticOK
<1>1. e_wr_ptr \in 0 .. Depth - 1 /\ e_mem \in [0 .. Depth - 1 -> Words]
  BY <1>0, RingIsSeq DEF RingOK
<1>2. Elastic!Accepted(word) \in Words
  BY DEF Elastic!Accepted, Words
<1>3. e_mem' \in [0 .. Depth - 1 -> Words]
  BY <1>1, <1>2 DEF Elastic!ResetEdge, Elastic!ClearStore, Elastic!Store
<1>4. e_wr_ptr' = 0 /\ e_rd_ptr' = 0 /\ e_count' = 0 /\ e_rdy' = FALSE
  BY DEF Elastic!ResetEdge, Elastic!ClearStore
<1>5. RingOK(e_mem', e_wr_ptr', e_rd_ptr', e_count', Depth)
  BY <1>3, <1>4, BenchAssumption DEF RingOK, At
<1>6. Elastic!stored' = << >>
  BY <1>4 DEF Elastic!stored
<1> QED BY <1>4, <1>5, <1>6 DEF ElasticOK
\* An edge of the buffer of the pipe takes out the word at its front and
\* puts in the one offered.
LEMMA BufClock ==
  ASSUME BufOK, NEW word \in Words, NEW ready \in BOOLEAN, Buf!Clock(word, ready)
  PROVE  /\ BufOK' /\ If(buf_rdy, word) \in Words /\ If(ready, Buf!m_word) \in Words
         /\ Through(Buf!stored, If(buf_rdy, word), If(ready, Buf!m_word), Buf!stored')
<1>0. RingOK(mem, wr_ptr, rd_ptr, count, OutDepth)
  BY DEF BufOK
<1>1. count # 0 => mem[rd_ptr] \in Data
  BY <1>0, RingIsSeq
<1>2. Buf!Accepted(word) = If(buf_rdy, word) /\ If(buf_rdy, word) \in Words
  BY DEF Buf!Accepted, If, Words
<1>3. PICK in \in Words, gone \in Words : in = If(buf_rdy, word) /\ gone = If(ready, Buf!m_word)
  BY <1>1, <1>2 DEF If, Words, Buf!m_word, Buf!m_valid
<1>4. Buf!rd_en(ready) <=> gone # NoData
  BY <1>1, <1>3, DataAssumption DEF If, Buf!m_word, Buf!m_valid, Buf!rd_en
<1>5. gone = NoData \/ (count # 0 /\ gone = mem[rd_ptr])
  BY <1>3 DEF If, Buf!m_word, Buf!m_valid
<1>6. in # NoData => count < OutDepth
  BY <1>3 DEF If, BufOK
<1>7. RingEdge(mem, wr_ptr, rd_ptr, count, OutDepth, in, gone,
               mem', wr_ptr', rd_ptr', count')
  <2>1. Buf!Move(in, gone # NoData)
    BY <1>2, <1>3, <1>4 DEF Buf!Clock, Buf!Move
  <2> QED BY <2>1, <1>5, <1>6 DEF RingEdge, Buf!Move, Buf!Store, Buf!Bump
<1>8. /\ RingOK(mem', wr_ptr', rd_ptr', count', OutDepth)
      /\ Through(Ring(mem, rd_ptr, count, OutDepth), in, gone,
                 Ring(mem', rd_ptr', count', OutDepth))
  BY <1>7, RingPasses DEF BufOK
<1>9. BufOK'
  <2>1. buf_rdy' = (count' < OutDepth)
    BY DEF Buf!Clock
  <2>2. count' \in Nat /\ OutDepth \in Nat
    BY <1>8 DEF RingOK
  <2>3. buf_rdy' \in BOOLEAN
    BY <2>1, <2>2
  <2>4. buf_rdy' => count' < OutDepth
    BY <2>1
  <2> QED BY <2>3, <2>4, <1>8 DEF BufOK
<1>10. /\ Buf!stored = Ring(mem, rd_ptr, count, OutDepth)
       /\ Buf!stored' = Ring(mem', rd_ptr', count', OutDepth)
  BY DEF Buf!stored, Buf!Plus, Ring, At
<1> QED BY <1>3, <1>8, <1>9, <1>10

\* An edge in reset empties it.
LEMMA BufReset ==
  ASSUME BufOK, NEW word \in Words, Buf!ResetEdge(word)
  PROVE  BufOK' /\ Buf!stored' = << >>
<1>0. RingOK(mem, wr_ptr, rd_ptr, count, OutDepth)
  BY DEF BufOK
<1>1. wr_ptr \in 0 .. OutDepth - 1 /\ mem \in [0 .. OutDepth - 1 -> Words]
  BY <1>0, RingIsSeq DEF RingOK
<1>2. Buf!Accepted(word) \in Words
  BY DEF Buf!Accepted, Words
<1>3. mem' \in [0 .. OutDepth - 1 -> Words]
  BY <1>1, <1>2 DEF Buf!ResetEdge, Buf!ClearStore, Buf!Store
<1>4. wr_ptr' = 0 /\ rd_ptr' = 0 /\ count' = 0 /\ buf_rdy' = FALSE
  BY DEF Buf!ResetEdge, Buf!ClearStore
<1>5. RingOK(mem', wr_ptr', rd_ptr', count', OutDepth)
  BY <1>3, <1>4, OutDepthAssumption, StagesAssumption DEF RingOK, At
<1>6. Buf!stored' = << >>
  BY <1>4 DEF Buf!stored
<1> QED BY <1>4, <1>5, <1>6 DEF BufOK
\* An edge of the buffer of the loopback takes out the word at its front and
\* puts in the one offered.
LEMMA MidClock ==
  ASSUME MidOK, NEW word \in Words, NEW ready \in BOOLEAN, Loop!Mid!Clock(word, ready)
  PROVE  /\ MidOK' /\ If(mid_rdy, word) \in Words /\ If(ready, Loop!Mid!m_word) \in Words
         /\ Through(Loop!Mid!stored, If(mid_rdy, word), If(ready, Loop!Mid!m_word), Loop!Mid!stored')
<1>0. RingOK(l_mem, l_wr_ptr, l_rd_ptr, l_count, ElasticDepth)
  BY DEF MidOK
<1>1. l_count # 0 => l_mem[l_rd_ptr] \in Data
  BY <1>0, RingIsSeq
<1>2. Loop!Mid!Accepted(word) = If(mid_rdy, word) /\ If(mid_rdy, word) \in Words
  BY DEF Loop!Mid!Accepted, If, Words
<1>3. PICK in \in Words, gone \in Words : in = If(mid_rdy, word) /\ gone = If(ready, Loop!Mid!m_word)
  BY <1>1, <1>2 DEF If, Words, Loop!Mid!m_word, Loop!Mid!m_valid
<1>4. Loop!Mid!rd_en(ready) <=> gone # NoData
  BY <1>1, <1>3, DataAssumption DEF If, Loop!Mid!m_word, Loop!Mid!m_valid, Loop!Mid!rd_en
<1>5. gone = NoData \/ (l_count # 0 /\ gone = l_mem[l_rd_ptr])
  BY <1>3 DEF If, Loop!Mid!m_word, Loop!Mid!m_valid
<1>6. in # NoData => l_count < ElasticDepth
  BY <1>3 DEF If, MidOK
<1>7. RingEdge(l_mem, l_wr_ptr, l_rd_ptr, l_count, ElasticDepth, in, gone,
               l_mem', l_wr_ptr', l_rd_ptr', l_count')
  <2>1. Loop!Mid!Move(in, gone # NoData)
    BY <1>2, <1>3, <1>4 DEF Loop!Mid!Clock, Loop!Mid!Move
  <2> QED BY <2>1, <1>5, <1>6 DEF RingEdge, Loop!Mid!Move, Loop!Mid!Store, Loop!Mid!Bump
<1>8. /\ RingOK(l_mem', l_wr_ptr', l_rd_ptr', l_count', ElasticDepth)
      /\ Through(Ring(l_mem, l_rd_ptr, l_count, ElasticDepth), in, gone,
                 Ring(l_mem', l_rd_ptr', l_count', ElasticDepth))
  BY <1>7, RingPasses DEF MidOK
<1>9. MidOK'
  <2>1. mid_rdy' = (l_count' < ElasticDepth)
    BY DEF Loop!Mid!Clock
  <2>2. l_count' \in Nat /\ ElasticDepth \in Nat
    BY <1>8 DEF RingOK
  <2>3. mid_rdy' \in BOOLEAN
    BY <2>1, <2>2
  <2>4. mid_rdy' => l_count' < ElasticDepth
    BY <2>1
  <2> QED BY <2>3, <2>4, <1>8 DEF MidOK
<1>10. /\ Loop!Mid!stored = Ring(l_mem, l_rd_ptr, l_count, ElasticDepth)
       /\ Loop!Mid!stored' = Ring(l_mem', l_rd_ptr', l_count', ElasticDepth)
  BY DEF Loop!Mid!stored, Loop!Mid!Plus, Ring, At
<1> QED BY <1>3, <1>8, <1>9, <1>10

\* An edge in reset empties it.
LEMMA MidReset ==
  ASSUME MidOK, NEW word \in Words, Loop!Mid!ResetEdge(word)
  PROVE  MidOK' /\ Loop!Mid!stored' = << >>
<1>0. RingOK(l_mem, l_wr_ptr, l_rd_ptr, l_count, ElasticDepth)
  BY DEF MidOK
<1>1. l_wr_ptr \in 0 .. ElasticDepth - 1 /\ l_mem \in [0 .. ElasticDepth - 1 -> Words]
  BY <1>0, RingIsSeq DEF RingOK
<1>2. Loop!Mid!Accepted(word) \in Words
  BY DEF Loop!Mid!Accepted, Words
<1>3. l_mem' \in [0 .. ElasticDepth - 1 -> Words]
  BY <1>1, <1>2 DEF Loop!Mid!ResetEdge, Loop!Mid!ClearStore, Loop!Mid!Store
<1>4. l_wr_ptr' = 0 /\ l_rd_ptr' = 0 /\ l_count' = 0 /\ mid_rdy' = FALSE
  BY DEF Loop!Mid!ResetEdge, Loop!Mid!ClearStore
<1>5. RingOK(l_mem', l_wr_ptr', l_rd_ptr', l_count', ElasticDepth)
  BY <1>3, <1>4, BenchAssumption DEF RingOK, At
<1>6. Loop!Mid!stored' = << >>
  BY <1>4 DEF Loop!Mid!stored
<1> QED BY <1>4, <1>5, <1>6 DEF MidOK

\* Two beats of storage: the second slot is used only when the first is, and the ready is
\* up only when it is free.  The edge, whatever the two slots are called.
SkidOK(o, s) == o \in Words /\ s \in Words /\ (s # NoData => o # NoData)
SkidEdge(o, s, in, gone, o2, s2) ==
  /\ in \in Words /\ (in # NoData => s = NoData) /\ (gone = NoData \/ gone = o)
  /\ \/ (o = NoData \/ gone = o) /\ s # NoData /\ o2 = s /\ s2 = in
     \/ (o = NoData \/ gone = o) /\ s = NoData /\ o2 = in /\ s2 = NoData
     \/ o # NoData /\ gone = NoData /\ o2 = o /\ s2 = IF in # NoData THEN in ELSE s

\* A skid passes its words through, whatever its slots are called.
LEMMA SkidPasses ==
  ASSUME NEW o, NEW s, NEW in, NEW gone, NEW o2, NEW s2,
         SkidOK(o, s), SkidEdge(o, s, in, gone, o2, s2)
  PROVE  /\ SkidOK(o2, s2)
         /\ Through(Cat(Beat(o), Beat(s)), in, gone, Cat(Beat(o2), Beat(s2)))
<1>1. in \in Words /\ o \in Words /\ s \in Words /\ o2 \in Words /\ s2 \in Words /\ NoData \in Words
  BY DEF SkidOK, SkidEdge, Words
<1>2. PICK bi, bo, bs, none \in Seq(Data) :
        bi = Beat(in) /\ bo = Beat(o) /\ bs = Beat(s) /\ none = << >>
  BY <1>1, BeatIsSeq, EmptySeq
<1>3. /\ Cat(none, bi) = bi /\ Cat(bi, none) = bi /\ Cat(none, bs) = bs /\ Cat(bs, none) = bs
      /\ Cat(bo, none) = bo /\ Cat(none, bo) = bo /\ Cat(none, none) = none
  BY <1>2, ConcatEmptySeq DEF Cat
<1>4. Beat(NoData) = none
  BY <1>2 DEF Beat
<1>5. SkidOK(o2, s2)
  BY <1>1 DEF SkidOK, SkidEdge
<1>6. CASE (o = NoData \/ gone = o) /\ s # NoData /\ o2 = s /\ s2 = in
  <2>1. gone = o
    BY <1>6 DEF SkidOK, SkidEdge
  <2>2. Cat(Beat(o), Beat(s)) = Cat(Beat(gone), bs) /\ Cat(Beat(o2), Beat(s2)) = Cat(bs, Beat(in))
    BY <2>1, <1>2, <1>6
  <2> QED BY <2>2, <1>5 DEF Through
<1>7. CASE (o = NoData \/ gone = o) /\ s = NoData /\ o2 = in /\ s2 = NoData
  <2>1. gone = o
    BY <1>7 DEF SkidEdge
  <2>2. Cat(Beat(o), Beat(s)) = Cat(Beat(gone), none)
    BY <2>1, <1>2, <1>4, <1>7
  <2>3. Cat(Beat(o2), Beat(s2)) = Cat(none, Beat(in))
    BY <1>2, <1>3, <1>4, <1>7
  <2> QED BY <2>2, <2>3, <1>5 DEF Through
<1>8. CASE o # NoData /\ gone = NoData /\ o2 = o /\ s2 = IF in # NoData THEN in ELSE s
  <2>1. PICK q \in Seq(Data) : q = Cat(bo, bs)
    BY CatLaws
  <2>2. Cat(Beat(o), Beat(s)) = Cat(Beat(gone), q)
    <3>1. Cat(none, q) = q
      BY ConcatEmptySeq, <1>2 DEF Cat
    <3> QED BY <3>1, <2>1, <1>2, <1>4, <1>8
  <2>3. Cat(Beat(o2), Beat(s2)) = Cat(q, Beat(in))
    <3>1. CASE in # NoData
      <4>1. s = NoData
        BY <3>1 DEF SkidEdge
      <4>2. q = bo
        BY <4>1, <2>1, <1>2, <1>3, <1>4
      <4> QED BY <4>2, <3>1, <1>2, <1>8
    <3>2. CASE in = NoData
      <4>1. Cat(q, none) = q
        BY ConcatEmptySeq, <1>2 DEF Cat
      <4> QED BY <4>1, <3>2, <2>1, <1>2, <1>4, <1>8
    <3> QED BY <3>1, <3>2
  <2> QED BY <2>2, <2>3, <1>5 DEF Through
<1> QED BY <1>6, <1>7, <1>8 DEF SkidEdge

\* An edge of the first skid of the loopback.
InOK == SkidOK(in_out, in_skid) /\ in_rdy \in BOOLEAN /\ (in_rdy => in_skid = NoData)

\* An edge of the first skid of the loopback.
LEMMA InClock ==
  ASSUME InOK, NEW word \in Words, NEW ready \in BOOLEAN, Loop!In!Clock(word, ready)
  PROVE  /\ InOK' /\ If(in_rdy, word) \in Words /\ If(ready, in_out) \in Words
         /\ Through(Loop!In!held, If(in_rdy, word), If(ready, in_out), Loop!In!held')
<1>1. PICK in \in Words, out0 \in Words : in = If(in_rdy, word) /\ out0 = If(ready, in_out)
  BY DEF If, InOK, SkidOK, Words
<1>2. /\ in # NoData <=> Loop!In!Accept(word)
      /\ in # NoData => in = word
      /\ in # NoData => in_skid = NoData
      /\ Loop!In!SlotFree(ready) <=> in_out = NoData \/ out0 = in_out
      /\ out0 = NoData \/ out0 = in_out
  BY <1>1 DEF If, Loop!In!Accept, Loop!In!SlotFree, InOK
<1>3. SkidEdge(in_out, in_skid, in, out0, in_out', in_skid')
  <2>1. CASE Loop!In!SlotFree(ready) /\ in_skid # NoData
    <3>1. in_out' = in_skid /\ in_skid' = IF Loop!In!Accept(word) THEN word ELSE NoData
      BY <2>1 DEF Loop!In!Clock
    <3> QED BY <3>1, <2>1, <1>2 DEF SkidEdge
  <2>2. CASE Loop!In!SlotFree(ready) /\ in_skid = NoData
    <3>1. in_out' = (IF Loop!In!Accept(word) THEN word ELSE NoData) /\ in_skid' = NoData
      BY <2>2 DEF Loop!In!Clock
    <3> QED BY <3>1, <2>2, <1>2 DEF SkidEdge
  <2>3. CASE ~Loop!In!SlotFree(ready)
    <3>1. in_out' = in_out /\ in_skid' = IF Loop!In!Accept(word) THEN word ELSE in_skid
      BY <2>3 DEF Loop!In!Clock
    <3> QED BY <3>1, <2>3, <1>2 DEF SkidEdge
  <2> QED BY <2>1, <2>2, <2>3
<1>4. /\ SkidOK(in_out', in_skid')
      /\ Through(Cat(Beat(in_out), Beat(in_skid)), in, out0, Cat(Beat(in_out'), Beat(in_skid')))
  BY <1>3, SkidPasses DEF InOK
<1>5. InOK'
  <2>1. in_rdy' = (in_skid' = NoData)
    BY DEF Loop!In!Clock
  <2>2. in_rdy' \in BOOLEAN
    BY <2>1, Zenon
  <2>3. in_rdy' => in_skid' = NoData
    BY <2>1
  <2> QED BY <2>2, <2>3, <1>4 DEF InOK
<1>6. /\ Loop!In!held = Cat(Beat(in_out), Beat(in_skid))
      /\ Loop!In!held' = Cat(Beat(in_out'), Beat(in_skid'))
  BY DEF Loop!In!held, Loop!In!Beat, Beat, Cat
<1> QED BY <1>1, <1>4, <1>5, <1>6

\* An edge in reset empties it.
LEMMA InReset ==
  ASSUME Loop!In!ResetEdge
  PROVE  InOK' /\ Loop!In!held' = << >>
<1>1. in_out' = NoData /\ in_skid' = NoData /\ in_rdy' = FALSE
  BY DEF Loop!In!ResetEdge
<1>2. << >> \o << >> = << >>
  BY EmptySeq, ConcatEmptySeq
<1> QED BY <1>1, <1>2 DEF InOK, SkidOK, Words, Loop!In!held, Loop!In!Beat

\* An edge of the last skid of the loopback.
OutOK == SkidOK(out_out, out_skid) /\ out_rdy \in BOOLEAN /\ (out_rdy => out_skid = NoData)

\* An edge of the last skid of the loopback.
LEMMA OutClock ==
  ASSUME OutOK, NEW word \in Words, NEW ready \in BOOLEAN, Loop!Out!Clock(word, ready)
  PROVE  /\ OutOK' /\ If(out_rdy, word) \in Words /\ If(ready, out_out) \in Words
         /\ Through(Loop!Out!held, If(out_rdy, word), If(ready, out_out), Loop!Out!held')
<1>1. PICK in \in Words, out0 \in Words : in = If(out_rdy, word) /\ out0 = If(ready, out_out)
  BY DEF If, OutOK, SkidOK, Words
<1>2. /\ in # NoData <=> Loop!Out!Accept(word)
      /\ in # NoData => in = word
      /\ in # NoData => out_skid = NoData
      /\ Loop!Out!SlotFree(ready) <=> out_out = NoData \/ out0 = out_out
      /\ out0 = NoData \/ out0 = out_out
  BY <1>1 DEF If, Loop!Out!Accept, Loop!Out!SlotFree, OutOK
<1>3. SkidEdge(out_out, out_skid, in, out0, out_out', out_skid')
  <2>1. CASE Loop!Out!SlotFree(ready) /\ out_skid # NoData
    <3>1. out_out' = out_skid /\ out_skid' = IF Loop!Out!Accept(word) THEN word ELSE NoData
      BY <2>1 DEF Loop!Out!Clock
    <3> QED BY <3>1, <2>1, <1>2 DEF SkidEdge
  <2>2. CASE Loop!Out!SlotFree(ready) /\ out_skid = NoData
    <3>1. out_out' = (IF Loop!Out!Accept(word) THEN word ELSE NoData) /\ out_skid' = NoData
      BY <2>2 DEF Loop!Out!Clock
    <3> QED BY <3>1, <2>2, <1>2 DEF SkidEdge
  <2>3. CASE ~Loop!Out!SlotFree(ready)
    <3>1. out_out' = out_out /\ out_skid' = IF Loop!Out!Accept(word) THEN word ELSE out_skid
      BY <2>3 DEF Loop!Out!Clock
    <3> QED BY <3>1, <2>3, <1>2 DEF SkidEdge
  <2> QED BY <2>1, <2>2, <2>3
<1>4. /\ SkidOK(out_out', out_skid')
      /\ Through(Cat(Beat(out_out), Beat(out_skid)), in, out0, Cat(Beat(out_out'), Beat(out_skid')))
  BY <1>3, SkidPasses DEF OutOK
<1>5. OutOK'
  <2>1. out_rdy' = (out_skid' = NoData)
    BY DEF Loop!Out!Clock
  <2>2. out_rdy' \in BOOLEAN
    BY <2>1, Zenon
  <2>3. out_rdy' => out_skid' = NoData
    BY <2>1
  <2> QED BY <2>2, <2>3, <1>4 DEF OutOK
<1>6. /\ Loop!Out!held = Cat(Beat(out_out), Beat(out_skid))
      /\ Loop!Out!held' = Cat(Beat(out_out'), Beat(out_skid'))
  BY DEF Loop!Out!held, Loop!Out!Beat, Beat, Cat
<1> QED BY <1>1, <1>4, <1>5, <1>6

\* An edge in reset empties it.
LEMMA OutReset ==
  ASSUME Loop!Out!ResetEdge
  PROVE  OutOK' /\ Loop!Out!held' = << >>
<1>1. out_out' = NoData /\ out_skid' = NoData /\ out_rdy' = FALSE
  BY DEF Loop!Out!ResetEdge
<1>2. << >> \o << >> = << >>
  BY EmptySeq, ConcatEmptySeq
<1> QED BY <1>1, <1>2 DEF OutOK, SkidOK, Words, Loop!Out!held, Loop!Out!Beat

\* The loopback: the three in a row, the first handing to the next what it takes out.
LoopOK == InOK /\ MidOK /\ OutOK

\* An edge of the loopback.
LEMMA LoopClock ==
  ASSUME LoopOK, NEW word \in Words, NEW ready \in BOOLEAN, Loop!Clock(word, ready)
  PROVE  /\ LoopOK' /\ If(in_rdy, word) \in Words /\ If(ready, out_out) \in Words
         /\ Through(Loop!inside, If(in_rdy, word), If(ready, out_out), Loop!inside')
<1>1. mid_rdy \in BOOLEAN /\ out_rdy \in BOOLEAN /\ in_out \in Words
  BY DEF LoopOK, MidOK, OutOK, InOK, SkidOK
<1>2. /\ InOK' /\ If(in_rdy, word) \in Words
      /\ Through(Loop!In!held, If(in_rdy, word), If(mid_rdy, in_out), Loop!In!held')
  BY <1>1, InClock DEF LoopOK, Loop!Clock, Loop!Mid!s_ready
<1>3. /\ MidOK' /\ If(mid_rdy, in_out) \in Words /\ If(out_rdy, Loop!Mid!m_word) \in Words
      /\ Through(Loop!Mid!stored, If(mid_rdy, in_out), If(out_rdy, Loop!Mid!m_word), Loop!Mid!stored')
  <2>1. Loop!Mid!Clock(in_out, out_rdy)
    BY DEF Loop!Clock, Loop!In!m_word, Loop!Out!s_ready
  <2> QED BY <1>1, <2>1, MidClock DEF LoopOK
<1>4. Loop!Mid!m_word \in Words
  <2>1. RingOK(l_mem, l_wr_ptr, l_rd_ptr, l_count, ElasticDepth)
    BY DEF LoopOK, MidOK
  <2> QED BY <2>1, RingIsSeq DEF Loop!Mid!m_word, Loop!Mid!m_valid, Words
<1>5. /\ OutOK' /\ If(ready, out_out) \in Words
      /\ Through(Loop!Out!held, If(out_rdy, Loop!Mid!m_word), If(ready, out_out), Loop!Out!held')
  BY <1>1, <1>4, OutClock DEF LoopOK, Loop!Clock
<1>6. Through(Cat(Loop!Out!held, Loop!Mid!stored), If(mid_rdy, in_out), If(ready, out_out),
              Cat(Loop!Out!held', Loop!Mid!stored'))
  BY <1>3, <1>5, ThroughChain
<1>7. Through(Cat(Cat(Loop!Out!held, Loop!Mid!stored), Loop!In!held),
              If(in_rdy, word), If(ready, out_out),
              Cat(Cat(Loop!Out!held', Loop!Mid!stored'), Loop!In!held'))
  BY <1>2, <1>3, <1>5, <1>6, ThroughChain
<1>8. /\ Loop!inside = Cat(Cat(Loop!Out!held, Loop!Mid!stored), Loop!In!held)
      /\ Loop!inside' = Cat(Cat(Loop!Out!held', Loop!Mid!stored'), Loop!In!held')
  BY DEF Loop!inside, Cat
<1> QED BY <1>2, <1>3, <1>5, <1>7, <1>8 DEF LoopOK

\* An edge in reset empties all three.
LEMMA LoopReset ==
  ASSUME LoopOK, Loop!ResetEdge
  PROVE  LoopOK' /\ Loop!inside' = << >>
<1>1. in_out \in Words
  BY DEF LoopOK, InOK, SkidOK
<1>2. InOK' /\ Loop!In!held' = << >> /\ OutOK' /\ Loop!Out!held' = << >>
  BY InReset, OutReset DEF Loop!ResetEdge
<1>3. MidOK' /\ Loop!Mid!stored' = << >>
  BY <1>1, MidReset DEF LoopOK, Loop!ResetEdge, Loop!In!m_word
<1>4. << >> \o << >> \o << >> = << >>
  BY EmptySeq, ConcatEmptySeq
<1> QED BY <1>2, <1>3, <1>4 DEF LoopOK, Loop!inside

\* What the loopback holds, and that it lets nothing in beyond its capacity.
LEMMA LoopHolds ==
  ASSUME LoopOK
  PROVE  /\ Loop!inside \in Seq(Data)
         /\ in_rdy => Len(Loop!inside) < ElasticDepth + 4
<1>1. RingOK(l_mem, l_wr_ptr, l_rd_ptr, l_count, ElasticDepth)
  BY DEF LoopOK, MidOK
<1>2. /\ Loop!Mid!stored \in Seq(Data) /\ Len(Loop!Mid!stored) = l_count
      /\ l_count \in 0 .. ElasticDepth /\ ElasticDepth \in Nat
  <2>1. Loop!Mid!stored = Ring(l_mem, l_rd_ptr, l_count, ElasticDepth)
    BY DEF Loop!Mid!stored, Loop!Mid!Plus, Ring, At
  <2> QED BY <1>1, <2>1, RingIsSeq DEF RingOK
<1>3. /\ Beat(in_out) \in Seq(Data) /\ Beat(in_skid) \in Seq(Data)
      /\ Beat(out_out) \in Seq(Data) /\ Beat(out_skid) \in Seq(Data)
      /\ Len(Beat(in_out)) <= 1 /\ Len(Beat(out_out)) <= 1 /\ Len(Beat(out_skid)) <= 1
      /\ in_rdy => Len(Beat(in_skid)) = 0
  <2>1. \A w \in Words : Beat(w) \in Seq(Data) /\ Len(Beat(w)) <= 1 /\ (w = NoData => Len(Beat(w)) = 0)
    <3> SUFFICES ASSUME NEW w \in Words
                 PROVE  Beat(w) \in Seq(Data) /\ Len(Beat(w)) <= 1 /\ (w = NoData => Len(Beat(w)) = 0)
      OBVIOUS
    <3>1. Beat(w) \in Seq(Data) /\ Len(Beat(w)) = IF w = NoData THEN 0 ELSE 1
      BY BeatIsSeq
    <3> QED BY <3>1
  <2>2. /\ in_out \in Words /\ in_skid \in Words /\ out_out \in Words /\ out_skid \in Words
        /\ in_rdy => in_skid = NoData
    BY DEF LoopOK, InOK, OutOK, SkidOK
  <2> QED BY <2>1, <2>2
<1>4. PICK a, b, c, d, e \in Seq(Data) :
        /\ a = Beat(out_out) /\ b = Beat(out_skid) /\ c = Loop!Mid!stored
        /\ d = Beat(in_out) /\ e = Beat(in_skid)
  BY <1>2, <1>3
<1>5. Loop!inside = Cat(Cat(Cat(a, b), c), Cat(d, e))
  BY <1>4 DEF Loop!inside, Loop!In!held, Loop!Out!held, Loop!In!Beat, Loop!Out!Beat, Beat, Cat
<1>6. PICK f, g \in Seq(Data) : /\ f = Cat(a, b) /\ Len(f) = Len(a) + Len(b)
                                /\ g = Cat(d, e) /\ Len(g) = Len(d) + Len(e)
  BY CatAt
<1>7. PICK h \in Seq(Data) : h = Cat(f, c) /\ Len(h) = Len(f) + Len(c)
  BY CatAt
<1>8. /\ Cat(h, g) \in Seq(Data) /\ Len(Cat(h, g)) = Len(h) + Len(g)
  BY CatAt
<1>9. Len(a) \in Nat /\ Len(b) \in Nat /\ Len(c) \in Nat /\ Len(d) \in Nat /\ Len(e) \in Nat
  BY LenProperties
<1>10. Loop!inside = Cat(h, g)
  BY <1>5, <1>6, <1>7
<1>11. Len(Loop!inside) = Len(a) + Len(b) + Len(c) + Len(d) + Len(e)
  BY <1>6, <1>7, <1>8, <1>9, <1>10
<1>12. in_rdy => Len(Loop!inside) < ElasticDepth + 4
  BY <1>2, <1>3, <1>4, <1>9, <1>11
<1> QED BY <1>8, <1>10, <1>12

\* The deep FIFO: the core is a ring, whose front word goes to the output register
\* when there is one, and that is free or being read.
FifoOK == /\ RingOK(f_mem, f_wr_ptr, f_rd_ptr, f_count, Depth)
          /\ out \in Words /\ (ShowAhead => out = NoData)
          /\ high \in 0 .. Depth /\ ovf \in BOOLEAN /\ unf \in BOOLEAN

\* What the core's front is worth.
LEMMA FifoFront ==
  ASSUME FifoOK
  PROVE  /\ Fifo!core_word \in Words /\ Fifo!m_word \in Words
         /\ Fifo!core_word # NoData <=> ~Fifo!empty
         /\ Fifo!core_word # NoData => f_count # 0 /\ Fifo!core_word = f_mem[f_rd_ptr]
         /\ f_count \in 0 .. Depth /\ Depth \in Nat
<1>1. RingOK(f_mem, f_wr_ptr, f_rd_ptr, f_count, Depth) /\ out \in Words
  BY DEF FifoOK
<1>2. f_count # 0 => f_mem[f_rd_ptr] \in Data
  BY <1>1, RingIsSeq
<1>3. /\ Fifo!core_word \in Words /\ (Fifo!core_word # NoData <=> ~Fifo!empty)
      /\ Fifo!core_word # NoData => f_count # 0 /\ Fifo!core_word = f_mem[f_rd_ptr]
  BY <1>2, DataAssumption DEF Fifo!core_word, Fifo!empty, Words
<1>4. Fifo!m_word \in Words
  BY <1>1, <1>3 DEF Fifo!m_word
<1> QED BY <1>1, <1>3, <1>4 DEF RingOK

\* An edge of the FIFO passes its words through, and the mark takes in the level it finds.
LEMMA FifoClock ==
  ASSUME FifoOK, NEW word \in Words, NEW ready \in BOOLEAN, NEW clr \in BOOLEAN,
         Fifo!Clock(word, ready, clr)
  PROVE  /\ FifoOK' /\ If(Fifo!s_ready, word) \in Words /\ If(ready, Fifo!m_word) \in Words
         /\ Through(Fifo!held, If(Fifo!s_ready, word), If(ready, Fifo!m_word), Fifo!held')
         /\ high' >= f_count
<1>1. /\ RingOK(f_mem, f_wr_ptr, f_rd_ptr, f_count, Depth)
      /\ out \in Words /\ (ShowAhead => out = NoData)
      /\ high \in 0 .. Depth /\ ovf \in BOOLEAN /\ unf \in BOOLEAN /\ ShowAhead \in BOOLEAN
      /\ f_count \in 0 .. Depth /\ Depth \in Nat
  BY FifoFront, BenchAssumption DEF FifoOK
<1>2. PICK in \in Words, given \in Words :
        in = If(Fifo!s_ready, word) /\ given = If(ready, Fifo!m_word)
  BY FifoFront DEF If, Words
<1>3. Fifo!Accepted(word) = in /\ (in # NoData => f_count < Depth)
  BY <1>1, <1>2 DEF Fifo!Accepted, If, Fifo!s_ready, Fifo!full
<1>4. PICK mid \in Words : mid = If(Fifo!core_ready(ready), Fifo!core_word)
  BY FifoFront DEF If, Words
<1>5. /\ Fifo!rd_en(ready) <=> mid # NoData
      /\ mid = NoData \/ (f_count # 0 /\ mid = f_mem[f_rd_ptr])
  BY <1>4, FifoFront DEF If, Fifo!rd_en
<1>6. /\ Fifo!Move(in, Fifo!rd_en(ready)) /\ high' = Fifo!mark(clr)
      /\ out' = IF ~ShowAhead /\ Fifo!core_ready(ready) THEN Fifo!core_word ELSE out
      /\ ovf' = (~clr /\ (ovf \/ (Fifo!Accepted(word) # NoData /\ Fifo!full)))
      /\ unf' = (~clr /\ (unf \/ (Fifo!rd_en(ready) /\ Fifo!empty)))
  BY <1>3 DEF Fifo!Clock
<1>7. RingEdge(f_mem, f_wr_ptr, f_rd_ptr, f_count, Depth, in, mid,
               f_mem', f_wr_ptr', f_rd_ptr', f_count')
  <2>1. Fifo!Move(in, mid # NoData)
    BY <1>5, <1>6 DEF Fifo!Move
  <2> QED BY <2>1, <1>3, <1>5 DEF RingEdge, Fifo!Move, Fifo!Store, Fifo!Bump
<1>8. /\ RingOK(f_mem', f_wr_ptr', f_rd_ptr', f_count', Depth)
      /\ Through(Ring(f_mem, f_rd_ptr, f_count, Depth), in, mid, Ring(f_mem', f_rd_ptr', f_count', Depth))
  BY <1>1, <1>7, RingPasses
<1>9. high' \in 0 .. Depth /\ high' >= f_count
  BY <1>1, <1>6 DEF Fifo!mark
<1>10. ovf' \in BOOLEAN /\ unf' \in BOOLEAN
  BY <1>6, Zenon
<1>11. out' \in Words /\ (ShowAhead => out' = NoData)
  BY <1>1, <1>6, FifoFront
<1>12. FifoOK'
  BY <1>8, <1>9, <1>10, <1>11 DEF FifoOK
<1>13. /\ Fifo!held = Cat(Beat(out), Ring(f_mem, f_rd_ptr, f_count, Depth))
       /\ Fifo!held' = Cat(Beat(out'), Ring(f_mem', f_rd_ptr', f_count', Depth))
  <2>1. /\ Fifo!stored = Ring(f_mem, f_rd_ptr, f_count, Depth)
        /\ Fifo!stored' = Ring(f_mem', f_rd_ptr', f_count', Depth)
    BY DEF Fifo!stored, Fifo!Plus, Ring, At
  <2>2. Fifo!stored \in Seq(Data) /\ Fifo!stored' \in Seq(Data)
    BY <2>1, <1>1, <1>8, RingIsSeq
  <2>3. << >> \o Fifo!stored = Fifo!stored /\ << >> \o Fifo!stored' = Fifo!stored'
    BY <2>2, ConcatEmptySeq
  <2> QED BY <2>1, <2>3 DEF Fifo!held, Cat, Beat
<1>14. CASE ShowAhead
  <2>1. mid = given /\ out = NoData /\ out' = NoData
    BY <1>1, <1>2, <1>4, <1>11, <1>14 DEF If, Fifo!m_word, Fifo!core_ready
  <2>2. /\ Ring(f_mem, f_rd_ptr, f_count, Depth) \in Seq(Data)
        /\ Ring(f_mem', f_rd_ptr', f_count', Depth) \in Seq(Data)
    BY <1>1, <1>8, RingIsSeq
  <2>3. /\ Fifo!held = Ring(f_mem, f_rd_ptr, f_count, Depth)
        /\ Fifo!held' = Ring(f_mem', f_rd_ptr', f_count', Depth)
    BY <2>1, <2>2, <1>13, ConcatEmptySeq DEF Cat, Beat
  <2> QED BY <2>1, <2>3, <1>2, <1>8, <1>9, <1>12
<1>15. CASE ~ShowAhead
  <2>1. Through(Beat(out), mid, given, Beat(out'))
    <3>1. CASE Fifo!core_ready(ready)
      <4>1. mid = out' /\ Beat(given) = Beat(out)
        BY <3>1, <1>2, <1>4, <1>6, <1>15 DEF If, Fifo!m_word, Fifo!core_ready, Beat
      <4>2. Beat(out) \in Seq(Data) /\ Beat(out') \in Seq(Data)
        BY <1>1, <1>11, BeatIsSeq
      <4>3. Beat(out) = Cat(Beat(given), << >>) /\ Beat(out') = Cat(<< >>, Beat(mid))
        BY <4>1, <4>2, ConcatEmptySeq DEF Cat
      <4> QED BY <4>3, EmptySeq DEF Through
    <3>2. CASE ~Fifo!core_ready(ready)
      <4>1. mid = NoData /\ given = NoData /\ out' = out
        BY <3>2, <1>2, <1>4, <1>6, <1>15 DEF If, Fifo!m_word, Fifo!core_ready
      <4>2. Beat(out) \in Seq(Data)
        BY <1>1, BeatIsSeq
      <4>3. Beat(out) = Cat(Beat(given), Beat(out)) /\ Beat(out') = Cat(Beat(out), Beat(mid))
        BY <4>1, <4>2, ConcatEmptySeq DEF Cat, Beat
      <4> QED BY <4>2, <4>3 DEF Through
    <3> QED BY <3>1, <3>2
  <2>2. Through(Cat(Beat(out), Ring(f_mem, f_rd_ptr, f_count, Depth)), in, given,
                Cat(Beat(out'), Ring(f_mem', f_rd_ptr', f_count', Depth)))
    BY <2>1, <1>8, ThroughChain
  <2> QED BY <2>2, <1>2, <1>9, <1>12, <1>13
<1> QED BY <1>1, <1>14, <1>15

\* An edge in reset empties it.
LEMMA FifoReset ==
  ASSUME FifoOK, NEW word \in Words, Fifo!ResetEdge(word)
  PROVE  FifoOK' /\ Fifo!held' = << >> /\ f_count' = 0
<1>1. RingOK(f_mem, f_wr_ptr, f_rd_ptr, f_count, Depth)
  BY DEF FifoOK
<1>2. f_wr_ptr \in 0 .. Depth - 1 /\ f_mem \in [0 .. Depth - 1 -> Words] /\ Depth \in Nat
  BY <1>1, RingIsSeq DEF RingOK
<1>3. Fifo!Accepted(word) \in Words
  BY DEF Fifo!Accepted, Words
<1>4. f_mem' \in [0 .. Depth - 1 -> Words]
  BY <1>2, <1>3 DEF Fifo!ResetEdge, Fifo!ClearStore, Fifo!Store
<1>5. /\ f_wr_ptr' = 0 /\ f_rd_ptr' = 0 /\ f_count' = 0
      /\ out' = NoData /\ high' = 0 /\ ovf' = FALSE /\ unf' = FALSE
  BY DEF Fifo!ResetEdge, Fifo!ClearStore
<1>6. RingOK(f_mem', f_wr_ptr', f_rd_ptr', f_count', Depth)
  BY <1>4, <1>5, BenchAssumption DEF RingOK, At
<1>7. Fifo!held' = << >>
  BY <1>5 DEF Fifo!held, Fifo!stored
<1> QED BY <1>2, <1>5, <1>6, <1>7 DEF FifoOK, Words

\* What the FIFO holds, and that it takes no more than it has places.
LEMMA FifoHolds ==
  ASSUME FifoOK
  PROVE  /\ Fifo!held \in Seq(Data)
         /\ Fifo!s_ready => Len(Fifo!held) < (IF ShowAhead THEN Depth ELSE Depth + 1)
<1>1. /\ RingOK(f_mem, f_wr_ptr, f_rd_ptr, f_count, Depth)
      /\ out \in Words /\ (ShowAhead => out = NoData) /\ f_count \in 0 .. Depth /\ Depth \in Nat
  BY FifoFront DEF FifoOK
<1>2. PICK s \in Seq(Data) : s = Fifo!stored /\ Len(s) = f_count
  <2>1. Fifo!stored = Ring(f_mem, f_rd_ptr, f_count, Depth)
    BY DEF Fifo!stored, Fifo!Plus, Ring, At
  <2> QED BY <2>1, <1>1, RingIsSeq
<1>3. PICK b \in Seq(Data) : b = Beat(out) /\ Len(b) = IF out = NoData THEN 0 ELSE 1
  BY <1>1, BeatIsSeq
<1>4. Cat(b, s) \in Seq(Data) /\ Len(Cat(b, s)) = Len(b) + Len(s)
  BY CatAt
<1>5. Fifo!held = Cat(b, s)
  <2>1. << >> \o s = s
    BY ConcatEmptySeq
  <2> QED BY <2>1, <1>2, <1>3 DEF Fifo!held, Cat, Beat
<1>6. Fifo!s_ready => f_count < Depth
  BY <1>1 DEF Fifo!s_ready, Fifo!full
<1> QED BY <1>1, <1>2, <1>3, <1>4, <1>5, <1>6

-----------------------------------------------------------------------------
(* The pipe: the line in front of its buffer.                              *)

\* Every credit is somewhere, and a beat at the end of the line finds room.
PipeOK == /\ BufOK /\ line \in [Position -> Words] /\ rdy \in BOOLEAN
          /\ credits \in Nat /\ (rdy => credits # 0)
          /\ credits + Len(beats[Stages]) + count = OutDepth
          /\ RoomWhenPresented

\* The recursive definition of the beats is the function of the delay line, in every state.
LEMMA BeatsOfLine == LineBeats(beats, line, Stages) /\ LineBeats(beats', line', Stages)
<1>1. (\E F : LineBeats(F, line, Stages)) /\ (\E F : LineBeats(F, line', Stages))
  BY LineBeatsExist, StagesAssumption
<1>2. LineBeats(beats, line, Stages)
  BY <1>1 DEF LineBeats, beats, Cat
<1>3. LineBeats(beats', line', Stages)
  BY <1>1 DEF LineBeats, beats, Cat
<1> QED BY <1>2, <1>3

\* What a line holds: a sequence, of as many beats as it has busy stages.
LEMMA LineHolds ==
  ASSUME NEW F, NEW L \in [Position -> Words], LineBeats(F, L, Stages)
  PROVE  /\ F[Stages] \in Seq(Data) /\ Len(F[Stages]) \in 0 .. Stages
         /\ Len(F[Stages]) = Cardinality({i \in Position : L[i] # NoData})
         /\ Stages = 0 => F[Stages] = << >>
         /\ Stages # 0 /\ L[Stages] # NoData => Len(F[Stages]) # 0
<1> DEFINE Busy == {i \in Position : L[i] # NoData}
<1>1. Position = 1 .. Stages /\ Stages \in Nat /\ L \in [1 .. Stages -> Words]
  BY StagesAssumption DEF Position
<1>2. F[Stages] \in Seq(Data) /\ IsFiniteSet(Busy) /\ Len(F[Stages]) = Cardinality(Busy)
  <2>1. \A n \in 0 .. Stages :
           /\ F[n] \in Seq(Data)
           /\ IsFiniteSet({i \in 1 .. n : L[i] # NoData})
           /\ Len(F[n]) = Cardinality({i \in 1 .. n : L[i] # NoData})
    BY <1>1, LineBeatsCount
  <2> QED BY <2>1, <1>1
<1>3. Cardinality(Busy) \in 0 .. Stages
  <2>1. IsFiniteSet(1 .. Stages) /\ Cardinality(1 .. Stages) = Stages
    BY <1>1, FS_Interval
  <2>2. Busy \subseteq 1 .. Stages
    BY <1>1
  <2>3. Cardinality(Busy) <= Cardinality(1 .. Stages) /\ Cardinality(Busy) \in Nat
    BY <2>1, <2>2, <1>2, FS_Subset, FS_CardinalityType
  <2> QED BY <2>1, <2>3
<1>4. Stages = 0 => F[Stages] = << >>
  BY <1>1, LineBeatsAt
<1>5. ASSUME Stages # 0, L[Stages] # NoData PROVE Len(F[Stages]) # 0
  <2>1. Stages \in Busy
    BY <1>1, <1>5
  <2>2. Cardinality(Busy) # 0
    BY <2>1, <1>2, FS_EmptySet
  <2> QED BY <2>2, <1>2
<1> QED BY <1>1, <1>2, <1>3, <1>4, <1>5

\* An edge lets in a beat that has a credit, and none finds the buffer closed.
LEMMA PipeClock ==
  ASSUME PipeOK, NEW word \in Words, NEW ready \in BOOLEAN, Clock(word, ready)
  PROVE  /\ PipeOK' /\ If(rdy, word) \in Words /\ If(ready, Buf!m_word) \in Words
         /\ Through(inside, If(rdy, word), If(ready, Buf!m_word), inside')
         /\ (ready /\ count <= 1 => count' <= 1 /\ rdy')
<1>1. /\ BufOK /\ line \in [Position -> Words] /\ rdy \in BOOLEAN /\ credits \in Nat
      /\ (rdy => credits # 0) /\ credits + Len(beats[Stages]) + count = OutDepth
      /\ RoomWhenPresented /\ RingOK(mem, wr_ptr, rd_ptr, count, OutDepth)
      /\ Stages \in Nat /\ OutDepth \in Nat /\ OutDepth >= Stages + 2 /\ count \in Nat
  BY StagesAssumption, OutDepthAssumption DEF PipeOK, BufOK, RingOK
<1>2. PICK in \in Words : in = If(rdy, word) /\ in = Admitted(word)
  BY DEF If, Admitted, Words
<1>3. PICK last \in Words : last = LineWord(word) /\ last = If(buf_rdy, last)
  <2>1. LineWord(word) \in Words
    BY <1>1, <1>2 DEF LineWord, Position
  <2>2. LineWord(word) # NoData => buf_rdy
    BY DEF LineWord, RoomWhenPresented, Admitted, PipeOK
  <2> QED BY <2>1, <2>2 DEF If
<1>4. /\ BufOK' /\ If(ready, Buf!m_word) \in Words
      /\ Through(Buf!stored, last, If(ready, Buf!m_word), Buf!stored')
  BY <1>1, <1>3, BufClock DEF Clock
<1>5. PICK given \in Words : given = If(ready, Buf!m_word) /\ (given # NoData <=> Release(ready))
  BY <1>4 DEF If, Release
<1>6. line' \in [Position -> Words] /\ Shifted(line, Stages, in, line')
  <2>1. line' = [i \in 1 .. Stages |-> IF i = 1 THEN in ELSE line[i - 1]]
    BY <1>2 DEF Clock, Position
  <2> QED BY <2>1, <1>1 DEF Shifted, Position
<1>7. PICK b, c \in Seq(Data) :
        /\ b = beats[Stages] /\ c = beats'[Stages] /\ Len(b) \in 0 .. Stages /\ Len(c) \in 0 .. Stages
        /\ Stages = 0 => b = << >> /\ c = << >>
        /\ Stages # 0 /\ line'[Stages] # NoData => Len(c) # 0
  <2>1. /\ beats[Stages] \in Seq(Data) /\ Len(beats[Stages]) \in 0 .. Stages
        /\ Stages = 0 => beats[Stages] = << >>
    BY <1>1, BeatsOfLine, LineHolds
  <2>2. /\ beats'[Stages] \in Seq(Data) /\ Len(beats'[Stages]) \in 0 .. Stages
        /\ Stages = 0 => beats'[Stages] = << >>
        /\ Stages # 0 /\ line'[Stages] # NoData => Len(beats'[Stages]) # 0
    BY <1>6, BeatsOfLine, LineHolds
  <2> QED BY <2>1, <2>2
<1>8. /\ Through(inside, in, given, inside')
      /\ Len(c) + count' = Len(b) + count + Len(Beat(in)) - Len(Beat(given))
      /\ count' = count + Len(Beat(last)) - Len(Beat(given))
  <2>1. Buf!stored \in Seq(Data) /\ Buf!stored' \in Seq(Data)
        /\ Len(Buf!stored) = count /\ Len(Buf!stored') = count' /\ count' \in Nat
    <3>1. /\ Buf!stored = Ring(mem, rd_ptr, count, OutDepth)
          /\ Buf!stored' = Ring(mem', rd_ptr', count', OutDepth)
      BY DEF Buf!stored, Buf!Plus, Ring, At
    <3>2. RingOK(mem', wr_ptr', rd_ptr', count', OutDepth)
      BY <1>4 DEF BufOK
    <3>3. count' \in Nat
      BY <3>2 DEF RingOK
    <3> QED BY <3>1, <3>2, <3>3, <1>1, RingIsSeq
  <2>2. inside = Cat(Buf!stored, b) /\ inside' = Cat(Buf!stored', c)
    BY <1>7 DEF inside, Cat
  <2>3. /\ Through(Buf!stored, last, given, Buf!stored')
        /\ count' = count + Len(Beat(last)) - Len(Beat(given))
    BY <1>4, <1>5, <2>1, ThroughTypes
  <2>4. CASE Stages = 0
    <3>1. last = in
      BY <2>4, <1>2, <1>3 DEF LineWord
    <3>2. Cat(Buf!stored, b) = Buf!stored /\ Cat(Buf!stored', c) = Buf!stored'
      BY <2>1, <2>4, <1>7, ConcatEmptySeq DEF Cat
    <3>3. Len(b) = 0 /\ Len(c) = 0
      BY <2>4, <1>7
    <3> QED BY <3>1, <3>2, <3>3, <2>1, <2>2, <2>3, <1>1, BeatIsSeq
  <2>5. CASE Stages # 0
    <3>1. last = line[Stages] /\ Stages \in Nat \ {0}
      BY <2>5, <1>1, <1>3 DEF LineWord
    <3>2. line \in [1 .. Stages -> Words]
      BY <1>1 DEF Position
    <3>3. Through(b, in, last, c)
      BY <3>1, <3>2, <1>6, <1>7, BeatsOfLine, LinePasses
    <3>4. Len(c) = Len(b) + Len(Beat(in)) - Len(Beat(last))
      BY <3>3, ThroughTypes
    <3>5. Through(Cat(Buf!stored, b), in, given, Cat(Buf!stored', c))
      BY <3>3, <2>3, ThroughChain
    <3>6. /\ Len(Beat(in)) \in Nat /\ Len(Beat(last)) \in Nat /\ Len(Beat(given)) \in Nat
          /\ Len(b) \in Nat /\ Len(c) \in Nat
      BY BeatIsSeq, LenProperties
    <3> QED BY <3>4, <3>5, <3>6, <2>1, <2>2, <2>3, <1>1
  <2> QED BY <2>4, <2>5
<1>9. PICK i, o \in 0 .. 1 : /\ i = Len(Beat(in)) /\ (i = 1 <=> in # NoData)
                            /\ o = Len(Beat(given)) /\ (o = 1 <=> given # NoData)
  BY BeatIsSeq
<1>10. PICK k, n, m \in Nat : /\ k = credits' /\ k = credits - i + o /\ n = count'
                            /\ m = Len(c) /\ m <= Stages /\ k + m + n = OutDepth
  <2>1. in # NoData => credits # 0
    BY <1>1, <1>2 DEF If
  <2>2. credits' = credits - i + o
    <3>1. credits' = credits_d(word, ready)
      BY DEF Clock
    <3>2. (Admitted(word) # NoData <=> i = 1) /\ (Release(ready) <=> o = 1)
      BY <1>2, <1>5, <1>9
    <3>3. credits' = IF i = 1 /\ o # 1 THEN credits - 1
                     ELSE IF o = 1 /\ i # 1 THEN credits + 1 ELSE credits
      BY <3>1, <3>2 DEF credits_d
    <3> QED BY <3>3, <1>1
  <2>3. count' \in Nat
    BY <1>4 DEF BufOK, RingOK
  <2>4. PICK x, y \in Nat : /\ x = Len(b) /\ y = Len(c) /\ y <= Stages
                           /\ x = Len(beats[Stages])
    BY <1>1, <1>7
  <2>5. PICK z \in Nat : z = count'
    BY <2>3
  <2>6. y + z = x + count + i - o
    BY <2>4, <2>5, <1>8, <1>9
  <2>7. credits + x + count = OutDepth
    BY <2>4, <1>1
  <2>8. credits - i + o \in Nat
    <3>1. credits \in Nat /\ (i = 1 => credits # 0)
      BY <2>1, <1>1, <1>9
    <3> QED BY <3>1
  <2>9. credits - i + o + y + z = OutDepth
    <3>1. credits \in Nat /\ count \in Nat
      BY <1>1
    <3> QED BY <3>1, <2>6, <2>7
  <2> QED BY <2>2, <2>4, <2>5, <2>8, <2>9
<1>11. rdy' \in BOOLEAN /\ (rdy' <=> credits' # 0)
  <2>1. rdy' = (credits' # 0)
    BY DEF Clock
  <2> QED BY <2>1, <1>10, Zenon
<1>12. n < OutDepth => buf_rdy'
  BY <1>10 DEF Clock, Buf!Clock
<1>13. RoomWhenPresented'
  <2>1. CASE Stages = 0
    <3>1. rdy' => buf_rdy'
      <4>1. k # 0 => n < OutDepth
        BY <1>1, <1>10
      <4> QED BY <4>1, <1>10, <1>11, <1>12
    <3> QED BY <3>1, <2>1 DEF RoomWhenPresented
  <2>2. CASE Stages # 0
    <3>1. line'[Stages] # NoData => buf_rdy'
      <4>1. m # 0 => n < OutDepth
        BY <1>1, <1>10
      <4> QED BY <4>1, <2>2, <1>7, <1>10, <1>12
    <3> QED BY <3>1, <2>2 DEF RoomWhenPresented
  <2> QED BY <2>1, <2>2
<1>14. PipeOK'
  <2>1. credits' + Len(beats'[Stages]) + count' = OutDepth
    BY <1>7, <1>10
  <2> QED BY <2>1, <1>4, <1>6, <1>10, <1>11, <1>13 DEF PipeOK
<1>15. ASSUME ready, count <= 1 PROVE count' <= 1 /\ rdy'
  <2>1. count # 0 => o = 1
    <3>1. count # 0 => Buf!m_word \in Data
      BY <1>1, RingIsSeq DEF Buf!m_word, Buf!m_valid
    <3> QED BY <3>1, <1>5, <1>9, <1>15, DataAssumption DEF Release
  <2>2. PICK e \in 0 .. 1 : e = Len(Beat(last))
    BY BeatIsSeq
  <2>3. n = count + e - o
    BY <2>2, <1>8, <1>9, <1>10
  <2>4. n <= 1
    BY <2>1, <2>3, <1>1, <1>9, <1>15
  <2>5. k # 0
    BY <2>4, <1>1, <1>10
  <2> QED BY <2>4, <2>5, <1>10, <1>11
<1> QED BY <1>2, <1>4, <1>5, <1>8, <1>14, <1>15

\* A reset edge empties the pipe and gives back every credit.
LEMMA PipeReset ==
  ASSUME PipeOK, NEW word \in Words, ResetEdge(word)
  PROVE  PipeOK' /\ inside' = << >>
<1>1. /\ BufOK /\ line \in [Position -> Words] /\ RoomWhenPresented /\ rdy \in BOOLEAN
      /\ Stages \in Nat /\ OutDepth \in Nat /\ OutDepth >= Stages + 2
  BY StagesAssumption, OutDepthAssumption DEF PipeOK
<1>2. LineWord(word) \in Words
  BY <1>1 DEF LineWord, Admitted, Position, Words
<1>3. BufOK' /\ Buf!stored' = << >> /\ count' = 0
  BY <1>1, <1>2, BufReset DEF ResetEdge, Buf!ResetEdge, Buf!ClearStore
<1>4. /\ credits' = OutDepth /\ rdy' = FALSE /\ line' \in [Position -> Words]
      /\ \A i \in Position : line'[i] = NoData
  BY DEF ResetEdge, Words
<1>5. beats'[Stages] = << >>
  <2>1. line' \in [1 .. Stages -> Words] /\ \A i \in 1 .. Stages : line'[i] = NoData
    BY <1>4 DEF Position
  <2> QED BY <2>1, <1>1, BeatsOfLine, LineEmpty
<1>6. inside' = << >>
  <2>1. << >> \o << >> = << >>
    BY EmptySeq, ConcatEmptySeq
  <2> QED BY <2>1, <1>3, <1>5 DEF inside
<1>7. credits' + Len(beats'[Stages]) + count' = OutDepth
  BY <1>1, <1>3, <1>4, <1>5, EmptySeq
<1>8. RoomWhenPresented'
  <2>1. Stages # 0 => line'[Stages] = NoData
    BY <1>1, <1>4 DEF Position
  <2> QED BY <2>1, <1>4 DEF RoomWhenPresented
<1> QED BY <1>1, <1>3, <1>4, <1>6, <1>7, <1>8 DEF PipeOK

\* What the pipe holds, and that a credit is a place for one beat more.
LEMMA PipeHolds ==
  ASSUME PipeOK
  PROVE  inside \in Seq(Data) /\ (rdy => Len(inside) < OutDepth)
<1>1. /\ RingOK(mem, wr_ptr, rd_ptr, count, OutDepth) /\ line \in [Position -> Words]
      /\ credits \in Nat /\ (rdy => credits # 0) /\ OutDepth \in Nat
      /\ credits + Len(beats[Stages]) + count = OutDepth
  BY OutDepthAssumption DEF PipeOK, BufOK
<1>2. PICK s \in Seq(Data) : s = Buf!stored /\ Len(s) = count /\ count \in Nat
  <2>1. Buf!stored = Ring(mem, rd_ptr, count, OutDepth)
    BY DEF Buf!stored, Buf!Plus, Ring, At
  <2> QED BY <2>1, <1>1, RingIsSeq DEF RingOK
<1>3. PICK b \in Seq(Data) : b = beats[Stages]
  BY <1>1, BeatsOfLine, LineHolds
<1>4. Cat(s, b) \in Seq(Data) /\ Len(Cat(s, b)) = Len(s) + Len(b) /\ Len(b) \in Nat
  BY CatAt
<1>5. inside = Cat(s, b)
  BY <1>2, <1>3 DEF inside, Cat
<1>6. rdy => Len(s) + Len(b) < OutDepth
  <2>1. credits + Len(b) + Len(s) = OutDepth
    BY <1>1, <1>2, <1>3
  <2> QED BY <2>1, <1>1, <1>2, <1>4
<1> QED BY <1>4, <1>5, <1>6

\* The invariant of the pipe gives its type and what its credits promise.
LEMMA PipeGives ==
  ASSUME PipeOK
  PROVE  TypeOK /\ CreditConservation /\ RoomWhenPresented
<1>1. /\ RingOK(mem, wr_ptr, rd_ptr, count, OutDepth) /\ buf_rdy \in BOOLEAN
      /\ line \in [Position -> Words] /\ rdy \in BOOLEAN /\ OutDepth \in Nat
      /\ credits \in Nat /\ credits + Len(beats[Stages]) + count = OutDepth
      /\ RoomWhenPresented
  BY OutDepthAssumption DEF PipeOK, BufOK
<1>2. /\ Len(beats[Stages]) = Cardinality(in_line)
      /\ Len(beats[Stages]) \in Nat
  BY <1>1, BeatsOfLine, LineHolds DEF in_line
<1>3. Buf!TypeOK
  BY <1>1, RingIsSeq DEF RingOK, Buf!TypeOK, Buf!StoreOK, Buf!Slot, Buf!Words, Words
<1>4. credits \in 0 .. OutDepth
  <2>1. count \in Nat
    BY <1>1 DEF RingOK
  <2> QED BY <2>1, <1>1, <1>2
<1> QED BY <1>1, <1>2, <1>3, <1>4 DEF TypeOK, CreditConservation

\* What the registered-ready buffer holds, and that it takes no more than it has places.
LEMMA ElasticHolds ==
  ASSUME ElasticOK
  PROVE  Elastic!stored \in Seq(Data) /\ (e_rdy => Len(Elastic!stored) < Depth)
<1>1. RingOK(e_mem, e_wr_ptr, e_rd_ptr, e_count, Depth) /\ (e_rdy => e_count < Depth)
  BY DEF ElasticOK
<1>2. Elastic!stored = Ring(e_mem, e_rd_ptr, e_count, Depth)
  BY DEF Elastic!stored, Elastic!Plus, Ring, At
<1> QED BY <1>1, <1>2, RingIsSeq

\* The invariants of the other stream devices give their types.
LEMMA StreamsGive ==
  ASSUME ElasticOK, FifoOK, LoopOK
  PROVE  Elastic!TypeOK /\ Fifo!TypeOK /\ Loop!TypeOK
<1>1. Elastic!TypeOK
  <2>1. RingOK(e_mem, e_wr_ptr, e_rd_ptr, e_count, Depth) /\ e_rdy \in BOOLEAN
    BY DEF ElasticOK
  <2> QED BY <2>1, RingIsSeq
          DEF RingOK, Elastic!TypeOK, Elastic!StoreOK, Elastic!Slot, Elastic!Words, Words
<1>2. Fifo!TypeOK
  <2>1. /\ RingOK(f_mem, f_wr_ptr, f_rd_ptr, f_count, Depth) /\ out \in Words
        /\ high \in 0 .. Depth /\ ovf \in BOOLEAN /\ unf \in BOOLEAN
    BY DEF FifoOK
  <2> QED BY <2>1, RingIsSeq
          DEF RingOK, Fifo!TypeOK, Fifo!StoreOK, Fifo!Slot, Fifo!Words, Words
<1>3. Loop!TypeOK
  <2>1. /\ RingOK(l_mem, l_wr_ptr, l_rd_ptr, l_count, ElasticDepth) /\ mid_rdy \in BOOLEAN
        /\ SkidOK(in_out, in_skid) /\ in_rdy \in BOOLEAN
        /\ SkidOK(out_out, out_skid) /\ out_rdy \in BOOLEAN
    BY DEF LoopOK, MidOK, InOK, OutOK
  <2>2. Loop!Mid!TypeOK
    BY <2>1, RingIsSeq
       DEF RingOK, Loop!Mid!TypeOK, Loop!Mid!StoreOK, Loop!Mid!Slot, Loop!Mid!Words, Words
  <2> QED BY <2>1, <2>2 DEF SkidOK, Loop!TypeOK, Loop!In!TypeOK, Loop!Out!TypeOK,
             Loop!In!Words, Loop!Out!Words, Words
<1> QED BY <1>1, <1>2, <1>3

-----------------------------------------------------------------------------
(* The bench: one device runs, and what is due of it is what it holds.     *)

\* All four buffers are sound.
StreamsOK == FifoOK /\ ElasticOK /\ PipeOK /\ LoopOK

\* An empty ring is one.
LEMMA RingEmpty ==
  ASSUME NEW m, NEW D \in Nat \ {0}, m \in [0 .. D - 1 -> Words]
  PROVE  RingOK(m, 0, 0, 0, D)
  BY DEF RingOK, At

\* The devices start empty.
LEMMA StreamsInitially ==
  ASSUME BenchInit
  PROVE  /\ StreamsOK /\ Fifo!held = << >> /\ Elastic!stored = << >>
         /\ inside = << >> /\ Loop!inside = << >> /\ f_count = 0 /\ count = 0
<1>0. << >> \o << >> = << >> /\ << >> \o << >> \o << >> = << >> /\ NoData \in Words
  BY EmptySeq, ConcatEmptySeq DEF Words
<1>1. FifoOK /\ Fifo!held = << >> /\ f_count = 0
  <2>1. /\ f_mem \in [0 .. Depth - 1 -> Words] /\ f_wr_ptr = 0 /\ f_rd_ptr = 0 /\ f_count = 0
        /\ out = NoData /\ high = 0 /\ ovf = FALSE /\ unf = FALSE
    BY <1>0 DEF BenchInit, Fifo!Init, Fifo!InitStore, Fifo!Slot
  <2>2. RingOK(f_mem, f_wr_ptr, f_rd_ptr, f_count, Depth) /\ Depth \in Nat
    BY <2>1, RingEmpty, BenchAssumption
  <2>3. Fifo!held = << >>
    BY <2>1 DEF Fifo!held, Fifo!stored
  <2>4. FifoOK
    <3>1. out \in Words /\ high \in 0 .. Depth /\ ovf \in BOOLEAN /\ unf \in BOOLEAN
      <4>1. out \in Words
        BY <2>1 DEF Words
      <4>2. high \in 0 .. Depth
        BY <2>1, <2>2
      <4> QED BY <4>1, <4>2, <2>1
    <3> QED BY <3>1, <2>1, <2>2 DEF FifoOK
  <2> QED BY <2>1, <2>3, <2>4
<1>2. ElasticOK /\ Elastic!stored = << >>
  <2>1. /\ e_mem \in [0 .. Depth - 1 -> Words] /\ e_wr_ptr = 0 /\ e_rd_ptr = 0 /\ e_count = 0
        /\ e_rdy = FALSE
    BY <1>0 DEF BenchInit, Elastic!Init, Elastic!InitStore, Elastic!Slot
  <2>2. RingOK(e_mem, e_wr_ptr, e_rd_ptr, e_count, Depth)
    BY <2>1, RingEmpty, BenchAssumption
  <2>3. Elastic!stored = << >>
    BY <2>1 DEF Elastic!stored
  <2>4. ElasticOK
    BY <2>1, <2>2 DEF ElasticOK
  <2> QED BY <2>3, <2>4
<1>3. LoopOK /\ Loop!inside = << >>
  <2>1. /\ l_mem \in [0 .. ElasticDepth - 1 -> Words] /\ l_wr_ptr = 0 /\ l_rd_ptr = 0
        /\ l_count = 0 /\ mid_rdy = FALSE
        /\ in_out = NoData /\ in_skid = NoData /\ in_rdy = FALSE
        /\ out_out = NoData /\ out_skid = NoData /\ out_rdy = FALSE
    BY <1>0 DEF BenchInit, Loop!Init, Loop!In!Init, Loop!Out!Init,
       Loop!Mid!Init, Loop!Mid!InitStore, Loop!Mid!Slot
  <2>2. RingOK(l_mem, l_wr_ptr, l_rd_ptr, l_count, ElasticDepth)
    BY <2>1, RingEmpty, BenchAssumption
  <2>3. LoopOK
    BY <2>1, <2>2, <1>0 DEF LoopOK, InOK, MidOK, OutOK, SkidOK
  <2>4. Loop!In!held = << >> /\ Loop!Out!held = << >> /\ Loop!Mid!stored = << >>
    BY <2>1, <1>0 DEF Loop!In!held, Loop!Out!held, Loop!In!Beat, Loop!Out!Beat, Loop!Mid!stored
  <2> QED BY <2>3, <2>4, <1>0 DEF Loop!inside
<1>4. PipeOK /\ inside = << >> /\ count = 0
  <2>1. /\ mem \in [0 .. OutDepth - 1 -> Words] /\ wr_ptr = 0 /\ rd_ptr = 0
        /\ count = 0 /\ buf_rdy = FALSE /\ credits = OutDepth /\ rdy = FALSE
        /\ line \in [Position -> Words] /\ \A i \in Position : line[i] = NoData
    BY <1>0 DEF BenchInit, Init, Buf!Init, Buf!InitStore, Buf!Slot
  <2>2. Stages \in Nat /\ OutDepth \in Nat \ {0}
    BY StagesAssumption, OutDepthAssumption
  <2>3. RingOK(mem, wr_ptr, rd_ptr, count, OutDepth)
    BY <2>1, <2>2, RingEmpty
  <2>4. beats[Stages] = << >>
    <3>1. line \in [1 .. Stages -> Words] /\ \A i \in 1 .. Stages : line[i] = NoData
      BY <2>1 DEF Position
    <3> QED BY <3>1, <2>2, BeatsOfLine, LineEmpty
  <2>5. inside = << >>
    BY <2>1, <2>4, <1>0 DEF inside, Buf!stored
  <2>6. credits + Len(beats[Stages]) + count = OutDepth
    BY <2>1, <2>2, <2>4, EmptySeq
  <2>7. RoomWhenPresented
    <3>1. Stages # 0 => line[Stages] = NoData
      BY <2>1, <2>2 DEF Position
    <3> QED BY <3>1, <2>1 DEF RoomWhenPresented
  <2> QED BY <2>1, <2>2, <2>3, <2>5, <2>6, <2>7 DEF PipeOK, BufOK
<1> QED BY <1>1, <1>2, <1>3, <1>4 DEF StreamsOK

\* What passes through a device is what its two faces exchange.
LEMMA ExchangesAre ==
  ASSUME NEW q, NEW p, NEW word \in Words, NEW dut_ready \in BOOLEAN, NEW given,
         NEW ready \in BOOLEAN, If(dut_ready, word) \in Words, If(ready, given) \in Words,
         Through(q, If(dut_ready, word), If(ready, given), p), due = q,
         Exchange(word, dut_ready, given, ready)
  PROVE  due' = p
<1>1. LET rest == IF If(ready, given) # NoData THEN SubSeq(due, 2, Len(due)) ELSE due
      IN  p = IF If(dut_ready, word) # NoData THEN Append(rest, If(dut_ready, word)) ELSE rest
  BY ThroughExchanges
<1>2. /\ If(ready, given) # NoData <=> given # NoData /\ ready
      /\ If(dut_ready, word) # NoData <=> word # NoData /\ dut_ready
      /\ If(dut_ready, word) # NoData => If(dut_ready, word) = word
  BY DEF If
<1> QED BY <1>1, <1>2 DEF Exchange

\* What a device may do to its contents in a step, and the accounts of the bench with them.
Passes(q, p, cap) == QueueStep(q, p, cap) /\ (due = q => due' = p)

\* An edge of a device, in those terms.
LEMMA EdgePasses ==
  ASSUME NEW q, NEW p, NEW cap, NEW word \in Words, NEW dut_ready \in BOOLEAN, NEW given,
         NEW ready \in BOOLEAN, If(dut_ready, word) \in Words, If(ready, given) \in Words,
         Through(q, If(dut_ready, word), If(ready, given), p),
         dut_ready => Len(q) < cap, Exchange(word, dut_ready, given, ready)
  PROVE  Passes(q, p, cap)
<1>1. If(dut_ready, word) # NoData => Len(q) < cap
  BY DEF If
<1>2. QueueStep(q, p, cap)
  BY <1>1, ThroughIsStep
<1>3. due = q => due' = p
  BY ExchangesAre
<1> QED BY <1>2, <1>3 DEF Passes

\* What the FIFO holds when full: the output register is one place more.
FifoCap == IF ShowAhead THEN Depth ELSE Depth + 1

\* An edge of each device.
LEMMA FifoEdgePasses ==
  ASSUME FifoOK, FifoFlow
  PROVE  FifoOK' /\ Passes(Fifo!held, Fifo!held', FifoCap) /\ high' >= f_count
<1>1. PICK word \in Words, ready \in BOOLEAN : FifoEdge(word, ready)
  BY DEF FifoFlow
<1>2. PICK clr \in BOOLEAN : Fifo!Clock(word, ready, clr)
  BY <1>1 DEF FifoEdge
<1>3. /\ FifoOK' /\ If(Fifo!s_ready, word) \in Words /\ If(ready, Fifo!m_word) \in Words
      /\ Through(Fifo!held, If(Fifo!s_ready, word), If(ready, Fifo!m_word), Fifo!held')
      /\ high' >= f_count
  BY <1>2, FifoClock
<1>4. Fifo!s_ready \in BOOLEAN /\ (Fifo!s_ready => Len(Fifo!held) < FifoCap)
  BY FifoHolds DEF FifoCap, Fifo!s_ready
<1>5. Exchange(word, Fifo!s_ready, Fifo!m_word, ready)
  BY <1>1 DEF FifoEdge
<1> QED BY <1>3, <1>4, <1>5, EdgePasses

\* An edge of the registered-ready buffer.
LEMMA ElasticEdgePasses ==
  ASSUME ElasticOK, ElasticFlow
  PROVE  ElasticOK' /\ Passes(Elastic!stored, Elastic!stored', Depth)
<1>1. PICK word \in Words, ready \in BOOLEAN : ElasticEdge(word, ready)
  BY DEF ElasticFlow
<1>2. Elastic!Clock(word, ready) /\ Exchange(word, e_rdy, Elastic!m_word, ready)
  BY <1>1 DEF ElasticEdge, Elastic!s_ready
<1>3. /\ ElasticOK' /\ If(e_rdy, word) \in Words /\ If(ready, Elastic!m_word) \in Words
      /\ Through(Elastic!stored, If(e_rdy, word), If(ready, Elastic!m_word), Elastic!stored')
  BY <1>2, ElasticClock
<1>4. e_rdy \in BOOLEAN /\ (e_rdy => Len(Elastic!stored) < Depth)
  BY ElasticHolds DEF ElasticOK
<1> QED BY <1>2, <1>3, <1>4, EdgePasses

\* An edge of the pipe.
LEMMA PipeEdgePasses ==
  ASSUME PipeOK, NEW word \in Words, NEW ready \in BOOLEAN, PipeEdge(word, ready)
  PROVE  /\ PipeOK' /\ Passes(inside, inside', OutDepth)
         /\ ready /\ count <= 1 => count' <= 1 /\ rdy'
<1>1. Clock(word, ready) /\ Exchange(word, rdy, Buf!m_word, ready)
  BY DEF PipeEdge
<1>2. /\ PipeOK' /\ If(rdy, word) \in Words /\ If(ready, Buf!m_word) \in Words
      /\ Through(inside, If(rdy, word), If(ready, Buf!m_word), inside')
      /\ (ready /\ count <= 1 => count' <= 1 /\ rdy')
  BY <1>1, PipeClock
<1>3. rdy \in BOOLEAN /\ (rdy => Len(inside) < OutDepth)
  BY PipeHolds DEF PipeOK
<1>4. Passes(inside, inside', OutDepth)
  BY <1>1, <1>2, <1>3, EdgePasses
<1> QED BY <1>2, <1>4

\* An edge of the loopback.
LEMMA LoopEdgePasses ==
  ASSUME LoopOK, LoopFlow
  PROVE  LoopOK' /\ Passes(Loop!inside, Loop!inside', ElasticDepth + 4)
<1>1. PICK word \in Words, ready \in BOOLEAN : LoopEdge(word, ready)
  BY DEF LoopFlow
<1>2. Loop!Clock(word, ready) /\ Exchange(word, in_rdy, out_out, ready)
  BY <1>1 DEF LoopEdge, Loop!In!s_ready, Loop!Out!m_word
<1>3. /\ LoopOK' /\ If(in_rdy, word) \in Words /\ If(ready, out_out) \in Words
      /\ Through(Loop!inside, If(in_rdy, word), If(ready, out_out), Loop!inside')
  BY <1>2, LoopClock
<1>4. in_rdy \in BOOLEAN /\ (in_rdy => Len(Loop!inside) < ElasticDepth + 4)
  BY LoopHolds DEF LoopOK, InOK
<1> QED BY <1>2, <1>3, <1>4, EdgePasses

\* A device at rest keeps what it has.
LEMMA FifoRests ==
  ASSUME FifoOK, UNCHANGED fifoVars PROVE FifoOK' /\ Fifo!held' = Fifo!held
<1>1. /\ f_mem' = f_mem /\ f_wr_ptr' = f_wr_ptr /\ f_rd_ptr' = f_rd_ptr /\ f_count' = f_count
      /\ out' = out /\ high' = high /\ ovf' = ovf /\ unf' = unf
  BY DEF fifoVars
<1>2. FifoOK'
  BY <1>1 DEF FifoOK
<1>3. Fifo!held' = Fifo!held
  BY <1>1 DEF Fifo!held, Fifo!stored, Fifo!Plus
<1> QED BY <1>2, <1>3

\* A buffer at rest keeps what it has.
LEMMA ElasticRests ==
  ASSUME ElasticOK, UNCHANGED elasticVars PROVE ElasticOK' /\ Elastic!stored' = Elastic!stored
<1>1. /\ e_rdy' = e_rdy /\ e_mem' = e_mem /\ e_wr_ptr' = e_wr_ptr /\ e_rd_ptr' = e_rd_ptr
      /\ e_count' = e_count
  BY DEF elasticVars
<1>2. ElasticOK'
  BY <1>1 DEF ElasticOK
<1>3. Elastic!stored' = Elastic!stored
  BY <1>1 DEF Elastic!stored, Elastic!Plus
<1> QED BY <1>2, <1>3

\* A pipe at rest keeps what it has.
LEMMA PipeRests ==
  ASSUME PipeOK, UNCHANGED vars PROVE PipeOK' /\ inside' = inside /\ count' = count
<1>1. /\ credits' = credits /\ rdy' = rdy /\ line' = line /\ mem' = mem /\ wr_ptr' = wr_ptr
      /\ rd_ptr' = rd_ptr /\ count' = count /\ buf_rdy' = buf_rdy
  BY DEF vars, bufVars
<1>2. beats' = beats
  BY <1>1 DEF beats
<1>3. PipeOK'
  BY <1>1, <1>2 DEF PipeOK, BufOK, RoomWhenPresented
<1>4. inside' = inside
  <2>1. Buf!stored' = Buf!stored
    BY <1>1 DEF Buf!stored, Buf!Plus
  <2> QED BY <2>1, <1>2 DEF inside
<1> QED BY <1>1, <1>3, <1>4

\* A loopback at rest keeps what it has.
LEMMA LoopRests ==
  ASSUME LoopOK, UNCHANGED loopVars PROVE LoopOK' /\ Loop!inside' = Loop!inside
<1>1. /\ in_out' = in_out /\ in_skid' = in_skid /\ in_rdy' = in_rdy
      /\ l_mem' = l_mem /\ l_wr_ptr' = l_wr_ptr /\ l_rd_ptr' = l_rd_ptr /\ l_count' = l_count
      /\ mid_rdy' = mid_rdy /\ out_out' = out_out /\ out_skid' = out_skid /\ out_rdy' = out_rdy
  BY DEF loopVars
<1>2. LoopOK'
  BY <1>1 DEF LoopOK, InOK, MidOK, OutOK
<1>3. Loop!inside' = Loop!inside
  BY <1>1 DEF Loop!inside, Loop!In!held, Loop!Out!held, Loop!In!Beat, Loop!Out!Beat,
     Loop!Mid!stored, Loop!Mid!Plus
<1> QED BY <1>2, <1>3

\* A queue that is emptied, or left alone, takes a step of its own.
LEMMA IdleIsStep == \A q, cap : QueueStep(q, q, cap) /\ QueueStep(q, << >>, cap)
  BY DEF QueueStep

\* What an edge of the bench does to the four buffers.
BufferSteps ==
  /\ QueueStep(inside, inside', OutDepth) /\ QueueStep(Fifo!held, Fifo!held', FifoCap)
  /\ QueueStep(Elastic!stored, Elastic!stored', Depth)
  /\ QueueStep(Loop!inside, Loop!inside', ElasticDepth + 4)
  /\ f_count' # 0 => high' >= f_count \/ UNCHANGED fifoVars

\* The buffers are sound, the bench's account of the one under test is what it holds, and
\* a pipe whose sink never stalls has at most one beat in its buffer.
BenchInv ==
  /\ StreamsOK /\ due = contents
  /\ dut = "streaming" => count <= 1

\* The contents of the buffer under test.
LEMMA ContentsOf ==
  /\ dut = "fifo" => contents = Fifo!held
  /\ dut = "elastic" => contents = Elastic!stored
  /\ dut = "loopback" => contents = Loop!inside
  /\ dut \notin {"fifo", "elastic", "loopback"} => contents = inside
  BY Zenon DEF contents

\* The same, after an edge.
LEMMA ContentsOfNext ==
  /\ dut' = "fifo" => contents' = Fifo!held'
  /\ dut' = "elastic" => contents' = Elastic!stored'
  /\ dut' = "loopback" => contents' = Loop!inside'
  /\ dut' \notin {"fifo", "elastic", "loopback"} => contents' = inside'
  BY Zenon DEF contents

\* The invariant holds at first, and every edge keeps it.
LEMMA BenchInitially == ASSUME BenchInit PROVE BenchInv
<1>1. /\ StreamsOK /\ Fifo!held = << >> /\ Elastic!stored = << >>
      /\ inside = << >> /\ Loop!inside = << >> /\ count = 0
  BY StreamsInitially
<1>2. due = << >>
  BY DEF BenchInit
<1>3. contents = << >>
  BY <1>1, ContentsOf
<1> QED BY <1>1, <1>2, <1>3 DEF BenchInv

\* Every edge keeps the invariant, and does to each buffer what a queue does.
LEMMA BenchStep ==
  ASSUME BenchInv, BenchNext
  PROVE  BenchInv' /\ BufferSteps /\ (dut = "streaming" => rdy') /\ dut' = dut
<1> USE DEF StreamsOK
<1>1. FifoOK /\ ElasticOK /\ PipeOK /\ LoopOK /\ due = contents /\ (dut = "streaming" => count <= 1)
  BY DEF BenchInv
<1>2. CASE FifoFlow
  <2>1. dut = "fifo" /\ dut' = dut /\ UNCHANGED elasticVars /\ UNCHANGED vars /\ UNCHANGED loopVars
    BY <1>2 DEF FifoFlow, FifoRest
  <2>2. FifoOK' /\ Passes(Fifo!held, Fifo!held', FifoCap) /\ high' >= f_count
    BY <1>1, <1>2, FifoEdgePasses
  <2>3. /\ ElasticOK' /\ Elastic!stored' = Elastic!stored /\ PipeOK' /\ inside' = inside
        /\ LoopOK' /\ Loop!inside' = Loop!inside
    BY <2>1, <1>1, ElasticRests, PipeRests, LoopRests
  <2>4. due' = contents'
    BY <2>1, <2>2, <1>1, ContentsOf, ContentsOfNext DEF Passes
  <2>5. BufferSteps
    BY <2>2, <2>3, IdleIsStep DEF BufferSteps, Passes
  <2> QED BY <2>1, <2>2, <2>3, <2>4, <2>5 DEF BenchInv
<1>3. CASE ElasticFlow
  <2>1. dut = "elastic" /\ dut' = dut /\ UNCHANGED fifoVars /\ UNCHANGED vars /\ UNCHANGED loopVars
    BY <1>3 DEF ElasticFlow, ElasticRest
  <2>2. ElasticOK' /\ Passes(Elastic!stored, Elastic!stored', Depth)
    BY <1>1, <1>3, ElasticEdgePasses
  <2>3. /\ FifoOK' /\ Fifo!held' = Fifo!held /\ PipeOK' /\ inside' = inside
        /\ LoopOK' /\ Loop!inside' = Loop!inside
    BY <2>1, <1>1, FifoRests, PipeRests, LoopRests
  <2>4. due' = contents'
    BY <2>1, <2>2, <1>1, ContentsOf, ContentsOfNext DEF Passes
  <2>5. BufferSteps
    BY <2>1, <2>2, <2>3, IdleIsStep DEF BufferSteps, Passes
  <2> QED BY <2>1, <2>2, <2>3, <2>4, <2>5 DEF BenchInv
<1>4. CASE PipeFlow \/ Streaming
  <2>1. /\ dut \in {"pipe", "streaming"} /\ dut' = dut
        /\ UNCHANGED fifoVars /\ UNCHANGED elasticVars /\ UNCHANGED loopVars
    BY <1>4 DEF PipeFlow, PipeRest, Streaming, StreamingRest
  <2>2. PICK word \in Words, ready \in BOOLEAN : PipeEdge(word, ready) /\ (dut = "streaming" => ready)
    <3>1. CASE PipeFlow
      BY <3>1 DEF PipeFlow, PipeRest
    <3>2. CASE Streaming
      BY <3>2 DEF Streaming
    <3> QED BY <3>1, <3>2, <1>4
  <2>3. /\ PipeOK' /\ Passes(inside, inside', OutDepth)
        /\ ready /\ count <= 1 => count' <= 1 /\ rdy'
    BY <2>2, <1>1, PipeEdgePasses
  <2>4. /\ FifoOK' /\ Fifo!held' = Fifo!held /\ ElasticOK' /\ Elastic!stored' = Elastic!stored
        /\ LoopOK' /\ Loop!inside' = Loop!inside
    BY <2>1, <1>1, FifoRests, ElasticRests, LoopRests
  <2>5. due' = contents'
    BY <2>1, <2>3, <1>1, ContentsOf, ContentsOfNext DEF Passes
  <2>6. BufferSteps
    BY <2>1, <2>3, <2>4, IdleIsStep DEF BufferSteps, Passes
  <2> QED BY <2>1, <2>2, <2>3, <2>4, <2>5, <2>6, <1>1 DEF BenchInv
<1>5. CASE LoopFlow
  <2>1. dut = "loopback" /\ dut' = dut /\ UNCHANGED fifoVars /\ UNCHANGED elasticVars /\ UNCHANGED vars
    BY <1>5 DEF LoopFlow, LoopRest
  <2>2. LoopOK' /\ Passes(Loop!inside, Loop!inside', ElasticDepth + 4)
    BY <1>1, <1>5, LoopEdgePasses
  <2>3. /\ FifoOK' /\ Fifo!held' = Fifo!held /\ PipeOK' /\ inside' = inside
        /\ ElasticOK' /\ Elastic!stored' = Elastic!stored
    BY <2>1, <1>1, FifoRests, PipeRests, ElasticRests
  <2>4. due' = contents'
    BY <2>1, <2>2, <1>1, ContentsOf, ContentsOfNext DEF Passes
  <2>5. BufferSteps
    BY <2>1, <2>2, <2>3, IdleIsStep DEF BufferSteps, Passes
  <2> QED BY <2>1, <2>2, <2>3, <2>4, <2>5 DEF BenchInv
<1>6. CASE StreamReset
  <2>1. /\ FifoOK' /\ (Fifo!held' = Fifo!held \/ Fifo!held' = << >>)
        /\ f_count' = 0 \/ UNCHANGED fifoVars
    <3>1. CASE UNCHANGED fifoVars
      BY <3>1, <1>1, FifoRests
    <3>2. CASE \E word \in Words : Fifo!ResetEdge(word)
      BY <3>2, <1>1, FifoReset
    <3> QED BY <3>1, <3>2, <1>6 DEF StreamReset, ElasticRest, PipeRest, LoopRest
  <2>2. ElasticOK' /\ (Elastic!stored' = Elastic!stored \/ Elastic!stored' = << >>)
    <3>1. CASE UNCHANGED elasticVars
      BY <3>1, <1>1, ElasticRests
    <3>2. CASE \E word \in Words : Elastic!ResetEdge(word)
      BY <3>2, <1>1, ElasticReset
    <3> QED BY <3>1, <3>2, <1>6 DEF StreamReset, FifoRest, PipeRest, LoopRest
  <2>3. PipeOK' /\ (inside' = inside \/ inside' = << >>)
    <3>1. CASE UNCHANGED vars
      BY <3>1, <1>1, PipeRests
    <3>2. CASE \E word \in Words : ResetEdge(word)
      BY <3>2, <1>1, PipeReset
    <3> QED BY <3>1, <3>2, <1>6 DEF StreamReset, FifoRest, ElasticRest, LoopRest
  <2>4. LoopOK' /\ (Loop!inside' = Loop!inside \/ Loop!inside' = << >>)
    <3>1. CASE UNCHANGED loopVars
      BY <3>1, <1>1, LoopRests
    <3>2. CASE Loop!ResetEdge
      BY <3>2, <1>1, LoopReset
    <3> QED BY <3>1, <3>2, <1>6 DEF StreamReset, FifoRest, ElasticRest, PipeRest
  <2>5. BufferSteps
    BY <2>1, <2>2, <2>3, <2>4, IdleIsStep DEF BufferSteps
  <2>6. due' = << >> /\ dut' = dut /\ dut # "streaming"
    BY <1>6 DEF StreamReset, FifoRest, ElasticRest, PipeRest, LoopRest
  <2>7. contents' = << >>
    <3>1. PICK word \in Words : \/ FifoRest /\ Fifo!ResetEdge(word)
                                \/ ElasticRest /\ Elastic!ResetEdge(word)
                                \/ PipeRest /\ ResetEdge(word)
                                \/ LoopRest /\ Loop!ResetEdge
      BY <1>6 DEF StreamReset
    <3>2. CASE FifoRest /\ Fifo!ResetEdge(word)
      BY <3>2, <1>1, FifoReset, ContentsOfNext DEF FifoRest
    <3>3. CASE ElasticRest /\ Elastic!ResetEdge(word)
      BY <3>3, <1>1, ElasticReset, ContentsOfNext DEF ElasticRest
    <3>4. CASE PipeRest /\ ResetEdge(word)
      BY <3>4, <1>1, PipeReset, ContentsOfNext DEF PipeRest
    <3>5. CASE LoopRest /\ Loop!ResetEdge
      BY <3>5, <1>1, LoopReset, ContentsOfNext DEF LoopRest
    <3> QED BY <3>1, <3>2, <3>3, <3>4, <3>5
  <2> QED BY <2>1, <2>2, <2>3, <2>4, <2>5, <2>6, <2>7 DEF BenchInv
<1>7. CASE GrayRest \/ PulseRest \/ HandRest
  <2>1. /\ dut' = dut /\ due' = due /\ dut \in {"gray", "pulse", "handshake"}
        /\ UNCHANGED fifoVars /\ UNCHANGED elasticVars /\ UNCHANGED vars /\ UNCHANGED loopVars
    BY <1>7 DEF GrayRest, PulseRest, HandRest, streamVars
  <2>2. /\ FifoOK' /\ Fifo!held' = Fifo!held /\ PipeOK' /\ inside' = inside
        /\ ElasticOK' /\ Elastic!stored' = Elastic!stored
        /\ LoopOK' /\ Loop!inside' = Loop!inside
    BY <2>1, <1>1, FifoRests, PipeRests, ElasticRests, LoopRests
  <2>3. due' = contents'
    BY <2>1, <2>2, <1>1, ContentsOf, ContentsOfNext
  <2>4. BufferSteps
    BY <2>1, <2>2, IdleIsStep DEF BufferSteps
  <2> QED BY <2>1, <2>2, <2>3, <2>4 DEF BenchInv
<1> QED BY <1>2, <1>3, <1>4, <1>5, <1>6, <1>7 DEF BenchNext

\* Nothing moves when nothing happens.
LEMMA BenchStutter == ASSUME BenchInv, UNCHANGED benchVars PROVE BenchInv'
<1>1. /\ dut' = dut /\ due' = due
      /\ UNCHANGED fifoVars /\ UNCHANGED elasticVars /\ UNCHANGED vars /\ UNCHANGED loopVars
  BY DEF benchVars, streamVars
<1>2. /\ FifoOK' /\ Fifo!held' = Fifo!held /\ PipeOK' /\ inside' = inside /\ count' = count
      /\ ElasticOK' /\ Elastic!stored' = Elastic!stored
      /\ LoopOK' /\ Loop!inside' = Loop!inside
  BY <1>1, FifoRests, PipeRests, ElasticRests, LoopRests DEF BenchInv, StreamsOK
<1>3. due' = contents'
  BY <1>1, <1>2, ContentsOf, ContentsOfNext DEF BenchInv
<1> QED BY <1>1, <1>2, <1>3 DEF BenchInv, StreamsOK

-----------------------------------------------------------------------------
\* A pipe whose sink never stalls is never throttled, and the credits of every pipe cover
\* its line: for every number of stages, every buffer with two places more, and all data.
THEOREM FullRate == BenchSpec => StreamsAtFullRate
<1>1. BenchInit => BenchInv
  BY BenchInitially
<1>2. BenchInv /\ [BenchNext]_benchVars => BenchInv'
  BY BenchStep, BenchStutter
<1>3. BenchInv /\ [BenchNext]_benchVars => [dut = "streaming" => rdy']_benchVars
  BY BenchStep
<1>4. BenchInv => CreditsCoverTheLine
  BY PipeGives, StreamsGive DEF BenchInv, StreamsOK, CreditsCoverTheLine, StreamTypesOK
<1> QED BY <1>1, <1>2, <1>3, <1>4, PTL DEF BenchSpec, StreamsAtFullRate

\* Each of the four buffers is a queue that a reset empties, and holds what went in at one
\* face and has not come out at the other; the mark of the deep FIFO covers the levels it
\* held: for every depth, every number of stages, and all data.
THEOREM BuffersAreQueues == BenchSpec => BuffersAreFifos
<1>1. BenchInit => BenchInv
  BY BenchInitially
<1>2. BenchInv /\ [BenchNext]_benchVars => BenchInv'
  BY BenchStep, BenchStutter
<1>3. BenchInv => due = contents
  BY DEF BenchInv
<1>4. BenchSpec => [][contents' = due']_benchVars
  <2>1. BenchInv' => due' = contents'
    BY DEF BenchInv
  <2>2. BenchInv' => [contents' = due']_benchVars
    BY <2>1
  <2> QED BY <1>1, <1>2, <2>2, PTL DEF BenchSpec
<1>5. BenchInit => /\ Channel!Init /\ Fifo!Channel!Init /\ Elastic!Channel!Init
                   /\ Loop!Channel!Init
  BY StreamsInitially
     DEF Channel!Init, Fifo!Channel!Init, Elastic!Channel!Init, Loop!Channel!Init
<1>6. BenchInv /\ [BenchNext]_benchVars
      => /\ [Channel!Next]_inside /\ [Fifo!Channel!Next]_Fifo!held
         /\ [Elastic!Channel!Next]_Elastic!stored /\ [Loop!Channel!Next]_Loop!inside
         /\ [f_count' # 0 => high' >= f_count]_Fifo!vars
  <2>1. ASSUME BenchInv, UNCHANGED benchVars
        PROVE  /\ UNCHANGED inside /\ UNCHANGED Fifo!held
               /\ UNCHANGED Elastic!stored /\ UNCHANGED Loop!inside /\ UNCHANGED Fifo!vars
    <3>1. /\ UNCHANGED fifoVars /\ UNCHANGED elasticVars /\ UNCHANGED vars /\ UNCHANGED loopVars
      BY <2>1 DEF benchVars, streamVars
    <3>2. FifoOK /\ ElasticOK /\ PipeOK /\ LoopOK
      BY <2>1 DEF BenchInv, StreamsOK
    <3>3. UNCHANGED Fifo!vars
      BY <3>1 DEF fifoVars, Fifo!vars, Fifo!storeVars
    <3> QED BY <3>1, <3>2, <3>3, FifoRests, PipeRests, ElasticRests, LoopRests
  <2>2. ASSUME BenchInv, BenchNext
        PROVE  /\ [Channel!Next]_inside /\ [Fifo!Channel!Next]_Fifo!held
               /\ [Elastic!Channel!Next]_Elastic!stored /\ [Loop!Channel!Next]_Loop!inside
               /\ [f_count' # 0 => high' >= f_count]_Fifo!vars
    <3>1. BufferSteps
      BY <2>2, BenchStep
    <3>2. [Channel!Next]_inside
      BY <3>1 DEF BufferSteps, QueueStep, Channel!Next, Channel!Put, Channel!Get, Channel!PutGet,
         Channel!Clear
    <3>3. [Fifo!Channel!Next]_Fifo!held
      BY <3>1 DEF BufferSteps, QueueStep, FifoCap, Fifo!Channel!Next, Fifo!Channel!Put,
         Fifo!Channel!Get, Fifo!Channel!PutGet, Fifo!Channel!Clear
    <3>4. [Elastic!Channel!Next]_Elastic!stored
      BY <3>1 DEF BufferSteps, QueueStep, Elastic!Channel!Next, Elastic!Channel!Put,
         Elastic!Channel!Get, Elastic!Channel!PutGet, Elastic!Channel!Clear
    <3>5. [Loop!Channel!Next]_Loop!inside
      BY <3>1 DEF BufferSteps, QueueStep, Loop!Channel!Next, Loop!Channel!Put,
         Loop!Channel!Get, Loop!Channel!PutGet, Loop!Channel!Clear
    <3>6. [f_count' # 0 => high' >= f_count]_Fifo!vars
      BY <3>1 DEF BufferSteps, fifoVars, Fifo!vars, Fifo!storeVars
    <3> QED BY <3>2, <3>3, <3>4, <3>5, <3>6
  <2> QED BY <2>1, <2>2
<1> QED BY <1>1, <1>2, <1>4, <1>5, <1>6, PTL
        DEF BenchSpec, BuffersAreFifos, IsFifo, Fifo!IsFifo, Elastic!IsFifo, Loop!IsFifo,
            Channel!Spec, Fifo!Channel!Spec, Elastic!Channel!Spec, Loop!Channel!Spec, Fifo!MarkCovers

-----------------------------------------------------------------------------
(* The pointers of the Gray bench.                                         *)

\* Half the pointers: the number of addresses.
Half == 2 ^ (Width - 1)

\* How far b is behind a, and the next pointer, without a remainder.
Gap(a, b) == IF a >= b THEN a - b ELSE a + 2 * Half - b
Next1(a)  == IF a + 1 = 2 * Half THEN 0 ELSE a + 1

\* The pointers are the numbers below twice the number of addresses.
LEMMA Pointers ==
  ASSUME Doubling
  PROVE  /\ Half \in Nat \ {0} /\ 2 ^ Width = 2 * Half /\ Half >= 2
         /\ Gray!Ptr = 0 .. 2 * Half - 1
<1>1. Width - 1 \in Nat /\ Width - 2 \in Nat /\ Width - 1 + 1 = Width /\ Width - 2 + 1 = Width - 1
  BY BenchAssumption
<1>2. Half \in Nat \ {0} /\ 2 ^ Width = 2 * Half
  BY <1>1 DEF Doubling, PowersOfTwo, Half
<1>3. PICK q \in Nat \ {0} : Half = 2 * q
  BY <1>1 DEF Doubling, PowersOfTwo, Half
<1> QED BY <1>2, <1>3 DEF Gray!Ptr

\* The remainders of the module, for pointers.
LEMMA PointerMath ==
  ASSUME Doubling
  PROVE  /\ \A a \in Gray!Ptr : Gray!Inc(a) = Next1(a) /\ Next1(a) \in Gray!Ptr
         /\ \A a, b \in Gray!Ptr : Gray!Dist(a, b) = Gap(a, b)
<1>1. PICK n \in Nat \ {0} : n = 2 * Half /\ 2 ^ Width = n /\ Gray!Ptr = 0 .. n - 1
  BY Pointers
<1>2. ASSUME NEW x \in Nat, x < n PROVE x % n = x
  BY <1>2
<1>3. ASSUME NEW x \in Nat, x < n PROVE (x + n) % n = x
  BY <1>3
<1>4. ASSUME NEW a \in Gray!Ptr PROVE Gray!Inc(a) = Next1(a) /\ Next1(a) \in Gray!Ptr
  <2>1. a \in Nat /\ a + 1 <= n
    BY <1>1
  <2>2. CASE a + 1 = n
    <3>1. n % n = 0
      BY <1>1
    <3> QED BY <2>2, <3>1, <1>1 DEF Gray!Inc, Next1
  <2>3. CASE a + 1 < n
    <3>1. (a + 1) % n = a + 1
      BY <2>1, <2>3, <1>2
    <3> QED BY <2>3, <3>1, <1>1, <2>1 DEF Gray!Inc, Next1
  <2> QED BY <2>1, <2>2, <2>3
<1>5. ASSUME NEW a \in Gray!Ptr, NEW b \in Gray!Ptr PROVE Gray!Dist(a, b) = Gap(a, b)
  <2>1. a \in Nat /\ a < n /\ b \in Nat /\ b < n
    BY <1>1
  <2>2. CASE a >= b
    <3>1. PICK x \in Nat : x = a - b /\ x < n /\ a + n - b = x + n
      BY <2>1, <2>2
    <3>2. (x + n) % n = x
      BY <3>1, <1>3
    <3> QED BY <2>2, <3>1, <3>2, <1>1 DEF Gray!Dist, Gap
  <2>3. CASE a < b
    <3>1. PICK x \in Nat : x = a + n - b /\ x < n
      BY <2>1, <2>3
    <3>2. x % n = x
      BY <3>1, <1>2
    <3> QED BY <2>1, <2>3, <3>1, <3>2, <1>1 DEF Gray!Dist, Gap
  <2> QED BY <2>1, <2>2, <2>3
<1> QED BY <1>4, <1>5

\* Half a turn flips the top bit and no other.
LEMMA HalfTurn ==
  ASSUME Doubling, NEW r \in Gray!Ptr, r < Half
  PROVE  /\ r + Half \in Gray!Ptr
         /\ \A i \in 0 .. Width - 2 : B(r + Half, i) = B(r, i)
         /\ B(r + Half, Width - 1) = 1 - B(r, Width - 1)
<1> DEFINE T == {i \in 0 .. Width - 1 : Q(r + Half, i) = Q(r, i) + 2 ^ (Width - 1 - i)}
<1>1. Width \in Nat /\ Width - 1 \in Nat /\ r \in Nat /\ Half \in Nat /\ r + Half \in Nat /\ r + Half \in Gray!Ptr
  BY Pointers, BenchAssumption
<1>2. 0 \in T
  <2>1. Width - 1 - 0 = Width - 1
    BY <1>1
  <2> QED BY <2>1, <1>1, QLaws DEF Half
<1>3. ASSUME NEW i \in 0 .. Width - 2
      PROVE  \E a \in Nat \ {0} : a = 2 ^ (Width - 1 - (i + 1)) /\ 2 * a = 2 ^ (Width - 1 - i)
  <2>1. Width - 1 - (i + 1) \in Nat /\ Width - 1 - (i + 1) + 1 = Width - 1 - i
    BY <1>1
  <2> QED BY <2>1 DEF Doubling, PowersOfTwo
<1>4. ASSUME NEW i \in 0 .. Width - 1 - 1, i \in T PROVE i + 1 \in T
  <2>1. i \in Nat /\ i + 1 \in 0 .. Width - 1 /\ i \in 0 .. Width - 2
    BY <1>1
  <2>2. PICK a \in Nat \ {0} : a = 2 ^ (Width - 1 - (i + 1)) /\ 2 * a = 2 ^ (Width - 1 - i)
    BY <2>1, <1>3
  <2>3. /\ Q(r, i) \in Nat /\ Q(r, i + 1) = Q(r, i) \div 2
        /\ Q(r + Half, i) \in Nat /\ Q(r + Half, i + 1) = Q(r + Half, i) \div 2
    BY <2>1, <1>1, QLaws
  <2>4. Q(r + Half, i) = Q(r, i) + 2 * a
    BY <1>4, <2>2
  <2>5. Q(r + Half, i + 1) = Q(r, i + 1) + a
    BY <2>3, <2>4
  <2> QED BY <2>1, <2>2, <2>5
<1>5. \A i \in 0 .. Width - 1 : i \in T
  <2> HIDE DEF T
  <2> QED BY <1>1, <1>2, <1>4, Upwards
<1>6. ASSUME NEW i \in 0 .. Width - 2 PROVE B(r + Half, i) = B(r, i)
  <2>1. i \in Nat /\ i \in 0 .. Width - 1
    BY <1>1
  <2>2. PICK a \in Nat \ {0} : 2 * a = 2 ^ (Width - 1 - i)
    BY <1>3
  <2>3. Q(r, i) \in Nat /\ Q(r + Half, i) = Q(r, i) + 2 * a
    BY <2>1, <2>2, <1>1, <1>5, QLaws
  <2> QED BY <2>3 DEF B
<1>7. B(r + Half, Width - 1) = 1 - B(r, Width - 1)
  <2>1. Width - 1 - (Width - 1) = 0 /\ 2 ^ 0 = 1 /\ Width - 1 \in 0 .. Width - 1
    BY <1>1 DEF Doubling, PowersOfTwo
  <2>2. Q(r, Width - 1) \in Nat /\ Q(r + Half, Width - 1) = Q(r, Width - 1) + 1
    <3>1. Q(r, Width - 1) \in Nat
      BY <1>1, QLaws
    <3>2. Q(r + Half, Width - 1) = Q(r, Width - 1) + 2 ^ (Width - 1 - (Width - 1))
      BY <2>1, <1>5
    <3> QED BY <2>1, <3>1, <3>2
  <2> QED BY <2>2 DEF B
<1> QED BY <1>1, <1>6, <1>7

\* The code of the pointer a lap ahead is the code with its top two bits inverted.
LEMMA LapAhead ==
  ASSUME Doubling, NEW a \in Gray!Ptr, NEW r \in Gray!Ptr
  PROVE  Gray!to_gray(a) = Gray!lap_ahead(Gray!to_gray(r)) <=> Gap(a, r) = Half
<1> DEFINE g(p) == Gray!to_gray(p)
<1>1. ASSUME NEW p \in Gray!Ptr, p < Half
      PROVE  p + Half \in Gray!Ptr /\ g(p + Half) = Gray!lap_ahead(g(p))
  <2>1. p + Half \in Gray!Ptr
    BY <1>1, HalfTurn
  <2>2. ASSUME NEW i \in Gray!Bit
        PROVE  g(p + Half)[i] = IF i >= Width - 2 THEN 1 - g(p)[i] ELSE g(p)[i]
    <3>1. /\ g(p + Half)[i] = (B(p + Half, i) + B(p + Half, i + 1)) % 2
          /\ g(p)[i] = (B(p, i) + B(p, i + 1)) % 2
      BY <2>1, GrayBits
    <3>2. i \in 0 .. Width /\ i + 1 \in 0 .. Width /\ i \in Nat /\ Width \in Nat /\ Width >= 2
      BY BenchAssumption DEF Gray!Bit
    <3>3. B(p, i) \in {0, 1} /\ B(p, i + 1) \in {0, 1} /\ B(p, Width) = 0 /\ B(p + Half, Width) = 0
      BY <2>1, <3>2, GrayBits
    <3>4. CASE i = Width - 1
      <4>1. B(p + Half, i) = 1 - B(p, i) /\ B(p + Half, i + 1) = 0 /\ B(p, i + 1) = 0 /\ i >= Width - 2
        BY <1>1, <3>2, <3>3, <3>4, HalfTurn
      <4> QED BY <3>1, <3>3, <4>1
    <3>5. CASE i = Width - 2
      <4>1. B(p + Half, i) = B(p, i) /\ B(p + Half, i + 1) = 1 - B(p, i + 1) /\ i >= Width - 2
        <5>1. i \in 0 .. Width - 2 /\ i + 1 = Width - 1
          BY <3>2, <3>5
        <5> QED BY <1>1, <5>1, <3>5, HalfTurn
      <4> QED BY <3>1, <3>3, <4>1
    <3>6. CASE i < Width - 2
      <4>1. B(p + Half, i) = B(p, i) /\ B(p + Half, i + 1) = B(p, i + 1) /\ ~(i >= Width - 2)
        <5>1. i \in 0 .. Width - 2 /\ i + 1 \in 0 .. Width - 2
          BY <3>2, <3>6
        <5> QED BY <1>1, <5>1, <3>2, <3>6, HalfTurn
      <4> QED BY <3>1, <4>1
    <3>7. i <= Width - 1
      BY <3>2 DEF Gray!Bit
    <3> QED BY <3>2, <3>4, <3>5, <3>6, <3>7
  <2>3. g(p + Half) = [i \in Gray!Bit |-> IF i >= Width - 2 THEN 1 - g(p)[i] ELSE g(p)[i]]
    <3>1. g(p + Half) \in Gray!Word
      BY <2>1, GrayBits
    <3> HIDE DEF g
    <3> QED BY <2>2, <3>1 DEF Gray!Word
  <2> QED BY <2>1, <2>3 DEF Gray!lap_ahead
<1>2. g(a) \in Gray!Word /\ g(r) \in Gray!Word
  BY GrayBits
<1>3. ASSUME NEW w \in Gray!Word PROVE Gray!lap_ahead(Gray!lap_ahead(w)) = w
  <2>1. \A i \in Gray!Bit : Gray!lap_ahead(Gray!lap_ahead(w))[i] = w[i]
    BY DEF Gray!lap_ahead, Gray!Word
  <2>2. Gray!lap_ahead(Gray!lap_ahead(w)) =
          [i \in Gray!Bit |-> Gray!lap_ahead(Gray!lap_ahead(w))[i]]
    BY DEF Gray!lap_ahead
  <2> QED BY <2>1, <2>2 DEF Gray!Word
<1>4. /\ Half \in Nat \ {0} /\ a \in 0 .. 2 * Half - 1 /\ r \in 0 .. 2 * Half - 1
      /\ Gray!Ptr = 0 .. 2 * Half - 1
  BY Pointers
<1>5. PICK p \in Gray!Ptr : Gap(p, r) = Half /\ g(p) = Gray!lap_ahead(g(r))
  <2>1. CASE r < Half
    BY <2>1, <1>1, <1>4 DEF Gap
  <2>2. CASE r >= Half
    <3>1. PICK p \in Gray!Ptr : p = r - Half /\ p < Half /\ p + Half = r
      BY <2>2, <1>4
    <3>2. g(r) = Gray!lap_ahead(g(p)) /\ g(p) \in Gray!Word
      BY <3>1, <1>1, GrayBits
    <3>3. Gap(p, r) = Half
      BY <3>1, <1>4 DEF Gap
    <3> HIDE DEF g
    <3> QED BY <3>2, <3>3, <1>3
  <2> QED BY <2>1, <2>2, <1>4
<1>6. Gap(a, r) = Half <=> a = p
  BY <1>4, <1>5 DEF Gap
<1> QED BY <1>5, <1>6, GrayTells

\* What holds of the sampled pointers: the one the writer sees is behind the reader,
\* by no more than a lap of the writer, and full is up when the lap is complete; the
\* one the reader sees is behind the writer and not behind the reader.
SeenByWriter(a, b, full, seen) ==
  \E r \in Gray!Ptr : /\ seen = Gray!to_gray(r)
                      /\ Gap(a, b) <= Gap(a, r) /\ Gap(a, r) <= Half
                      /\ Gap(a, r) = Half => full
SeenByReader(a, b, empty, seen) ==
  \E w \in Gray!Ptr : /\ seen = Gray!to_gray(w)
                      /\ Gap(w, b) <= Gap(a, b)
                      /\ Gap(w, b) = 0 => empty

GrayInv ==
  /\ wr_bin \in Gray!Ptr /\ rd_bin \in Gray!Ptr
  /\ wr_gray = Gray!to_gray(wr_bin) /\ rd_gray = Gray!to_gray(rd_bin)
  /\ wr_full \in BOOLEAN /\ rd_empty \in BOOLEAN
  /\ SeenByWriter(wr_bin, rd_bin, wr_full, rd_seen)
  /\ SeenByReader(wr_bin, rd_bin, rd_empty, wr_seen)

\* The gap between two pointers, one of which moves.
LEMMA GapLaws ==
  ASSUME Doubling, NEW a \in Gray!Ptr, NEW b \in Gray!Ptr
  PROVE  /\ Gap(a, b) \in 0 .. 2 * Half - 1 /\ Gap(a, a) = 0
         /\ Gap(a, b) = 0 => a = b
         /\ Gap(a, b) < Half => Gap(Next1(a), b) = Gap(a, b) + 1
         /\ Gap(a, b) # 0 => Gap(a, Next1(b)) = Gap(a, b) - 1
         /\ Half \in Nat \ {0} /\ Half >= 2 /\ Next1(a) \in Gray!Ptr
<1>1. PICK h \in Nat \ {0} : /\ h = Half /\ h >= 2
                             /\ Gray!Ptr = 0 .. 2 * h - 1
  BY Pointers
<1>2. a \in 0 .. 2 * h - 1 /\ b \in 0 .. 2 * h - 1
  BY <1>1
<1> QED BY <1>1, <1>2 DEF Gap, Next1

\* The gap is a number.
LEMMA GapIsNat ==
  ASSUME Doubling
  PROVE  Half \in Nat \ {0} /\ \A a, b \in Gray!Ptr : Gap(a, b) \in Nat
<1>1. 0 \in Gray!Ptr
  BY Pointers
<1>2. Half \in Nat \ {0}
  BY Pointers
<1>3. ASSUME NEW a \in Gray!Ptr, NEW b \in Gray!Ptr PROVE Gap(a, b) \in Nat
  <2>1. Gap(a, b) \in 0 .. 2 * Half - 1
    BY GapLaws
  <2> QED BY <2>1
<1> QED BY <1>2, <1>3

\* An edge of the writer.
LEMMA WrSide ==
  ASSUME Doubling, GrayInv, NEW en \in BOOLEAN, Gray!WrEdge(en),
         NEW r \in Gray!Ptr, rd_seen = Gray!to_gray(r),
         Gap(wr_bin, rd_bin) <= Gap(wr_bin, r), Gap(wr_bin, r) <= Half,
         Gap(wr_bin, r) = Half => wr_full
  PROVE  /\ wr_bin' = (IF en THEN Next1(wr_bin) ELSE wr_bin) /\ wr_bin' \in Gray!Ptr
         /\ wr_gray' = Gray!to_gray(wr_bin')
         /\ wr_full' \in BOOLEAN /\ (Gap(wr_bin', r) = Half => wr_full')
         /\ en => Gap(wr_bin, r) < Half
         /\ Gap(wr_bin', r) <= Half
         /\ Gap(wr_bin', rd_bin) = Gap(wr_bin, rd_bin) + (IF en THEN 1 ELSE 0)
         /\ Gap(wr_bin', rd_bin) <= Gap(wr_bin', r)
<1>1. wr_bin \in Gray!Ptr /\ rd_bin \in Gray!Ptr
  BY DEF GrayInv
<1>2. Gray!WrNext(en) = (IF en THEN Next1(wr_bin) ELSE wr_bin) /\ Next1(wr_bin) \in Gray!Ptr
  BY <1>1, PointerMath DEF Gray!WrNext
<1>3. wr_bin' = Gray!WrNext(en) /\ wr_gray' = Gray!to_gray(wr_bin') /\ wr_bin' \in Gray!Ptr
  BY <1>1, <1>2 DEF Gray!WrEdge
<1>4. wr_full' = (Gray!to_gray(wr_bin') = Gray!lap_ahead(Gray!to_gray(r)))
  BY <1>3 DEF Gray!WrEdge
<1>5. wr_full' \in BOOLEAN /\ (Gap(wr_bin', r) = Half => wr_full')
  BY <1>3, <1>4, LapAhead
<1>6. Gap(wr_bin, r) \in Nat /\ Gap(wr_bin, rd_bin) \in Nat /\ Half \in Nat \ {0}
  BY <1>1, GapIsNat
<1>7. en => Gap(wr_bin, r) < Half
  BY <1>6 DEF Gray!WrEdge
<1>8. CASE en
  <2>1. Gap(wr_bin, r) < Half /\ Gap(wr_bin, rd_bin) < Half
    BY <1>6, <1>7, <1>8
  <2>2. Gap(Next1(wr_bin), r) = Gap(wr_bin, r) + 1 /\ Gap(Next1(wr_bin), rd_bin) = Gap(wr_bin, rd_bin) + 1
    BY <2>1, <1>1, GapLaws
  <2> QED BY <2>1, <2>2, <1>2, <1>3, <1>5, <1>6, <1>8
<1>9. CASE ~en
  BY <1>2, <1>3, <1>5, <1>6, <1>9
<1> QED BY <1>8, <1>9

\* An edge of the reader.
LEMMA RdSide ==
  ASSUME Doubling, GrayInv, NEW en \in BOOLEAN, Gray!RdEdge(en),
         NEW w \in Gray!Ptr, wr_seen = Gray!to_gray(w),
         Gap(w, rd_bin) <= Gap(wr_bin, rd_bin), Gap(w, rd_bin) = 0 => rd_empty
  PROVE  /\ rd_bin' = (IF en THEN Next1(rd_bin) ELSE rd_bin) /\ rd_bin' \in Gray!Ptr
         /\ rd_gray' = Gray!to_gray(rd_bin')
         /\ rd_empty' \in BOOLEAN /\ (Gap(w, rd_bin') = 0 => rd_empty')
         /\ en => Gap(w, rd_bin) # 0
         /\ Gap(w, rd_bin') = Gap(w, rd_bin) - (IF en THEN 1 ELSE 0)
         /\ Gap(wr_bin, rd_bin') = Gap(wr_bin, rd_bin) - (IF en THEN 1 ELSE 0)
<1>1. wr_bin \in Gray!Ptr /\ rd_bin \in Gray!Ptr
  BY DEF GrayInv
<1>2. Gray!RdNext(en) = (IF en THEN Next1(rd_bin) ELSE rd_bin) /\ Next1(rd_bin) \in Gray!Ptr
  BY <1>1, PointerMath DEF Gray!RdNext
<1>3. rd_bin' = Gray!RdNext(en) /\ rd_gray' = Gray!to_gray(rd_bin') /\ rd_bin' \in Gray!Ptr
  BY <1>1, <1>2 DEF Gray!RdEdge
<1>4. rd_empty' = (Gray!to_gray(rd_bin') = Gray!to_gray(w))
  BY <1>3 DEF Gray!RdEdge
<1>5. rd_empty' \in BOOLEAN /\ (Gap(w, rd_bin') = 0 => rd_empty')
  BY <1>3, <1>4, GrayTells, GapLaws
<1>6. Gap(w, rd_bin) \in Nat /\ Gap(wr_bin, rd_bin) \in Nat
  BY <1>1, GapIsNat
<1>7. en => Gap(w, rd_bin) # 0
  BY <1>6 DEF Gray!RdEdge
<1>8. CASE en
  <2>1. Gap(w, rd_bin) # 0 /\ Gap(wr_bin, rd_bin) # 0
    BY <1>6, <1>7, <1>8
  <2>2. Gap(w, Next1(rd_bin)) = Gap(w, rd_bin) - 1 /\ Gap(wr_bin, Next1(rd_bin)) = Gap(wr_bin, rd_bin) - 1
    BY <2>1, <1>1, GapLaws
  <2> QED BY <2>1, <2>2, <1>2, <1>3, <1>5, <1>6, <1>8
<1>9. CASE ~en
  BY <1>2, <1>3, <1>5, <1>6, <1>9
<1> QED BY <1>8, <1>9

\* One edge of either clock or of both: the pointers move as their enables say, and
\* each side samples a pointer the other has or takes.
LEMMA GrayStep ==
  ASSUME Doubling, GrayInv, Gray!Next
  PROVE  GrayInv' /\ Gray!SamplesAreReal
<1>1. wr_bin \in Gray!Ptr /\ rd_bin \in Gray!Ptr /\ wr_gray = Gray!to_gray(wr_bin)
      /\ rd_gray = Gray!to_gray(rd_bin) /\ wr_full \in BOOLEAN /\ rd_empty \in BOOLEAN
  BY DEF GrayInv
<1>2. PICK r \in Gray!Ptr : /\ rd_seen = Gray!to_gray(r)
                            /\ Gap(wr_bin, rd_bin) <= Gap(wr_bin, r) /\ Gap(wr_bin, r) <= Half
                            /\ Gap(wr_bin, r) = Half => wr_full
  BY DEF GrayInv, SeenByWriter
<1>3. PICK w \in Gray!Ptr : /\ wr_seen = Gray!to_gray(w)
                            /\ Gap(w, rd_bin) <= Gap(wr_bin, rd_bin)
                            /\ Gap(w, rd_bin) = 0 => rd_empty
  BY DEF GrayInv, SeenByReader
<1>4. /\ Gap(wr_bin, rd_bin) \in Nat /\ Gap(wr_bin, r) \in Nat /\ Gap(w, rd_bin) \in Nat
      /\ Half \in Nat \ {0}
  BY <1>1, GapIsNat
<1>5. ASSUME Gray!WrTick PROVE GrayInv' /\ Gray!SamplesAreReal
  <2>1. PICK en \in BOOLEAN : Gray!WrEdge(en)
    BY <1>5 DEF Gray!WrTick
  <2>2. /\ rd_seen' = rd_gray /\ rd_bin' = rd_bin /\ rd_gray' = rd_gray
        /\ rd_empty' = rd_empty /\ wr_seen' = wr_seen
    BY <1>5 DEF Gray!WrTick, Gray!rdVars
  <2>3. /\ wr_bin' \in Gray!Ptr /\ wr_gray' = Gray!to_gray(wr_bin')
        /\ wr_full' \in BOOLEAN /\ (Gap(wr_bin', r) = Half => wr_full') /\ Gap(wr_bin', r) <= Half
        /\ Gap(wr_bin', rd_bin) = Gap(wr_bin, rd_bin) + (IF en THEN 1 ELSE 0)
        /\ Gap(wr_bin', rd_bin) <= Gap(wr_bin', r)
    BY <2>1, <1>2, WrSide
  <2>4. SeenByWriter(wr_bin', rd_bin', wr_full', rd_seen')
    <3>1. Gap(wr_bin', r) \in Nat /\ Gap(wr_bin', rd_bin) \in Nat
      BY <2>3, <1>1, GapIsNat
    <3>2. Gap(wr_bin', rd_bin) <= Half /\ (Gap(wr_bin', rd_bin) = Half => wr_full')
      BY <3>1, <2>3, <1>4
    <3> QED BY <3>1, <3>2, <2>2, <1>1 DEF SeenByWriter
  <2>5. SeenByReader(wr_bin', rd_bin', rd_empty', wr_seen')
    <3>1. Gap(w, rd_bin) <= Gap(wr_bin', rd_bin)
      BY <2>3, <1>3, <1>4
    <3> QED BY <3>1, <2>2, <1>3 DEF SeenByReader
  <2>6. GrayInv'
    BY <2>2, <2>3, <2>4, <2>5, <1>1 DEF GrayInv
  <2>7. Gray!SamplesAreReal
    BY <2>2, <1>1, DecodeEncode DEF Gray!SamplesAreReal
  <2> QED BY <2>6, <2>7
<1>6. ASSUME Gray!RdTick PROVE GrayInv' /\ Gray!SamplesAreReal
  <2>1. PICK en \in BOOLEAN : Gray!RdEdge(en)
    BY <1>6 DEF Gray!RdTick
  <2>2. /\ wr_seen' = wr_gray /\ wr_bin' = wr_bin /\ wr_gray' = wr_gray
        /\ wr_full' = wr_full /\ rd_seen' = rd_seen
    BY <1>6 DEF Gray!RdTick, Gray!wrVars
  <2>3. /\ rd_bin' \in Gray!Ptr /\ rd_gray' = Gray!to_gray(rd_bin')
        /\ rd_empty' \in BOOLEAN /\ (Gap(w, rd_bin') = 0 => rd_empty')
        /\ en => Gap(w, rd_bin) # 0
        /\ Gap(w, rd_bin') = Gap(w, rd_bin) - (IF en THEN 1 ELSE 0)
        /\ Gap(wr_bin, rd_bin') = Gap(wr_bin, rd_bin) - (IF en THEN 1 ELSE 0)
    BY <2>1, <1>3, RdSide
  <2>4. SeenByWriter(wr_bin', rd_bin', wr_full', rd_seen')
    <3>1. Gap(wr_bin, rd_bin') <= Gap(wr_bin, r)
      BY <2>3, <1>2, <1>4
    <3> QED BY <3>1, <2>2, <1>2 DEF SeenByWriter
  <2>5. SeenByReader(wr_bin', rd_bin', rd_empty', wr_seen')
    <3>1. Gap(wr_bin, rd_bin') \in Nat /\ Gap(w, rd_bin') \in Nat
      BY <2>3, <1>1, GapIsNat
    <3>2. Gap(wr_bin, rd_bin') = 0 => rd_empty'
      BY <3>1, <2>3, <1>3, <1>4
    <3> QED BY <3>1, <3>2, <2>2, <1>1 DEF SeenByReader
  <2>6. GrayInv'
    BY <2>2, <2>3, <2>4, <2>5, <1>1 DEF GrayInv
  <2>7. Gray!SamplesAreReal
    BY <2>2, <1>1, DecodeEncode DEF Gray!SamplesAreReal
  <2> QED BY <2>6, <2>7
<1>7. ASSUME Gray!BothTick PROVE GrayInv' /\ Gray!SamplesAreReal
  <2>1. PICK wen \in BOOLEAN, ren \in BOOLEAN : Gray!WrEdge(wen) /\ Gray!RdEdge(ren)
    BY <1>7 DEF Gray!BothTick
  <2>2. /\ wr_bin' = (IF wen THEN Next1(wr_bin) ELSE wr_bin)
        /\ wr_bin' \in Gray!Ptr /\ wr_gray' = Gray!to_gray(wr_bin')
        /\ wr_full' \in BOOLEAN /\ (Gap(wr_bin', r) = Half => wr_full') /\ Gap(wr_bin', r) <= Half
        /\ wen => Gap(wr_bin, r) < Half
        /\ Gap(wr_bin', rd_bin) = Gap(wr_bin, rd_bin) + (IF wen THEN 1 ELSE 0)
        /\ Gap(wr_bin', rd_bin) <= Gap(wr_bin', r)
    BY <2>1, <1>2, WrSide
  <2>3. /\ rd_bin' = (IF ren THEN Next1(rd_bin) ELSE rd_bin)
        /\ rd_bin' \in Gray!Ptr /\ rd_gray' = Gray!to_gray(rd_bin')
        /\ rd_empty' \in BOOLEAN /\ (Gap(w, rd_bin') = 0 => rd_empty')
        /\ ren => Gap(w, rd_bin) # 0
        /\ Gap(w, rd_bin') = Gap(w, rd_bin) - (IF ren THEN 1 ELSE 0)
        /\ Gap(wr_bin, rd_bin') = Gap(wr_bin, rd_bin) - (IF ren THEN 1 ELSE 0)
    BY <2>1, <1>3, RdSide
  <2>4. Gap(wr_bin', rd_bin') = Gap(wr_bin', rd_bin) - (IF ren THEN 1 ELSE 0)
    <3>1. ren => Gap(wr_bin', rd_bin) # 0
      BY <2>2, <2>3, <1>3, <1>4
    <3>2. Gap(wr_bin', rd_bin) # 0 => Gap(wr_bin', Next1(rd_bin)) = Gap(wr_bin', rd_bin) - 1
      BY <2>2, <1>1, GapLaws
    <3>3. Gap(wr_bin', rd_bin) \in Nat
      BY <2>2, <1>1, GapIsNat
    <3> QED BY <3>1, <3>2, <3>3, <2>3
  <2>5. PICK s : (s = rd_bin \/ s = rd_bin') /\ rd_seen' = Gray!to_gray(s) /\ s \in Gray!Ptr
    <3>1. rd_bin' \in {rd_bin, Gray!Inc(rd_bin)}
      BY <2>3, <1>1, PointerMath
    <3>2. rd_seen' \in Gray!Resolved(Gray!to_gray(rd_bin), Gray!to_gray(rd_bin'))
      BY <1>7, <2>3, <1>1 DEF Gray!BothTick
    <3>3. rd_seen' \in {Gray!to_gray(rd_bin), Gray!to_gray(rd_bin')}
      BY <3>1, <3>2, <1>1, SampledIsReal
    <3> QED BY <3>3, <2>3, <1>1
  <2>6. PICK v : (v = wr_bin \/ v = wr_bin') /\ wr_seen' = Gray!to_gray(v) /\ v \in Gray!Ptr
    <3>1. wr_bin' \in {wr_bin, Gray!Inc(wr_bin)}
      BY <2>2, <1>1, PointerMath
    <3>2. wr_seen' \in Gray!Resolved(Gray!to_gray(wr_bin), Gray!to_gray(wr_bin'))
      BY <1>7, <2>2, <1>1 DEF Gray!BothTick
    <3>3. wr_seen' \in {Gray!to_gray(wr_bin), Gray!to_gray(wr_bin')}
      BY <3>1, <3>2, <1>1, SampledIsReal
    <3> QED BY <3>3, <2>2, <1>1
  <2>7. /\ Gap(wr_bin', rd_bin') \in Nat /\ Gap(wr_bin', rd_bin) \in Nat
        /\ Gap(wr_bin, rd_bin') \in Nat /\ Gap(w, rd_bin') \in Nat /\ Gap(wr_bin', r) \in Nat
    BY <2>2, <2>3, <1>1, GapIsNat
  <2>8. SeenByWriter(wr_bin', rd_bin', wr_full', rd_seen')
    <3>1. Gap(wr_bin', rd_bin') <= Gap(wr_bin', s) /\ Gap(wr_bin', s) <= Gap(wr_bin', rd_bin)
      BY <2>4, <2>5, <2>7
    <3>2. Gap(wr_bin', s) \in Nat
      BY <2>5, <2>7
    <3>3. Gap(wr_bin', s) <= Half /\ (Gap(wr_bin', s) = Half => wr_full')
      BY <3>1, <3>2, <2>2, <2>7, <1>4
    <3> QED BY <3>1, <3>3, <2>5 DEF SeenByWriter
  <2>9. SeenByReader(wr_bin', rd_bin', rd_empty', wr_seen')
    <3>1. Gap(v, rd_bin') <= Gap(wr_bin', rd_bin') /\ Gap(v, rd_bin') >= Gap(wr_bin, rd_bin')
      BY <2>2, <2>3, <2>4, <2>6, <2>7, <1>4
    <3>2. Gap(v, rd_bin') \in Nat
      BY <2>6, <2>7
    <3>3. Gap(v, rd_bin') = 0 => rd_empty'
      BY <3>1, <3>2, <2>3, <2>7, <1>3, <1>4
    <3> QED BY <3>1, <3>3, <2>6 DEF SeenByReader
  <2>10. GrayInv'
    BY <2>2, <2>3, <2>8, <2>9 DEF GrayInv
  <2>11. Gray!SamplesAreReal
    BY <2>5, <2>6, DecodeEncode DEF Gray!SamplesAreReal
  <2> QED BY <2>10, <2>11
<1> QED BY <1>5, <1>6, <1>7 DEF Gray!Next

\* The invariant holds at the start, and gives what the flags mean.
LEMMA GrayInitially ==
  ASSUME Doubling, Gray!Init
  PROVE  GrayInv
<1>1. 0 \in Gray!Ptr /\ Half \in Nat \ {0}
  BY Pointers
<1>2. Gap(0, 0) = 0
  BY <1>1, GapLaws
<1>3. /\ wr_bin = 0 /\ rd_bin = 0 /\ rd_empty = TRUE /\ wr_full = FALSE
      /\ wr_gray = Gray!to_gray(0) /\ rd_gray = Gray!to_gray(0)
      /\ wr_seen = Gray!to_gray(0) /\ rd_seen = Gray!to_gray(0)
  BY DEF Gray!Init
<1>4. SeenByWriter(wr_bin, rd_bin, wr_full, rd_seen)
  <2>1. Gap(0, 0) <= Gap(0, 0) /\ Gap(0, 0) <= Half /\ Gap(0, 0) # Half
    BY <1>1, <1>2
  <2> QED BY <2>1, <1>1, <1>3 DEF SeenByWriter
<1>5. SeenByReader(wr_bin, rd_bin, rd_empty, wr_seen)
  <2>1. Gap(0, 0) <= Gap(0, 0)
    BY <1>2
  <2> QED BY <2>1, <1>1, <1>3 DEF SeenByReader
<1> QED BY <1>1, <1>3, <1>4, <1>5 DEF GrayInv

\* The invariant gives the types, and what the flags mean.
LEMMA GrayInvGives ==
  ASSUME Doubling, GrayInv
  PROVE  Gray!TypeOK /\ Gray!FlagsMeanDistances
<1>1. /\ wr_bin \in Gray!Ptr /\ rd_bin \in Gray!Ptr /\ wr_gray = Gray!to_gray(wr_bin)
      /\ rd_gray = Gray!to_gray(rd_bin) /\ wr_full \in BOOLEAN /\ rd_empty \in BOOLEAN
  BY DEF GrayInv
<1>2. PICK r \in Gray!Ptr : /\ rd_seen = Gray!to_gray(r)
                            /\ Gap(wr_bin, rd_bin) <= Gap(wr_bin, r) /\ Gap(wr_bin, r) <= Half
                            /\ Gap(wr_bin, r) = Half => wr_full
  BY DEF GrayInv, SeenByWriter
<1>3. PICK w \in Gray!Ptr : /\ wr_seen = Gray!to_gray(w)
                            /\ Gap(w, rd_bin) <= Gap(wr_bin, rd_bin)
                            /\ Gap(w, rd_bin) = 0 => rd_empty
  BY DEF GrayInv, SeenByReader
<1>4. Gray!TypeOK
  BY <1>1, <1>2, <1>3, GrayBits DEF Gray!TypeOK
<1>5. /\ Gap(wr_bin, rd_bin) \in Nat /\ Gap(wr_bin, r) \in Nat /\ Gap(w, rd_bin) \in Nat
      /\ Half \in Nat \ {0} /\ Gray!Dist(wr_bin, rd_bin) = Gap(wr_bin, rd_bin)
  BY <1>1, GapIsNat, PointerMath
<1>6. Gray!FlagsMeanDistances
  BY <1>2, <1>3, <1>5 DEF Gray!FlagsMeanDistances, Half
<1> QED BY <1>4, <1>6

-----------------------------------------------------------------------------
(* The pulse synchronizer: toggle, the forward chain, toggle_dst and the   *)
(* echo chain are one line, in which a level that left the source follows  *)
(* the one before it.  Since the source waits for the echo, at most one    *)
(* edge is on the line.                                                    *)

PulseSrcZero == toggle = FALSE /\ \A i \in Pulse!Stage : echo_sync[i] = FALSE
PulseDstZero == toggle_dst = FALSE /\ \A i \in Pulse!Stage : fwd_sync[i] = FALSE

\* Where the old level is found, so it is further on.
OneEdge ==
  /\ \A i, j \in Pulse!Stage : i < j /\ fwd_sync[i] # toggle => fwd_sync[j] # toggle
  /\ \A i \in Pulse!Stage : fwd_sync[i] # toggle => toggle_dst # toggle
  /\ toggle_dst # toggle => \A i \in Pulse!Stage : echo_sync[i] # toggle
  /\ \A i, j \in Pulse!Stage : i < j /\ echo_sync[i] # toggle => echo_sync[j] # toggle

\* The resets: one domain stale, the other has had an edge at most; out of both, the
\* registers of a domain in reset are clear, and so is what came from them.
PulsePhases ==
  /\ src_phase = "stale" => dst_phase \in {"stale", "clear"}
  /\ dst_phase = "stale" => src_phase \in {"stale", "clear"}
PulseZeros ==
  /\ src_phase \in {"clear", "seen"} => PulseSrcZero
  /\ dst_phase \in {"clear", "seen"} => PulseDstZero
PulseQuiet ==
  /\ src_phase # "run" => PulseSrcZero /\ PulseDstZero
  /\ dst_phase # "run" => PulseDstZero /\ \A i \in Pulse!Stage : echo_sync[i] = FALSE

PulseInv == Pulse!TypeOK /\ PulsePhases /\ PulseZeros /\ (~Pulse!Stale => OneEdge /\ PulseQuiet)

\* The chain has a first and a last flop, and a predecessor for each but the first.
LEMMA Flops ==
  /\ 1 \in Pulse!Stage /\ SyncStages \in Pulse!Stage
  /\ \A i \in Pulse!Stage : i \in Nat /\ i <= SyncStages /\ 1 <= i
  /\ \A i \in Pulse!Stage : i # 1 => i - 1 \in Pulse!Stage
  BY BenchAssumption DEF Pulse!Stage

\* What one edge, or a reset, does to a chain.
LEMMA ShiftFlops ==
  ASSUME NEW chain \in [Pulse!Stage -> BOOLEAN], NEW d \in BOOLEAN
  PROVE  /\ Pulse!Shift(chain, d) \in [Pulse!Stage -> BOOLEAN]
         /\ Pulse!Shift(chain, d)[1] = d
         /\ \A i \in Pulse!Stage : i # 1 => Pulse!Shift(chain, d)[i] = chain[i - 1]
  BY Flops DEF Pulse!Shift

\* A chain filled with one level.
LEMMA FilledFlops ==
  /\ Pulse!Filled(FALSE) \in [Pulse!Stage -> BOOLEAN]
  /\ \A i \in Pulse!Stage : Pulse!Filled(FALSE)[i] = FALSE
  BY DEF Pulse!Filled

\* What the source does in a step: nothing, a clear in reset, or an edge.
PulseSrcMove(s) ==
  \/ UNCHANGED <<toggle, echo_sync>>
  \/ src_phase # "run" /\ PulseSrcZero'
  \/ /\ src_phase = "run"
     /\ toggle' = toggle \/ echo_sync[SyncStages] = toggle
     /\ echo_sync'[1] = s /\ \A i \in Pulse!Stage : i # 1 => echo_sync'[i] = echo_sync[i - 1]
PulseDstMove(d) ==
  \/ UNCHANGED <<fwd_sync, toggle_dst>>
  \/ dst_phase # "run" /\ PulseDstZero'
  \/ /\ dst_phase = "run"
     /\ toggle_dst' = fwd_sync[SyncStages]
     /\ fwd_sync'[1] = d /\ \A i \in Pulse!Stage : i # 1 => fwd_sync'[i] = fwd_sync[i - 1]
PulseMove ==
  \E s, d \in BOOLEAN :
    /\ PulseSrcMove(s) /\ PulseDstMove(d)
    /\ (s = toggle_dst \/ s = toggle_dst') /\ (d = toggle \/ d = toggle')

\* An edge of a domain is one of its moves, and keeps the types of its registers.
LEMMA PulseSrcEdge ==
  ASSUME Pulse!TypeOK, NEW pulse \in BOOLEAN, NEW clr \in BOOLEAN, NEW s \in BOOLEAN,
         Pulse!SrcEdge(pulse, clr, s)
  PROVE  /\ PulseSrcMove(s)
         /\ toggle' \in BOOLEAN /\ overrun' \in BOOLEAN
         /\ echo_sync' \in [Pulse!Stage -> BOOLEAN]
         /\ src_phase # "run" => PulseSrcZero'
<1>1. toggle \in BOOLEAN /\ overrun \in BOOLEAN /\ echo_sync \in [Pulse!Stage -> BOOLEAN]
  BY DEF Pulse!TypeOK
<1>2. CASE src_phase # "run"
  <2>1. toggle' = FALSE /\ overrun' = FALSE /\ echo_sync' = Pulse!Filled(FALSE)
    BY <1>2 DEF Pulse!SrcEdge
  <2> QED BY <2>1, <1>2, FilledFlops DEF PulseSrcMove, PulseSrcZero
<1>3. CASE src_phase = "run"
  <2>1. /\ toggle' = IF Pulse!Accept(pulse) THEN ~toggle ELSE toggle
        /\ overrun' = (~clr /\ (overrun \/ (pulse /\ Pulse!src_busy)))
        /\ echo_sync' = Pulse!Shift(echo_sync, s)
    BY <1>3 DEF Pulse!SrcEdge
  <2>2. echo_sync' \in [Pulse!Stage -> BOOLEAN] /\ echo_sync'[1] = s
        /\ \A i \in Pulse!Stage : i # 1 => echo_sync'[i] = echo_sync[i - 1]
    BY <2>1, <1>1, ShiftFlops
  <2>3. toggle' = toggle \/ echo_sync[SyncStages] = toggle
    BY <2>1 DEF Pulse!Accept, Pulse!src_busy, Pulse!echo
  <2>4. toggle' \in BOOLEAN
    BY <2>1, <1>1
  <2>5. overrun' \in BOOLEAN
    BY <2>1, Zenon
  <2> QED BY <2>2, <2>3, <2>4, <2>5, <1>3 DEF PulseSrcMove
<1> QED BY <1>2, <1>3

\* An edge of the destination domain is one of its moves.
LEMMA PulseDstEdge ==
  ASSUME Pulse!TypeOK, NEW d \in BOOLEAN, Pulse!DstEdge(d)
  PROVE  /\ PulseDstMove(d)
         /\ toggle_dst' \in BOOLEAN /\ fwd_sync' \in [Pulse!Stage -> BOOLEAN]
         /\ dst_phase # "run" => PulseDstZero'
<1>1. toggle_dst \in BOOLEAN /\ fwd_sync \in [Pulse!Stage -> BOOLEAN]
  BY DEF Pulse!TypeOK
<1>2. CASE dst_phase # "run"
  <2>1. toggle_dst' = FALSE /\ fwd_sync' = Pulse!Filled(FALSE)
    BY <1>2 DEF Pulse!DstEdge
  <2> QED BY <2>1, <1>2, FilledFlops DEF PulseDstMove, PulseDstZero
<1>3. CASE dst_phase = "run"
  <2>1. toggle_dst' = fwd_sync[SyncStages] /\ fwd_sync' = Pulse!Shift(fwd_sync, d)
    BY <1>3 DEF Pulse!DstEdge, Pulse!dst_toggle
  <2>2. fwd_sync' \in [Pulse!Stage -> BOOLEAN] /\ fwd_sync'[1] = d
        /\ \A i \in Pulse!Stage : i # 1 => fwd_sync'[i] = fwd_sync[i - 1]
    BY <2>1, <1>1, ShiftFlops
  <2>3. toggle_dst' \in BOOLEAN
    BY <2>1, <1>1, Flops
  <2> QED BY <2>1, <2>2, <2>3, <1>3 DEF PulseDstMove
<1> QED BY <1>2, <1>3

\* Each tick moves the registers, and the phases of the domains that had the edge.
LEMMA PulseTicks ==
  ASSUME Pulse!TypeOK, Pulse!SrcTick \/ Pulse!DstTick \/ Pulse!BothTick
  PROVE  /\ PulseMove
         /\ Pulse!TypeOK'
         /\ \E a, b \in BOOLEAN : /\ src_phase' = Pulse!NextPhase(src_phase, a, b)
                                  /\ dst_phase' = Pulse!NextPhase(dst_phase, b, a)
                                  /\ a /\ src_phase # "run" => PulseSrcZero'
                                  /\ b /\ dst_phase # "run" => PulseDstZero'
                                  /\ ~a => UNCHANGED <<toggle, echo_sync>>
                                  /\ ~b => UNCHANGED <<fwd_sync, toggle_dst>>
<1>1. /\ toggle \in BOOLEAN /\ overrun \in BOOLEAN /\ echo_sync \in [Pulse!Stage -> BOOLEAN]
      /\ toggle_dst \in BOOLEAN /\ fwd_sync \in [Pulse!Stage -> BOOLEAN]
      /\ src_phase \in Pulse!Phases /\ dst_phase \in Pulse!Phases
  BY DEF Pulse!TypeOK
<1>2. \A p \in Pulse!Phases : \A a, b \in BOOLEAN : Pulse!NextPhase(p, a, b) \in Pulse!Phases
  BY DEF Pulse!Phases, Pulse!NextPhase
<1>3. CASE Pulse!SrcTick
  <2>1. PICK pulse, clr \in BOOLEAN : Pulse!SrcEdge(pulse, clr, toggle_dst)
    BY <1>3 DEF Pulse!SrcTick
  <2>2. /\ src_phase' = Pulse!NextPhase(src_phase, TRUE, FALSE)
        /\ dst_phase' = Pulse!NextPhase(dst_phase, FALSE, TRUE)
        /\ fwd_sync' = fwd_sync /\ toggle_dst' = toggle_dst
    BY <1>3 DEF Pulse!SrcTick, Pulse!dstVars
  <2>3. /\ PulseSrcMove(toggle_dst) /\ toggle' \in BOOLEAN /\ overrun' \in BOOLEAN
        /\ echo_sync' \in [Pulse!Stage -> BOOLEAN] /\ (src_phase # "run" => PulseSrcZero')
    BY <2>1, <1>1, PulseSrcEdge
  <2>4. PulseDstMove(toggle)
    BY <2>2 DEF PulseDstMove
  <2>5. PulseMove
    BY <2>3, <2>4, <1>1 DEF PulseMove
  <2>6. Pulse!TypeOK'
    BY <2>2, <2>3, <1>1, <1>2 DEF Pulse!TypeOK
  <2> QED BY <2>2, <2>3, <2>5, <2>6
<1>4. CASE Pulse!DstTick
  <2>1. Pulse!DstEdge(toggle)
    BY <1>4 DEF Pulse!DstTick
  <2>2. /\ src_phase' = Pulse!NextPhase(src_phase, FALSE, TRUE)
        /\ dst_phase' = Pulse!NextPhase(dst_phase, TRUE, FALSE)
        /\ toggle' = toggle /\ echo_sync' = echo_sync /\ overrun' = overrun
    BY <1>4 DEF Pulse!DstTick, Pulse!srcVars
  <2>3. /\ PulseDstMove(toggle) /\ toggle_dst' \in BOOLEAN
        /\ fwd_sync' \in [Pulse!Stage -> BOOLEAN] /\ (dst_phase # "run" => PulseDstZero')
    BY <2>1, <1>1, PulseDstEdge
  <2>4. PulseSrcMove(toggle_dst)
    BY <2>2 DEF PulseSrcMove
  <2>5. PulseMove
    BY <2>3, <2>4, <1>1 DEF PulseMove
  <2>6. Pulse!TypeOK'
    BY <2>2, <2>3, <1>1, <1>2 DEF Pulse!TypeOK
  <2> QED BY <2>2, <2>3, <2>5, <2>6
<1>5. CASE Pulse!BothTick
  <2>1. PICK pulse, clr, s, d \in BOOLEAN :
          /\ Pulse!SrcEdge(pulse, clr, s) /\ Pulse!DstEdge(d)
          /\ s \in {toggle_dst, toggle_dst'} /\ d \in {toggle, toggle'}
    BY <1>5 DEF Pulse!BothTick
  <2>2. /\ src_phase' = Pulse!NextPhase(src_phase, TRUE, TRUE)
        /\ dst_phase' = Pulse!NextPhase(dst_phase, TRUE, TRUE)
    BY <1>5 DEF Pulse!BothTick
  <2>3. /\ PulseSrcMove(s) /\ toggle' \in BOOLEAN /\ overrun' \in BOOLEAN
        /\ echo_sync' \in [Pulse!Stage -> BOOLEAN] /\ (src_phase # "run" => PulseSrcZero')
    BY <2>1, PulseSrcEdge
  <2>4. /\ PulseDstMove(d) /\ toggle_dst' \in BOOLEAN
        /\ fwd_sync' \in [Pulse!Stage -> BOOLEAN] /\ (dst_phase # "run" => PulseDstZero')
    BY <2>1, PulseDstEdge
  <2>5. PulseMove
    BY <2>1, <2>3, <2>4 DEF PulseMove
  <2>6. Pulse!TypeOK'
    BY <2>2, <2>3, <2>4, <1>1, <1>2 DEF Pulse!TypeOK
  <2> QED BY <2>2, <2>3, <2>4, <2>5, <2>6
<1> QED BY <1>3, <1>4, <1>5

\* The phases a clock step can lead to.
LEMMA PulsePhaseStep ==
  ASSUME Pulse!TypeOK, PulsePhases, NEW a \in BOOLEAN, NEW b \in BOOLEAN,
         src_phase' = Pulse!NextPhase(src_phase, a, b),
         dst_phase' = Pulse!NextPhase(dst_phase, b, a)
  PROVE  /\ PulsePhases'
         /\ src_phase' # "run" <=> src_phase # "run"
         /\ dst_phase' # "run" <=> dst_phase # "run"
         /\ src_phase' \in {"clear", "seen"} =>
              src_phase \in {"clear", "seen"} \/ (src_phase = "stale" /\ a)
         /\ dst_phase' \in {"clear", "seen"} =>
              dst_phase \in {"clear", "seen"} \/ (dst_phase = "stale" /\ b)
         /\ src_phase \in {"clear", "seen"} => src_phase' \in {"clear", "seen"}
         /\ dst_phase \in {"clear", "seen"} => dst_phase' \in {"clear", "seen"}
         /\ src_phase = "stale" => (src_phase' = IF a THEN "clear" ELSE "stale")
         /\ dst_phase = "stale" => (dst_phase' = IF b THEN "clear" ELSE "stale")
  BY DEF Pulse!TypeOK, Pulse!Phases, PulsePhases, Pulse!NextPhase

\* While neither domain is stale, a move keeps the line to one edge.
LEMMA OneEdgeStep ==
  ASSUME Pulse!TypeOK, Pulse!TypeOK', OneEdge, PulseQuiet, PulseMove
  PROVE  /\ OneEdge'
         /\ toggle # toggle_dst /\ toggle' = toggle_dst' => Pulse!dst_pulse
         /\ src_phase # "run" => PulseSrcZero' /\ PulseDstZero'
         /\ dst_phase # "run" => PulseDstZero' /\ \A i \in Pulse!Stage : echo_sync'[i] = FALSE
<1>1. PICK s, d \in BOOLEAN :
        /\ PulseSrcMove(s) /\ PulseDstMove(d)
        /\ (s = toggle_dst \/ s = toggle_dst') /\ (d = toggle \/ d = toggle')
  BY DEF PulseMove
<1>2. /\ toggle \in BOOLEAN /\ toggle' \in BOOLEAN /\ toggle_dst \in BOOLEAN /\ toggle_dst' \in BOOLEAN
      /\ \A i \in Pulse!Stage : /\ fwd_sync[i] \in BOOLEAN /\ fwd_sync'[i] \in BOOLEAN
                                /\ echo_sync[i] \in BOOLEAN /\ echo_sync'[i] \in BOOLEAN
  BY DEF Pulse!TypeOK
<1>3. src_phase # "run" => PulseSrcZero' /\ PulseDstZero'
  <2> SUFFICES ASSUME src_phase # "run" PROVE PulseSrcZero' /\ PulseDstZero'
    OBVIOUS
  <2>1. PulseSrcZero /\ PulseDstZero
    BY DEF PulseQuiet
  <2>2. PulseSrcZero'
    BY <2>1, <1>1 DEF PulseSrcMove, PulseSrcZero
  <2>3. d = FALSE
    BY <2>1, <2>2, <1>1 DEF PulseSrcZero
  <2>4. PulseDstZero'
    BY <2>1, <2>3, <1>1, Flops DEF PulseDstMove, PulseDstZero
  <2> QED BY <2>2, <2>4
<1>4. dst_phase # "run" => PulseDstZero' /\ \A i \in Pulse!Stage : echo_sync'[i] = FALSE
  <2> SUFFICES ASSUME dst_phase # "run"
               PROVE  PulseDstZero' /\ \A i \in Pulse!Stage : echo_sync'[i] = FALSE
    OBVIOUS
  <2>1. PulseDstZero /\ \A i \in Pulse!Stage : echo_sync[i] = FALSE
    BY DEF PulseQuiet
  <2>2. PulseDstZero'
    BY <2>1, <1>1 DEF PulseDstMove, PulseDstZero
  <2>3. s = FALSE
    BY <2>1, <2>2, <1>1 DEF PulseDstZero
  <2>4. \A i \in Pulse!Stage : echo_sync'[i] = FALSE
    BY <2>1, <2>3, <1>1, Flops DEF PulseSrcMove, PulseSrcZero
  <2> QED BY <2>2, <2>4
<1>5. CASE src_phase # "run"
  BY <1>5, <1>3, <1>4 DEF OneEdge, PulseQuiet, PulseSrcZero, PulseDstZero
<1>6. CASE src_phase = "run" /\ dst_phase # "run"
  <2>1. /\ toggle_dst = FALSE /\ toggle_dst' = FALSE /\ echo_sync[SyncStages] = FALSE
        /\ \A i \in Pulse!Stage : fwd_sync'[i] = FALSE /\ echo_sync'[i] = FALSE
    BY <1>6, <1>4, Flops DEF PulseQuiet, PulseDstZero
  <2>2. OneEdge'
    BY <2>1 DEF OneEdge
  <2>3. toggle' = toggle \/ echo_sync[SyncStages] = toggle
    BY <1>1, <1>6 DEF PulseSrcMove
  <2>4. ~(toggle # toggle_dst /\ toggle' = toggle_dst')
    BY <2>1, <2>3
  <2> QED BY <2>2, <2>4, <1>4, <1>6
<1>7. CASE src_phase = "run" /\ dst_phase = "run"
  <2>1. \/ echo_sync' = echo_sync /\ toggle' = toggle
        \/ /\ echo_sync'[1] = s /\ \A i \in Pulse!Stage : i # 1 => echo_sync'[i] = echo_sync[i - 1]
           /\ toggle' = toggle \/ echo_sync[SyncStages] = toggle
    BY <1>1, <1>7 DEF PulseSrcMove
  <2>2. \/ fwd_sync' = fwd_sync /\ toggle_dst' = toggle_dst
        \/ /\ fwd_sync'[1] = d /\ \A i \in Pulse!Stage : i # 1 => fwd_sync'[i] = fwd_sync[i - 1]
           /\ toggle_dst' = fwd_sync[SyncStages]
    BY <1>1, <1>7 DEF PulseDstMove
  <2>3. CASE toggle' = toggle
    <3>1. d = toggle
      BY <1>1, <2>3
    <3>2. \A i, j \in Pulse!Stage : i < j /\ fwd_sync'[i] # toggle => fwd_sync'[j] # toggle
      BY <3>1, <2>2, Flops DEF OneEdge
    <3>3. toggle_dst' # toggle => toggle_dst # toggle
      BY <2>2, Flops DEF OneEdge
    <3>4. \A i \in Pulse!Stage : fwd_sync'[i] # toggle => toggle_dst' # toggle
      <4>1. \A i \in Pulse!Stage : fwd_sync[i] # toggle => fwd_sync[SyncStages] # toggle
        <5>1. \A i \in Pulse!Stage : i = SyncStages \/ i < SyncStages
          BY Flops, BenchAssumption
        <5> QED BY <5>1, Flops DEF OneEdge
      <4> QED BY <4>1, <3>1, <2>2, Flops DEF OneEdge
    <3>5. s # toggle => toggle_dst # toggle
      BY <3>3, <1>1
    <3>6. toggle_dst' # toggle => \A i \in Pulse!Stage : echo_sync'[i] # toggle
      <4>1. toggle_dst' # toggle => s # toggle
        BY <3>3, <1>1
      <4> QED BY <4>1, <3>3, <2>1, Flops DEF OneEdge
    <3>7. \A i, j \in Pulse!Stage : i < j /\ echo_sync'[i] # toggle => echo_sync'[j] # toggle
      BY <3>5, <2>1, Flops DEF OneEdge
    <3>8. OneEdge'
      BY <3>2, <3>4, <3>6, <3>7, <2>3 DEF OneEdge
    <3>9. toggle # toggle_dst /\ toggle' = toggle_dst' => Pulse!dst_pulse
      BY <2>2, <2>3 DEF Pulse!dst_pulse, Pulse!dst_toggle
    <3> QED BY <3>8, <3>9, <1>3, <1>4
  <2>4. CASE toggle' # toggle
    <3>1. echo_sync[SyncStages] = toggle
      BY <2>1, <2>4
    <3>2. toggle_dst = toggle /\ \A i \in Pulse!Stage : fwd_sync[i] = toggle /\ echo_sync[i] = toggle
      <4>1. \A i \in Pulse!Stage : i = SyncStages \/ i < SyncStages
        BY Flops, BenchAssumption
      <4> QED BY <4>1, <3>1, Flops DEF OneEdge
    <3>3. toggle_dst' = toggle /\ s = toggle
      BY <3>2, <2>2, <1>1, Flops
    <3>4. \A i \in Pulse!Stage : echo_sync'[i] = toggle
      BY <3>2, <3>3, <2>1, Flops
    <3>5. \A i \in Pulse!Stage : i # 1 => fwd_sync'[i] = toggle
      BY <3>2, <2>2, Flops
    <3>6. \A i, j \in Pulse!Stage : i < j => j # 1
      BY Flops
    <3>7. OneEdge'
      BY <3>3, <3>4, <3>5, <3>6, <2>4 DEF OneEdge
    <3> QED BY <3>2, <3>7, <1>3, <1>4
  <2> QED BY <2>3, <2>4
<1> QED BY <1>5, <1>6, <1>7

\* An edge of the source while the other domain is in reset, and the other way round,
\* leaves the line without an edge.
LEMMA PulseStep ==
  ASSUME PulseInv, Pulse!Next
  PROVE  /\ PulseInv'
         /\ Pulse!in_flight # << >> /\ Pulse!in_flight' = << >> =>
              Pulse!dst_pulse \/ Pulse!Stale'
<1>1. /\ Pulse!TypeOK /\ PulsePhases /\ PulseZeros /\ (~Pulse!Stale => OneEdge /\ PulseQuiet)
      /\ src_phase \in Pulse!Phases /\ dst_phase \in Pulse!Phases
  BY DEF PulseInv, Pulse!TypeOK
<1>2. CASE Pulse!SrcTick \/ Pulse!DstTick \/ Pulse!BothTick
  <2>1. PulseMove /\ Pulse!TypeOK'
    BY <1>1, <1>2, PulseTicks
  <2>2. PICK a, b \in BOOLEAN :
          /\ src_phase' = Pulse!NextPhase(src_phase, a, b)
          /\ dst_phase' = Pulse!NextPhase(dst_phase, b, a)
          /\ a /\ src_phase # "run" => PulseSrcZero'
          /\ b /\ dst_phase # "run" => PulseDstZero'
          /\ ~a => UNCHANGED <<toggle, echo_sync>>
          /\ ~b => UNCHANGED <<fwd_sync, toggle_dst>>
    BY <1>1, <1>2, PulseTicks
  <2>3. /\ PulsePhases'
        /\ src_phase' # "run" <=> src_phase # "run"
        /\ dst_phase' # "run" <=> dst_phase # "run"
        /\ src_phase' \in {"clear", "seen"} =>
             src_phase \in {"clear", "seen"} \/ (src_phase = "stale" /\ a)
        /\ dst_phase' \in {"clear", "seen"} =>
             dst_phase \in {"clear", "seen"} \/ (dst_phase = "stale" /\ b)
        /\ src_phase \in {"clear", "seen"} => src_phase' \in {"clear", "seen"}
        /\ dst_phase \in {"clear", "seen"} => dst_phase' \in {"clear", "seen"}
        /\ src_phase = "stale" => (src_phase' = IF a THEN "clear" ELSE "stale")
        /\ dst_phase = "stale" => (dst_phase' = IF b THEN "clear" ELSE "stale")
    BY <1>1, <2>2, PulsePhaseStep
  <2>4. PulseZeros'
    <3>1. ASSUME src_phase' \in {"clear", "seen"} PROVE PulseSrcZero'
      <4>1. CASE a
        BY <4>1, <3>1, <2>2, <2>3
      <4>2. CASE ~a
        <5>1. src_phase \in {"clear", "seen"}
          BY <4>2, <3>1, <2>3
        <5> QED BY <5>1, <4>2, <2>2, <1>1 DEF PulseZeros, PulseSrcZero
      <4> QED BY <4>1, <4>2
    <3>2. ASSUME dst_phase' \in {"clear", "seen"} PROVE PulseDstZero'
      <4>1. CASE b
        BY <4>1, <3>2, <2>2, <2>3
      <4>2. CASE ~b
        <5>1. dst_phase \in {"clear", "seen"}
          BY <4>2, <3>2, <2>3
        <5> QED BY <5>1, <4>2, <2>2, <1>1 DEF PulseZeros, PulseDstZero
      <4> QED BY <4>1, <4>2
    <3> QED BY <3>1, <3>2 DEF PulseZeros
  <2>5. CASE Pulse!Stale
    <3>1. Pulse!in_flight = << >>
      BY <2>5 DEF Pulse!in_flight
    <3>2. ASSUME ~Pulse!Stale' PROVE OneEdge' /\ PulseQuiet'
      <4>1. src_phase' # "stale" /\ dst_phase' # "stale"
        BY <3>2 DEF Pulse!Stale
      <4>2. src_phase' \in {"clear", "seen"} /\ dst_phase' \in {"clear", "seen"}
        BY <4>1, <2>3, <2>5, <1>1 DEF Pulse!Stale, PulsePhases
      <4>3. PulseSrcZero' /\ PulseDstZero'
        BY <4>2, <2>4 DEF PulseZeros
      <4> QED BY <4>3 DEF OneEdge, PulseQuiet, PulseSrcZero, PulseDstZero
    <3> QED BY <2>1, <2>3, <2>4, <3>1, <3>2 DEF PulseInv
  <2>6. CASE ~Pulse!Stale
    <3>1. OneEdge /\ PulseQuiet
      BY <1>1, <2>6
    <3>2. /\ OneEdge'
          /\ toggle # toggle_dst /\ toggle' = toggle_dst' => Pulse!dst_pulse
          /\ src_phase # "run" => PulseSrcZero' /\ PulseDstZero'
          /\ dst_phase # "run" => PulseDstZero' /\ \A i \in Pulse!Stage : echo_sync'[i] = FALSE
      BY <3>1, <2>1, <1>1, OneEdgeStep
    <3>3. PulseQuiet'
      BY <3>2, <2>3 DEF PulseQuiet
    <3>4. Pulse!in_flight # << >> /\ Pulse!in_flight' = << >> => Pulse!dst_pulse \/ Pulse!Stale'
      <4>1. Pulse!in_flight # << >> => toggle # toggle_dst
        BY DEF Pulse!in_flight
      <4>2. Pulse!in_flight' = << >> => toggle' = toggle_dst' \/ Pulse!Stale'
        BY DEF Pulse!in_flight
      <4> QED BY <4>1, <4>2, <3>2
    <3> QED BY <2>1, <2>3, <2>4, <3>2, <3>3, <3>4 DEF PulseInv
  <2> QED BY <2>5, <2>6
<1>3. CASE Pulse!AssertReset
  <2>1. src_phase' = "stale" /\ dst_phase' = "stale" /\ UNCHANGED <<Pulse!srcVars, Pulse!dstVars>>
    BY <1>3 DEF Pulse!AssertReset
  <2>2. Pulse!Stale' /\ PulsePhases' /\ PulseZeros'
    BY <2>1 DEF Pulse!Stale, PulsePhases, PulseZeros
  <2>3. Pulse!TypeOK'
    BY <2>1, <1>1 DEF Pulse!TypeOK, Pulse!Phases, Pulse!srcVars, Pulse!dstVars
  <2> QED BY <2>2, <2>3 DEF PulseInv
<1>4. CASE Pulse!ReleaseSrc \/ Pulse!ReleaseDst
  <2>1. /\ UNCHANGED <<toggle, overrun, echo_sync, fwd_sync, toggle_dst>>
        /\ \/ src_phase = "seen" /\ src_phase' = "run" /\ dst_phase' = dst_phase
           \/ dst_phase = "seen" /\ dst_phase' = "run" /\ src_phase' = src_phase
    BY <1>4 DEF Pulse!ReleaseSrc, Pulse!ReleaseDst, Pulse!MayRelease, Pulse!srcVars, Pulse!dstVars
  <2>2. ~Pulse!Stale /\ ~Pulse!Stale' /\ PulsePhases'
    BY <2>1, <1>1 DEF Pulse!Stale, PulsePhases
  <2>3. PulseZeros' /\ PulseQuiet' /\ OneEdge'
    BY <2>1, <2>2, <1>1 DEF PulseZeros, PulseQuiet, OneEdge, PulseSrcZero, PulseDstZero
  <2>4. Pulse!TypeOK'
    BY <2>1, <1>1 DEF Pulse!TypeOK, Pulse!Phases
  <2>5. Pulse!in_flight' = Pulse!in_flight
    BY <2>1, <2>2 DEF Pulse!in_flight
  <2> QED BY <2>2, <2>3, <2>4, <2>5 DEF PulseInv
<1> QED BY <1>2, <1>3, <1>4 DEF Pulse!Next

\* The invariant holds at the start, and gives what a free source may rely on.
LEMMA PulseInitially ==
  ASSUME Pulse!Init
  PROVE  PulseInv /\ Pulse!in_flight = << >>
<1>1. Pulse!Stale
  BY DEF Pulse!Init, Pulse!Stale
<1> QED BY <1>1, FilledFlops DEF Pulse!Init, PulseInv, PulsePhases, PulseZeros, Pulse!TypeOK,
             Pulse!Phases, Pulse!in_flight

\* The invariant gives the types, and what a free source may count on.
LEMMA PulseInvGives ==
  ASSUME PulseInv
  PROVE  Pulse!TypeOK /\ Pulse!BusyCoversStrobe
<1>1. ASSUME ~Pulse!Stale, ~Pulse!src_busy PROVE ~Pulse!dst_pulse /\ toggle_dst = toggle
  <2>1. OneEdge /\ echo_sync[SyncStages] = toggle
    BY <1>1 DEF PulseInv, Pulse!src_busy, Pulse!echo
  <2>2. toggle_dst = toggle /\ fwd_sync[SyncStages] = toggle
    BY <2>1, Flops DEF OneEdge
  <2> QED BY <2>2 DEF Pulse!dst_pulse, Pulse!dst_toggle
<1> QED BY <1>1 DEF PulseInv, Pulse!BusyCoversStrobe

\* Whatever the step, the channel's one place is filled, emptied or left as it is.
LEMMA PulseChannelStep == [Pulse!Channel!Next]_Pulse!in_flight
<1>1. Pulse!in_flight \in {<< >>, <<Event>>} /\ Pulse!in_flight' \in {<< >>, <<Event>>}
  BY DEF Pulse!in_flight
<1>2. CASE Pulse!in_flight' = << >>
  BY <1>2 DEF Pulse!Channel!Next, Pulse!Channel!Clear
<1>3. CASE Pulse!in_flight = << >> /\ Pulse!in_flight' = <<Event>>
  <2>1. Len(<< >>) < 1 /\ <<Event>> = Append(<< >>, Event)
    BY EmptySeq
  <2>2. Pulse!Channel!Put
    BY <1>3, <2>1 DEF Pulse!Channel!Put
  <2> QED BY <2>2 DEF Pulse!Channel!Next
<1> QED BY <1>1, <1>2, <1>3

-----------------------------------------------------------------------------
(* The types of the handshake, whichever domain is reset alone.            *)

\* The handshake's chains are those of the pulse synchronizer.
LEMMA HandFlops ==
  /\ SyncStages \in Hand!Stage
  /\ Hand!Filled(FALSE) \in [Hand!Stage -> BOOLEAN]
  /\ \A chain \in [Hand!Stage -> BOOLEAN], d \in BOOLEAN :
       Hand!Shift(chain, d) \in [Hand!Stage -> BOOLEAN]
<1>1. SyncStages \in Hand!Stage /\ \A i \in Hand!Stage : i # 1 => i - 1 \in Hand!Stage
  BY BenchAssumption DEF Hand!Stage
<1> QED BY <1>1 DEF Hand!Filled, Hand!Shift

\* An edge of a domain keeps the types of its registers.
LEMMA HandSrcEdge ==
  ASSUME Hand!TypeOK, NEW offer \in Hand!Offers, NEW a \in BOOLEAN, Hand!SrcEdge(offer, a)
  PROVE  /\ src_state' \in {"IDLE", "REQ", "RELEASE"} /\ req' \in BOOLEAN
         /\ ack_sync' \in [Hand!Stage -> BOOLEAN] /\ src_data' \in Hand!Offers
<1>1. ack_sync' = Hand!Filled(FALSE) \/ ack_sync' = Hand!Shift(ack_sync, a)
  BY DEF Hand!SrcEdge
<1>2. ack_sync \in [Hand!Stage -> BOOLEAN] /\ src_data \in Hand!Offers /\ req \in BOOLEAN
      /\ src_state \in {"IDLE", "REQ", "RELEASE"}
  BY DEF Hand!TypeOK
<1>3. ack_sync' \in [Hand!Stage -> BOOLEAN]
  BY <1>1, <1>2, HandFlops
<1>4. src_state' \in {"IDLE", "REQ", "RELEASE"} /\ req' \in BOOLEAN
  BY <1>2 DEF Hand!SrcEdge, Hand!SrcFsm
<1>5. src_data' \in Hand!Offers
  BY <1>2 DEF Hand!SrcEdge
<1> QED BY <1>3, <1>4, <1>5

\* An edge of the destination keeps the types of its registers.
LEMMA HandDstEdge ==
  ASSUME Hand!TypeOK, NEW r \in BOOLEAN, NEW w \in Hand!Offers, Hand!DstEdge(r, w)
  PROVE  /\ ack' \in BOOLEAN /\ capture' \in BOOLEAN
         /\ req_sync' \in [Hand!Stage -> BOOLEAN] /\ dst_data' \in Hand!Offers
<1>1. ack \in BOOLEAN /\ req_sync \in [Hand!Stage -> BOOLEAN] /\ dst_data \in Hand!Offers
  BY DEF Hand!TypeOK
<1>2. Hand!req_dst \in BOOLEAN /\ Hand!dst_capture \in BOOLEAN
  BY <1>1, HandFlops DEF Hand!req_dst, Hand!dst_capture
<1>3. req_sync' = Hand!Filled(FALSE) \/ req_sync' = Hand!Shift(req_sync, r)
  BY DEF Hand!DstEdge
<1>4. req_sync' \in [Hand!Stage -> BOOLEAN]
  BY <1>1, <1>3, HandFlops
<1>5. ack' \in BOOLEAN /\ capture' \in BOOLEAN
  BY <1>1, <1>2, Zenon DEF Hand!DstEdge
<1>6. dst_data' \in Hand!Offers
  BY <1>1 DEF Hand!DstEdge
<1> QED BY <1>4, <1>5, <1>6

\* A step of the handshake keeps its types.
LEMMA HandTypeStep ==
  ASSUME Hand!TypeOK, Hand!Next
  PROVE  Hand!TypeOK'
<1>1. /\ src_state \in {"IDLE", "REQ", "RELEASE"} /\ req \in BOOLEAN /\ ack \in BOOLEAN
      /\ capture \in BOOLEAN /\ ack_sync \in [Hand!Stage -> BOOLEAN]
      /\ req_sync \in [Hand!Stage -> BOOLEAN] /\ src_data \in Hand!Offers
      /\ dst_data \in Hand!Offers /\ h_src_phase \in Hand!Phases /\ h_dst_phase \in Hand!Phases
  BY DEF Hand!TypeOK
<1>2. \A p \in Hand!Phases : \A a, b \in BOOLEAN : Hand!NextPhase(p, a, b) \in Hand!Phases
  BY DEF Hand!Phases, Hand!NextPhase
<1>7. owed' \in Seq(Hand!Offers)
  <2>1. owed' = << >> \/ owed' = owed
    BY DEF Hand!Next, Hand!SrcTick, Hand!DstTick, Hand!BothTick, Hand!Books,
           Hand!AssertReset, Hand!ReleaseSrc, Hand!ReleaseDst
  <2>2. << >> \in Seq(Hand!Offers) /\ owed \in Seq(Hand!Offers)
    BY DEF Hand!TypeOK
  <2> QED BY <2>1, <2>2
<1>3. CASE Hand!SrcTick
  <2>1. PICK offer \in Hand!Offers : Hand!SrcEdge(offer, ack)
    BY <1>3 DEF Hand!SrcTick
  <2>2. /\ h_src_phase' = Hand!NextPhase(h_src_phase, TRUE, FALSE)
        /\ h_dst_phase' = Hand!NextPhase(h_dst_phase, FALSE, TRUE)
        /\ UNCHANGED <<req_sync, ack, capture, dst_data>>
    BY <1>3 DEF Hand!SrcTick, Hand!dstVars
  <2>3. /\ src_state' \in {"IDLE", "REQ", "RELEASE"} /\ req' \in BOOLEAN
        /\ ack_sync' \in [Hand!Stage -> BOOLEAN] /\ src_data' \in Hand!Offers
    BY <2>1, <1>1, HandSrcEdge
  <2> QED BY <2>2, <2>3, <1>1, <1>2, <1>7 DEF Hand!TypeOK
<1>4. CASE Hand!DstTick
  <2>1. Hand!DstEdge(req, src_data)
    BY <1>4 DEF Hand!DstTick
  <2>2. /\ h_src_phase' = Hand!NextPhase(h_src_phase, FALSE, TRUE)
        /\ h_dst_phase' = Hand!NextPhase(h_dst_phase, TRUE, FALSE)
        /\ UNCHANGED <<src_state, req, src_data, ack_sync>>
    BY <1>4 DEF Hand!DstTick, Hand!srcVars
  <2>3. /\ ack' \in BOOLEAN /\ capture' \in BOOLEAN
        /\ req_sync' \in [Hand!Stage -> BOOLEAN] /\ dst_data' \in Hand!Offers
    BY <2>1, <1>1, HandDstEdge
  <2> QED BY <2>2, <2>3, <1>1, <1>2, <1>7 DEF Hand!TypeOK
<1>5. CASE Hand!BothTick
  <2>1. PICK offer \in Hand!Offers, a \in BOOLEAN, r \in BOOLEAN, w \in Hand!Offers :
          Hand!SrcEdge(offer, a) /\ Hand!DstEdge(r, w)
    BY <1>5 DEF Hand!BothTick
  <2>2. /\ h_src_phase' = Hand!NextPhase(h_src_phase, TRUE, TRUE)
        /\ h_dst_phase' = Hand!NextPhase(h_dst_phase, TRUE, TRUE)
    BY <1>5 DEF Hand!BothTick
  <2>3. /\ src_state' \in {"IDLE", "REQ", "RELEASE"} /\ req' \in BOOLEAN
        /\ ack_sync' \in [Hand!Stage -> BOOLEAN] /\ src_data' \in Hand!Offers
    BY <2>1, HandSrcEdge
  <2>4. /\ ack' \in BOOLEAN /\ capture' \in BOOLEAN
        /\ req_sync' \in [Hand!Stage -> BOOLEAN] /\ dst_data' \in Hand!Offers
    BY <2>1, HandDstEdge
  <2> QED BY <2>2, <2>3, <2>4, <1>1, <1>2, <1>7 DEF Hand!TypeOK
<1>6. CASE Hand!AssertReset \/ Hand!ReleaseSrc \/ Hand!ReleaseDst
  <2>1. UNCHANGED <<src_state, req, src_data, ack_sync, req_sync, ack, capture, dst_data>>
    BY <1>6 DEF Hand!AssertReset, Hand!ReleaseSrc, Hand!ReleaseDst, Hand!srcVars, Hand!dstVars
  <2>2. h_src_phase' \in Hand!Phases /\ h_dst_phase' \in Hand!Phases
    BY <1>6, <1>1 DEF Hand!AssertReset, Hand!ReleaseSrc, Hand!ReleaseDst, Hand!Phases
  <2> QED BY <2>1, <2>2, <1>1, <1>7 DEF Hand!TypeOK
<1> QED BY <1>3, <1>4, <1>5, <1>6 DEF Hand!Next

\* The handshake starts with its types.
LEMMA HandInitially ==
  ASSUME Hand!Init
  PROVE  Hand!TypeOK
<1>1. owed \in Seq(Hand!Offers)
  BY DEF Hand!Init
<1> QED BY <1>1, HandFlops DEF Hand!Init, Hand!TypeOK, Hand!Phases, Hand!Offers

-----------------------------------------------------------------------------
(* The bench: the three crossings, one of which runs.                      *)

\* All three crossings are sound.
CrossInv == GrayInv /\ PulseInv /\ Hand!TypeOK

\* A crossing at rest keeps what it has.
LEMMA GrayRests == ASSUME GrayInv, UNCHANGED grayVars PROVE GrayInv' /\ Gray!SamplesAreReal
<1>1. /\ wr_bin' = wr_bin /\ wr_gray' = wr_gray /\ wr_full' = wr_full /\ rd_seen' = rd_seen
      /\ rd_bin' = rd_bin /\ rd_gray' = rd_gray /\ rd_empty' = rd_empty /\ wr_seen' = wr_seen
  BY DEF grayVars
<1>2. GrayInv'
  BY <1>1 DEF GrayInv
<1>3. Gray!SamplesAreReal
  BY <1>1 DEF Gray!SamplesAreReal
<1> QED BY <1>2, <1>3

\* A pulse crossing at rest keeps what it has.
LEMMA PulseRests ==
  ASSUME PulseInv, UNCHANGED pulseVars
  PROVE  PulseInv' /\ Pulse!in_flight' = Pulse!in_flight
<1>1. /\ src_phase' = src_phase /\ toggle' = toggle /\ overrun' = overrun
      /\ echo_sync' = echo_sync /\ dst_phase' = dst_phase /\ fwd_sync' = fwd_sync
      /\ toggle_dst' = toggle_dst
  BY DEF pulseVars
<1>2. PulseInv'
  BY <1>1 DEF PulseInv, Pulse!TypeOK, PulsePhases, PulseZeros, OneEdge, PulseQuiet,
     PulseSrcZero, PulseDstZero, Pulse!Stale
<1>3. Pulse!in_flight' = Pulse!in_flight
  BY <1>1 DEF Pulse!in_flight, Pulse!Stale
<1> QED BY <1>2, <1>3

\* A handshake at rest keeps its types.
LEMMA HandRests == ASSUME Hand!TypeOK, UNCHANGED handVars PROVE Hand!TypeOK'
<1>1. /\ h_src_phase' = h_src_phase /\ src_state' = src_state /\ req' = req
      /\ src_data' = src_data /\ ack_sync' = ack_sync /\ h_dst_phase' = h_dst_phase
      /\ req_sync' = req_sync /\ ack' = ack /\ capture' = capture /\ dst_data' = dst_data
      /\ owed' = owed
  BY DEF handVars
<1> QED BY <1>1 DEF Hand!TypeOK

\* An edge of the bench, as the crossings see it.
LEMMA CrossStep ==
  ASSUME Doubling, CrossInv, BenchNext
  PROVE  /\ CrossInv' /\ Gray!SamplesAreReal
         /\ Pulse!in_flight # << >> /\ Pulse!in_flight' = << >> =>
              Pulse!dst_pulse \/ Pulse!Stale'
<1>1. GrayInv /\ PulseInv /\ Hand!TypeOK
  BY DEF CrossInv
<1>2. \/ UNCHANGED grayVars /\ UNCHANGED pulseVars /\ UNCHANGED handVars
      \/ UNCHANGED pulseVars /\ UNCHANGED handVars /\ Gray!Next
      \/ UNCHANGED grayVars /\ UNCHANGED handVars /\ Pulse!Next
      \/ UNCHANGED grayVars /\ UNCHANGED pulseVars /\ Hand!Next
  <2>1. CASE \/ FifoRest \/ ElasticRest \/ PipeRest \/ StreamingRest \/ LoopRest
    BY <2>1 DEF FifoRest, ElasticRest, PipeRest, StreamingRest, LoopRest, crossVars
  <2>2. CASE GrayRest /\ Gray!Next
    BY <2>2 DEF GrayRest
  <2>3. CASE PulseRest /\ Pulse!Next
    BY <2>3 DEF PulseRest
  <2>4. CASE HandRest /\ Hand!Next
    BY <2>4 DEF HandRest
  <2> QED BY <2>1, <2>2, <2>3, <2>4
          DEF BenchNext, FifoFlow, ElasticFlow, PipeFlow, LoopFlow, Streaming, StreamReset
<1>3. GrayInv' /\ Gray!SamplesAreReal
  <2>1. CASE UNCHANGED grayVars
    BY <2>1, <1>1, GrayRests
  <2>2. CASE Gray!Next
    BY <2>2, <1>1, GrayStep
  <2> QED BY <2>1, <2>2, <1>2
<1>4. /\ PulseInv'
      /\ Pulse!in_flight # << >> /\ Pulse!in_flight' = << >> => Pulse!dst_pulse \/ Pulse!Stale'
  <2>1. CASE UNCHANGED pulseVars
    BY <2>1, <1>1, PulseRests
  <2>2. CASE Pulse!Next
    BY <2>2, <1>1, PulseStep
  <2> QED BY <2>1, <2>2, <1>2
<1>5. Hand!TypeOK'
  <2>1. CASE UNCHANGED handVars
    BY <2>1, <1>1, HandRests
  <2>2. CASE Hand!Next
    BY <2>2, <1>1, HandTypeStep
  <2> QED BY <2>1, <2>2, <1>2
<1> QED BY <1>3, <1>4, <1>5 DEF CrossInv

\* A Gray pointer sampled on the move is its old or its new value, and the flags compared in
\* Gray code are safe; a pulse accepted is one strobe, and a source that is free faces a
\* destination that has strobed all of them: for pointers of any width, and any number of
\* synchronizer flops.
THEOREM CrossingsSafe == ASSUME PowersOfTwo PROVE BenchSpec => CrossingsAreSafe
<1>0. Doubling
  BY PowersDouble
<1>1. BenchInit => CrossInv /\ Pulse!Channel!Init
  BY <1>0, GrayInitially, PulseInitially, HandInitially DEF BenchInit, CrossInv, Pulse!Channel!Init
<1>2. CrossInv /\ [BenchNext]_benchVars => CrossInv'
  <2>1. ASSUME CrossInv, UNCHANGED benchVars PROVE CrossInv'
    BY <2>1, GrayRests, PulseRests, HandRests DEF CrossInv, benchVars, crossVars
  <2> QED BY <1>0, <2>1, CrossStep
<1>3. CrossInv /\ [BenchNext]_benchVars
      => /\ [Gray!SamplesAreReal]_benchVars
         /\ [Pulse!in_flight # << >> /\ Pulse!in_flight' = << >>
               => Pulse!dst_pulse \/ Pulse!Stale']_Pulse!vars
  <2>1. ASSUME CrossInv, UNCHANGED benchVars
        PROVE  UNCHANGED Pulse!vars
    BY <2>1 DEF benchVars, crossVars, pulseVars, Pulse!vars, Pulse!srcVars, Pulse!dstVars
  <2> QED BY <1>0, <2>1, CrossStep
<1>4. CrossInv => CrossTypesOK /\ Gray!FlagsMeanDistances /\ Pulse!BusyCoversStrobe
  BY <1>0, GrayInvGives, PulseInvGives DEF CrossInv, CrossTypesOK
<1>5. [Pulse!Channel!Next]_Pulse!in_flight
  BY PulseChannelStep
<1> QED BY <1>1, <1>2, <1>3, <1>4, <1>5, PTL
        DEF BenchSpec, CrossingsAreSafe, Pulse!IsChannel, Pulse!Channel!Spec
=============================================================================
