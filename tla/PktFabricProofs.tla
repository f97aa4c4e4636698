-------------------------- MODULE PktFabricProofs --------------------------
(***************************************************************************)
(* Proofs about PktFabric, for every radix, number of stages and channels, *)
(* every depth and every traffic: credits are conserved on every hop,      *)
(* packets arrive whole and where they were sent to, and none overtakes    *)
(* another between the same ports on the same channel.  Every hop is shown *)
(* to be one queue (HopStep), from the register of the sender to the       *)
(* buffer of the receiver, and the invariants are about those queues.      *)
(***************************************************************************)
EXTENDS PktFabric, SequenceTheorems, FiniteSetTheorems, WellFoundedInduction, TLAPS

\* The definition of ^, which the provers do not know.
PowersOfRadix == Radix ^ 0 = 1 /\ \A i \in Nat : Radix ^ (i + 1) = Radix * (Radix ^ i)

\* The law of exponents.
RadixLaw ==
  /\ Radix ^ 0 = 1 /\ Radix ^ 1 = Radix
  /\ \A i, j \in Nat : Radix ^ i \in Nat \ {0} /\ Radix ^ (i + j) = (Radix ^ i) * (Radix ^ j)

\* A set of numbers that is not empty has a least member.
LEMMA LeastOne ==
  ASSUME NEW T \in SUBSET Nat, T # {}
  PROVE  \E n \in T : \A k \in T : n <= k
<1> DEFINE R == OpToRel(<, Nat)
<1>1. IsWellFoundedOn(R, Nat)
  BY NatLessThanWellFounded
<1>2. PICK x \in T : \A y \in T : ~(<<y, x>> \in R)
  BY <1>1, WFMin
<1>3. ASSUME NEW y \in T PROVE x <= y
  <2>1. ~(y < x)
    BY <1>2, <1>3 DEF OpToRel
  <2> QED BY <2>1
<1> QED BY <1>3

\* A set that holds 0 and the successor of each of its numbers holds every number.
LEMMA FromZero ==
  ASSUME NEW T, 0 \in T, \A n \in Nat : n \in T => n + 1 \in T
  PROVE  \A n \in Nat : n \in T
<1> DEFINE U == {n \in Nat : n \notin T}
<1>1. ASSUME U # {} PROVE FALSE
  <2>1. PICK u \in U : \A k \in U : u <= k
    BY <1>1, LeastOne
  <2>2. u \in Nat \ {0} /\ u - 1 \in Nat /\ u - 1 \notin U /\ (u - 1) + 1 = u
    BY <2>1
  <2> QED BY <2>1, <2>2
<1> QED BY <1>1

\* The law of exponents, by induction on the second.
LEMMA PowersMultiply == ASSUME PowersOfRadix PROVE RadixLaw
<1>1. \A x, y \in Nat \ {0} : x * y \in Nat \ {0}
  OBVIOUS
<1>2. Radix \in Nat \ {0}
  BY FabricAssumption
<1>3. \A i \in Nat : Radix ^ i \in Nat \ {0}
  <2> DEFINE T == {i \in Nat : Radix ^ i \in Nat \ {0}}
  <2>1. 0 \in T
    BY DEF PowersOfRadix
  <2>2. ASSUME NEW n \in Nat, n \in T PROVE n + 1 \in T
    BY <1>1, <1>2, <2>2 DEF PowersOfRadix
  <2> HIDE DEF T
  <2>3. \A i \in Nat : i \in T
    BY <2>1, <2>2, FromZero
  <2> QED BY <2>3 DEF T
<1>4. ASSUME NEW i \in Nat PROVE \A j \in Nat : Radix ^ (i + j) = (Radix ^ i) * (Radix ^ j)
  <2> DEFINE T == {j \in Nat : Radix ^ (i + j) = (Radix ^ i) * (Radix ^ j)}
  <2>1. 0 \in T
    <3>1. i + 0 = i /\ Radix ^ 0 = 1 /\ Radix ^ i \in Nat
      BY <1>3 DEF PowersOfRadix
    <3>2. Radix ^ (i + 0) = (Radix ^ i) * (Radix ^ 0)
      BY <3>1
    <3> QED BY <3>2
  <2>2. ASSUME NEW j \in Nat, j \in T PROVE j + 1 \in T
    <3>1. i + (j + 1) = (i + j) + 1 /\ i + j \in Nat
      OBVIOUS
    <3>2. Radix ^ (i + (j + 1)) = Radix * Radix ^ (i + j) /\ Radix ^ (j + 1) = Radix * Radix ^ j
      BY <3>1 DEF PowersOfRadix
    <3>3. \A a, x, y \in Nat : a * (x * y) = x * (a * y)
      OBVIOUS
    <3>4. Radix ^ i \in Nat /\ Radix ^ j \in Nat /\ Radix \in Nat
      BY <1>2, <1>3
    <3>5. Radix ^ (i + (j + 1)) = (Radix ^ i) * (Radix ^ (j + 1))
      BY <2>2, <3>2, <3>3, <3>4
    <3> QED BY <3>5
  <2> HIDE DEF T
  <2>3. \A j \in Nat : j \in T
    BY <2>1, <2>2, FromZero
  <2> QED BY <2>3 DEF T
<1>5. Radix ^ 1 = Radix
  <2>1. 0 + 1 = 1 /\ Radix ^ (0 + 1) = Radix * Radix ^ 0 /\ Radix ^ 0 = 1
    BY DEF PowersOfRadix
  <2> QED BY <1>2, <2>1
<1> QED BY <1>3, <1>4, <1>5 DEF PowersOfRadix, RadixLaw

-----------------------------------------------------------------------------
(* The butterfly.                                                          *)

\* Quotient and remainder, named so that a lemma about them can be matched.
Quo(x, d) == x \div d
Rem(x, d) == x % d

LEMMA DivMod ==
  ASSUME NEW x \in Nat, NEW d \in Nat \ {0}
  PROVE  /\ Quo(x, d) \in Nat /\ Rem(x, d) \in 0 .. d - 1
         /\ x = d * Quo(x, d) + Rem(x, d)
<1>1. PICK q \in Int : q = x \div d
  OBVIOUS
<1> QED BY <1>1 DEF Quo, Rem

LEMMA DivModIs ==
  ASSUME NEW x \in Nat, NEW d \in Nat \ {0}, NEW q \in Nat, NEW r \in 0 .. d - 1, x = d * q + r
  PROVE  Quo(x, d) = q /\ Rem(x, d) = r
BY DEF Quo, Rem

LEMMA DivModSmall ==
  ASSUME NEW d \in Nat \ {0}, NEW x \in 0 .. d - 1
  PROVE  Quo(x, d) = 0 /\ Rem(x, d) = x
BY DEF Quo, Rem

\* A quotient of a quotient.
LEMMA DivDiv ==
  ASSUME NEW x \in Nat, NEW a \in Nat \ {0}, NEW b \in Nat \ {0}, NEW c, c = a * b
  PROVE  Quo(Quo(x, a), b) = Quo(x, c) /\ c \in Nat \ {0}
<1> DEFINE y == Quo(x, a)
           z == Quo(y, b)
           t == Rem(x, a)
           u == Rem(y, b)
<1>1. y \in Nat /\ t \in 0 .. a - 1 /\ x = a * y + t
  BY DivMod
<1>2. z \in Nat /\ u \in 0 .. b - 1 /\ y = b * z + u
  BY <1>1, DivMod
<1> HIDE DEF y, z, t, u
<1>3. c \in Nat \ {0}
  OBVIOUS
<1>4. a * u <= a * (b - 1) /\ a * u \in Nat
  BY <1>2
<1>5. PICK v \in Nat : v = a * u + t
  BY <1>4, <1>1
<1>6. a * (b - 1) = c - a
  OBVIOUS
<1>7. v \in 0 .. c - 1
  BY <1>1, <1>3, <1>4, <1>5, <1>6
<1>8. x = c * z + v
  <2>1. x = a * (b * z + u) + t
    BY <1>1, <1>2
  <2>2. a * (b * z + u) = c * z + a * u
    BY <1>2
  <2>3. c * z \in Nat
    BY <1>2, <1>3
  <2> QED BY <2>1, <2>2, <2>3, <1>1, <1>4, <1>5
<1>9. Quo(x, c) = z
  BY <1>2, <1>3, <1>7, <1>8, DivModIs
<1> QED BY <1>3, <1>9 DEF z, y

\* With the digit d of weight w replaced by i.
LEMMA Replaced ==
  ASSUME NEW p \in Nat, NEW w \in Nat \ {0}, NEW n \in Nat \ {0}, NEW i \in 0 .. n - 1,
         NEW m, m = w * n, NEW d, d = Rem(Quo(p, w), n), NEW o, o = p - d * w + i * w
  PROVE  /\ o \in Nat /\ d \in 0 .. n - 1
         /\ Rem(Quo(o, w), n) = i
         /\ Quo(o, m) = Quo(p, m) /\ Rem(o, w) = Rem(p, w)
         /\ o - i * w + d * w = p
<1> DEFINE y == Quo(p, w)
           t == Rem(p, w)
           z == Quo(y, n)
<1>1. y \in Nat /\ t \in 0 .. w - 1 /\ p = w * y + t
  BY DivMod
<1>2. z \in Nat /\ d \in 0 .. n - 1 /\ y = n * z + d
  BY <1>1, DivMod
<1>3. z = Quo(p, m) /\ m \in Nat \ {0}
  BY DivDiv
<1> HIDE DEF y, z, t
<1>4. PICK k \in Nat : k = n * z + i
  BY <1>2
<1>5. o = w * k + t
  <2>1. w * y = w * (n * z) + w * d /\ w * k = w * (n * z) + w * i
    BY <1>2, <1>4
  <2>2. w * (n * z) \in Nat /\ w * d \in Nat /\ w * i \in Nat /\ d * w = w * d /\ i * w = w * i
    BY <1>2
  <2> QED BY <1>1, <2>1, <2>2
<1>6. w * k \in Nat
  BY <1>4
<1>7. o \in Nat
  BY <1>1, <1>5, <1>6
<1>8. d * w \in Nat /\ i * w \in Nat
  BY <1>2
<1>9. o - i * w + d * w = p
  BY <1>8
<1>10. Quo(o, w) = k /\ Rem(o, w) = t
  BY <1>1, <1>4, <1>5, <1>7, DivModIs
<1>11. Rem(k, n) = i /\ Quo(k, n) = z
  BY <1>2, <1>4, DivModIs
<1>12. Quo(o, m) = Quo(Quo(o, w), n)
  BY <1>7, DivDiv
<1> QED BY <1>2, <1>3, <1>7, <1>9, <1>10, <1>11, <1>12 DEF t

\* What stays below a bound that is a multiple of m.
LEMMA StaysBelow ==
  ASSUME NEW p \in Nat, NEW o \in Nat, NEW m \in Nat \ {0}, NEW u \in Nat, NEW n, n = m * u,
         p < n, Quo(o, m) = Quo(p, m)
  PROVE  o < n
<1> DEFINE z == Quo(p, m)
           r == Rem(p, m)
           t == Rem(o, m)
<1>1. z \in Nat /\ r \in 0 .. m - 1 /\ p = m * z + r
  BY DivMod
<1>2. t \in 0 .. m - 1 /\ o = m * z + t
  BY DivMod
<1> HIDE DEF z, r, t
<1>3. z < u
  <2> SUFFICES ASSUME z >= u PROVE FALSE
    BY <1>1
  <2>1. m * z >= m * u /\ m * z \in Nat
    BY <1>1
  <2> QED BY <1>1, <2>1
<1>4. m * (z + 1) <= m * u /\ m * (z + 1) = m * z + m /\ m * z \in Nat
  BY <1>1, <1>3
<1> QED BY <1>1, <1>2, <1>4

\* The weight of a stage's digit, and of what the ports of its switches share.
Weight(s) == Radix ^ bfly_digit(s)
Above(s)  == Radix ^ (Stages - s)

LEMMA Weights ==
  ASSUME RadixLaw, NEW s \in Stage
  PROVE  /\ Weight(s) \in Nat \ {0} /\ Above(s) \in Nat \ {0} /\ Above(s) = Weight(s) * Radix
         /\ Radix ^ s \in Nat \ {0} /\ Radix ^ Stages = Above(s) * (Radix ^ s)
         /\ Above(s + 1) = Weight(s)
<1> USE FabricAssumption DEF RadixLaw, Stage, bfly_digit, Weight, Above
<1>1. s \in Nat /\ Stages - s \in Nat /\ Stages - 1 - s \in Nat
  OBVIOUS
<1>2. Stages - s = (Stages - 1 - s) + 1 /\ Stages = (Stages - s) + s /\ 1 \in Nat
      /\ Stages - (s + 1) = Stages - 1 - s
  OBVIOUS
<1>3. Radix ^ (Stages - s) = (Radix ^ (Stages - 1 - s)) * (Radix ^ 1)
  BY <1>1, <1>2
<1>4. Radix ^ Stages = (Radix ^ (Stages - s)) * (Radix ^ s)
  BY <1>1, <1>2
<1>5. Radix ^ (Stages - 1 - s) \in Nat \ {0} /\ Radix ^ (Stages - s) \in Nat \ {0}
      /\ Radix ^ s \in Nat \ {0}
  BY <1>1
<1> QED BY <1>1, <1>2, <1>3, <1>4, <1>5

LEMMA Ports ==
  ASSUME RadixLaw
  PROVE  Radix ^ Stages \in Nat \ {0} /\ Port \subseteq Nat /\ Port # {}
<1>1. Radix ^ Stages \in Nat \ {0}
  BY FabricAssumption DEF RadixLaw
<1>2. 0 \in 0 .. Radix ^ Stages - 1 /\ 0 .. Radix ^ Stages - 1 \subseteq Nat
  BY <1>1
<1> QED BY <1>1, <1>2 DEF Port

\* Where an output's inputs are, and that taking one digit and putting it back
\* returns to the same port.
LEMMA Butterfly ==
  ASSUME RadixLaw, NEW s \in Stage, NEW p \in Port, NEW i \in Local
  PROVE  /\ Global_of(s, p, i) \in Port
         /\ Local_of(s, p) \in Local
         /\ Local_of(s, Global_of(s, p, i)) = i
         /\ Global_of(s, Global_of(s, p, i), Local_of(s, p)) = p
         /\ Quo(Global_of(s, p, i), Above(s)) = Quo(p, Above(s))
         /\ Rem(Global_of(s, p, i), Weight(s)) = Rem(p, Weight(s))
<1> DEFINE w == Weight(s)
           m == Above(s)
           d == Rem(Quo(p, w), Radix)
           o == p - d * w + i * w
<1>1. w \in Nat \ {0} /\ m = w * Radix /\ m \in Nat \ {0}
      /\ Radix ^ s \in Nat /\ Radix ^ Stages = m * (Radix ^ s)
  BY Weights
<1>2. p \in Nat /\ p < Radix ^ Stages /\ Radix \in Nat \ {0} /\ i \in 0 .. Radix - 1
      /\ Radix ^ Stages \in Nat
  BY Ports, FabricAssumption DEF Port, Local
<1>7. Global_of(s, p, i) = o /\ Local_of(s, p) = d /\ Local_of(s, o) = Rem(Quo(o, w), Radix)
      /\ Global_of(s, o, d) = o - Rem(Quo(o, w), Radix) * w + d * w
  BY DEF Global_of, Local_of, bfly_port, digit, Rem, Quo, Weight
<1> HIDE DEF w, m
<1>3. /\ o \in Nat /\ d \in 0 .. Radix - 1
      /\ Rem(Quo(o, w), Radix) = i /\ Quo(o, m) = Quo(p, m) /\ o - i * w + d * w = p
      /\ Rem(o, w) = Rem(p, w)
  <2> HIDE DEF d, o
  <2>1. d = Rem(Quo(p, w), Radix) /\ o = p - d * w + i * w
    BY DEF d, o
  <2> QED BY <1>1, <1>2, <2>1, Replaced
<1> HIDE DEF o, d
<1>4. o < Radix ^ Stages
  BY <1>1, <1>2, <1>3, StaysBelow
<1>5. o \in 0 .. Radix ^ Stages - 1
  BY <1>2, <1>3, <1>4
<1> QED BY <1>3, <1>5, <1>7 DEF Port, Local, m, w

\* Two inputs of one output are two ports.
LEMMA InputsDiffer ==
  ASSUME RadixLaw, NEW s \in Stage, NEW b \in Port, NEW o \in Port, NEW n \in Port,
         NEW i \in Local, NEW j \in Local, b = Global_of(s, o, i), b = Global_of(s, n, j),
         Local_of(s, o) = Local_of(s, n)
  PROVE  o = n /\ i = j
<1>1. Global_of(s, b, Local_of(s, o)) = o /\ Local_of(s, b) = i
  <2>1. Global_of(s, Global_of(s, o, i), Local_of(s, o)) = o /\ Local_of(s, Global_of(s, o, i)) = i
    BY Butterfly
  <2> QED BY <2>1
<1>2. Global_of(s, b, Local_of(s, n)) = n /\ Local_of(s, b) = j
  <2>1. Global_of(s, Global_of(s, n, j), Local_of(s, n)) = n /\ Local_of(s, Global_of(s, n, j)) = j
    BY Butterfly
  <2> QED BY <2>1
<1> QED BY <1>1, <1>2

\* Two ports that share the digits above a stage's, and that one, share one more.
LEMMA OneMoreDigit ==
  ASSUME RadixLaw, NEW s \in Stage, NEW p \in Port, NEW e \in Port,
         Quo(p, Above(s)) = Quo(e, Above(s)), digit(e, bfly_digit(s)) = Local_of(s, p)
  PROVE  Quo(p, Above(s + 1)) = Quo(e, Above(s + 1))
<1> DEFINE w == Weight(s)
           a == Quo(p, w)
           b == Quo(e, w)
<1>1. w \in Nat \ {0} /\ Above(s) = w * Radix /\ Above(s + 1) = w
  BY Weights
<1>2. p \in Nat /\ e \in Nat /\ Radix \in Nat \ {0}
  BY Ports, FabricAssumption
<1>4. Rem(a, Radix) = Rem(b, Radix)
  BY DEF digit, Local_of, Rem, Quo, Weight
<1> HIDE DEF w
<1>3. Quo(a, Radix) = Quo(p, Above(s)) /\ Quo(b, Radix) = Quo(e, Above(s))
  <2>1. Quo(Quo(p, w), Radix) = Quo(p, Above(s))
    BY <1>1, <1>2, DivDiv
  <2>2. Quo(Quo(e, w), Radix) = Quo(e, Above(s))
    BY <1>1, <1>2, DivDiv
  <2> QED BY <2>1, <2>2
<1>5. a \in Nat /\ b \in Nat
  BY <1>1, <1>2, DivMod
<1> HIDE DEF a, b
<1>7. a = b
  <2>1. a = Radix * Quo(a, Radix) + Rem(a, Radix) /\ b = Radix * Quo(b, Radix) + Rem(b, Radix)
    BY <1>2, <1>5, DivMod
  <2> QED BY <1>3, <1>4, <2>1
<1> QED BY <1>1, <1>7 DEF a, b
-----------------------------------------------------------------------------
(* The arbiter.                                                            *)

\* There is a requester nearest to the pointer.
LEMMA WinnerAsks ==
  ASSUME NEW n \in Nat \ {0}, NEW ptr \in 0 .. n - 1, NEW req \in SUBSET (0 .. n - 1), req # {}
  PROVE  Winner(req, ptr, n) \in req
<1> DEFINE D == {Ahead(x, ptr, n) : x \in req}
           R == OpToRel(<, Nat)
<1>1. \A x \in req : Ahead(x, ptr, n) \in Nat
  BY DEF Ahead
<1>2. D \subseteq Nat /\ D # {}
  BY <1>1
<1>3. PICK m \in D : \A y \in D : ~(<<y, m>> \in R)
  <2>1. IsWellFoundedOn(R, Nat)
    BY NatLessThanWellFounded
  <2> HIDE DEF D, R
  <2> QED BY <1>2, <2>1, WFMin
<1>4. \A y \in D : m <= y
  <2> TAKE y \in D
  <2>1. y \in Nat /\ m \in Nat
    BY <1>2
  <2>2. y < m => <<y, m>> \in R
    BY <2>1 DEF OpToRel
  <2>3. ~(y < m)
    BY <1>3, <2>2
  <2> QED BY <2>1, <2>3
<1>5. \E w \in req : \A r \in req : Ahead(w, ptr, n) <= Ahead(r, ptr, n)
  BY <1>3, <1>4
<1> QED BY <1>5 DEF Winner

LEMMA PtrStays ==
  ASSUME NEW n \in Nat \ {0}, NEW ptr \in 0 .. n - 1, NEW req \in SUBSET (0 .. n - 1)
  PROVE  PtrNext(req, ptr, n) \in 0 .. n - 1
<1>1. CASE req = {}
  BY <1>1 DEF PtrNext
<1>2. CASE req # {}
  <2>1. Winner(req, ptr, n) \in 0 .. n - 1
    BY <1>2, WinnerAsks
  <2> QED BY <1>2, <2>1 DEF PtrNext, Past
<1> QED BY <1>1, <1>2

\* A grant goes to one of those who ask, and to one only.
LEMMA GrantOne ==
  ASSUME NEW req, NEW ptr, NEW n
  PROVE  /\ Grant(req, ptr, n) \subseteq req
         /\ \A a, b \in Grant(req, ptr, n) : a = b
BY DEF Grant

-----------------------------------------------------------------------------
(* A hop is a queue.                                                       *)

Flit == {f \in [src : Port, dest : Port, vc : VC, len : Nat, seq : Nat, idx : Nat] :
           1 <= f.idx /\ f.idx <= f.len}
FlitOn(v) == {f \in Flit : f.vc = v}
Fifo(S)   == [core : Seq(S), out : S \cup {NoFlit}]
Wires     == Seq(Flit \cup {NoFlit})

Arrived(x)   == IF x = NoFlit THEN << >> ELSE <<x>>
Of(x, v)     == IF x # NoFlit /\ x.vc = v THEN x ELSE NoFlit
On(x, v)     == Arrived(Of(x, v))
Left(n, w)   == IF n = 1 THEN Tail(w) ELSE w

\* The edge of a buffer, with the number of words taken out of it.
FifoNext(f, x, n, depth) == FifoEdge(f, x, n = 1, depth)

\* Concatenation, named so that the facts about it can be matched.
Cat(s, t) == s \o t

\* The flits of channel v on a wire of one or two registers, the oldest first.
Ridden(w, v) == IF Len(w) = 1 THEN On(w[1], v) ELSE Cat(On(w[2], v), On(w[1], v))

LEMMA NoFlitIsNone == NoFlit \notin Flit
<1>1. "none" \in DOMAIN NoFlit
  BY DEF NoFlit
<1>2. \A f \in Flit : "none" \notin DOMAIN f
  BY DEF Flit
<1> QED BY <1>1, <1>2

LEMMA OnIsSeq ==
  ASSUME NEW x \in Flit \cup {NoFlit}, NEW v
  PROVE  /\ Of(x, v) \in FlitOn(v) \cup {NoFlit} /\ On(x, v) \in Seq(FlitOn(v))
         /\ Len(On(x, v)) = IF Of(x, v) = NoFlit THEN 0 ELSE 1
<1>1. Of(x, v) \in FlitOn(v) \cup {NoFlit}
  BY DEF Of, FlitOn
<1>2. CASE Of(x, v) = NoFlit
  BY <1>2 DEF On, Arrived
<1>3. CASE Of(x, v) # NoFlit
  <2>1. Of(x, v) \in FlitOn(v)
    BY <1>1, <1>3
  <2>2. <<Of(x, v)>> \in Seq(FlitOn(v)) /\ Len(<<Of(x, v)>>) = 1
    BY <2>1
  <2> QED BY <1>1, <1>3, <2>2 DEF On, Arrived
<1> QED BY <1>1, <1>2, <1>3

LEMMA HeadThenTail ==
  ASSUME NEW S, NEW s \in Seq(S), s # << >>
  PROVE  s = <<Head(s)>> \o Tail(s) /\ Head(s) \in S /\ Tail(s) \in Seq(S)
<1>1. Head(s) \in S /\ Tail(s) \in Seq(S) /\ Len(Tail(s)) = Len(s) - 1
      /\ \A i \in 1 .. Len(Tail(s)) : Tail(s)[i] = s[i + 1]
  BY HeadTailProperties
<1>2. Len(s) \in Nat \ {0}
  BY EmptySeq
<1>3. <<Head(s)>> \in Seq(S) /\ Len(<<Head(s)>>) = 1 /\ <<Head(s)>>[1] = Head(s) /\ Head(s) = s[1]
  BY <1>1
<1> DEFINE h == <<Head(s)>>
           t == Tail(s)
<1>4. h \o t \in Seq(S) /\ Len(h \o t) = Len(h) + Len(t)
      /\ \A i \in 1 .. Len(h) + Len(t) : (h \o t)[i] = IF i <= Len(h) THEN h[i] ELSE t[i - Len(h)]
  <2> HIDE DEF h, t
  <2>1. h \in Seq(S) /\ t \in Seq(S)
    BY <1>1, <1>3 DEF h, t
  <2> QED BY <2>1, ConcatProperties
<1>5. \A i \in 1 .. Len(s) : s[i] = (h \o t)[i]
  <2> TAKE i \in 1 .. Len(s)
  <2>1. CASE i = 1
    BY <2>1, <1>2, <1>1, <1>3, <1>4
  <2>2. CASE i # 1
    <3>1. i - 1 \in 1 .. Len(t) /\ (i - 1) + 1 = i
      BY <2>2, <1>1, <1>2
    <3>2. t[i - 1] = s[i]
      BY <3>1, <1>1
    <3> QED BY <3>1, <3>2, <1>1, <1>2, <1>3, <1>4, <2>2
  <2> QED BY <2>1, <2>2
<1>6. Len(h \o t) = Len(s)
  BY <1>1, <1>2, <1>3, <1>4
<1>7. s = h \o t
  <2> HIDE DEF h, t
  <2> QED BY <1>4, <1>5, <1>6, SeqEqual
<1> QED BY <1>1, <1>7

LEMMA TailOfConcat ==
  ASSUME NEW S, NEW s \in Seq(S), NEW t \in Seq(S), s # << >>
  PROVE  Tail(s \o t) = Tail(s) \o t /\ Head(s \o t) = Head(s) /\ s \o t # << >>
<1>1. s \o t \in Seq(S) /\ Len(s \o t) = Len(s) + Len(t) /\ Len(s) \in Nat \ {0} /\ Len(t) \in Nat
      /\ \A i \in 1 .. Len(s) + Len(t) : (s \o t)[i] = IF i <= Len(s) THEN s[i] ELSE t[i - Len(s)]
  BY ConcatProperties, EmptySeq, LenProperties
<1> DEFINE c == s \o t
<1>2. c # << >> /\ Head(c) = Head(s)
  BY <1>1
<1> HIDE DEF c
<1>3. Tail(c) \in Seq(S) /\ Len(Tail(c)) = Len(c) - 1
      /\ \A i \in 1 .. Len(Tail(c)) : Tail(c)[i] = c[i + 1]
  BY <1>1, <1>2, HeadTailProperties DEF c
<1>4. Tail(s) \in Seq(S) /\ Len(Tail(s)) = Len(s) - 1
      /\ \A i \in 1 .. Len(Tail(s)) : Tail(s)[i] = s[i + 1]
  BY HeadTailProperties
<1> DEFINE a == Tail(s)
<1>5. a \o t \in Seq(S) /\ Len(a \o t) = Len(a) + Len(t)
      /\ \A i \in 1 .. Len(a) + Len(t) : (a \o t)[i] = IF i <= Len(a) THEN a[i] ELSE t[i - Len(a)]
  BY <1>4, ConcatProperties
<1>6. Len(Tail(c)) = Len(a \o t) /\ Len(Tail(c)) = Len(a) + Len(t) /\ Len(a) = Len(s) - 1
  BY <1>1, <1>3, <1>4, <1>5 DEF c
<1>7. \A i \in 1 .. Len(Tail(c)) : Tail(c)[i] = (a \o t)[i]
  <2> TAKE i \in 1 .. Len(Tail(c))
  <2>1. Tail(c)[i] = c[i + 1] /\ i \in 1 .. Len(a) + Len(t) /\ i + 1 \in 1 .. Len(s) + Len(t)
    BY <1>1, <1>3, <1>6
  <2>2. CASE i <= Len(a)
    <3>1. c[i + 1] = s[i + 1] /\ a[i] = s[i + 1]
      BY <1>1, <1>4, <1>6, <2>1, <2>2 DEF c
    <3> QED BY <1>5, <2>1, <2>2, <3>1
  <2>3. CASE i > Len(a)
    <3>1. c[i + 1] = t[i + 1 - Len(s)] /\ i + 1 - Len(s) = i - Len(a)
      BY <1>1, <1>4, <1>6, <2>1, <2>3 DEF c
    <3> QED BY <1>1, <1>4, <1>5, <2>1, <2>3, <3>1
  <2> QED BY <1>1, <1>6, <2>1, <2>2, <2>3
<1> HIDE DEF a
<1>8. Tail(c) = a \o t
  BY <1>3, <1>5, <1>6, <1>7, SeqEqual
<1> QED BY <1>2, <1>8 DEF a, c

\* A buffer is a queue: its output register and its ring, in this order, whatever
\* moves from the one to the other.
LEMMA FifoStep ==
  ASSUME NEW S, NoFlit \notin S, NEW f \in Fifo(S), NEW x \in S \cup {NoFlit},
         NEW n \in {0, 1}, NEW depth \in Nat,
         n = 1 => f.out # NoFlit, x # NoFlit => Len(f.core) < depth
  PROVE  /\ FifoWords(f) \in Seq(S) /\ FifoNext(f, x, n, depth) \in Fifo(S)
         /\ FifoWords(FifoNext(f, x, n, depth)) = Cat(Left(n, FifoWords(f)), Arrived(x))
         /\ f.out # NoFlit => FifoWords(f) # << >> /\ Head(FifoWords(f)) = f.out
<1> DEFINE core == f.core
           out  == f.out
           A    == Arrived(x)
           W    == FifoWords(f)
           g    == FifoNext(f, x, n, depth)
<1>1. core \in Seq(S) /\ out \in S \cup {NoFlit}
  BY DEF Fifo
<1>2. A \in Seq(S) /\ (x # NoFlit => A = <<x>>) /\ (x = NoFlit => A = << >>)
  BY DEF Arrived
<1>3. W = IF out = NoFlit THEN core ELSE <<out>> \o core
  BY DEF FifoWords
<1>4. ASSUME NEW t \in Seq(S)
      PROVE  (IF x # NoFlit THEN Append(t, x) ELSE t) = t \o A /\ t \o A \in Seq(S)
  <2>1. t \o A \in Seq(S)
    BY <1>2, ConcatProperties
  <2>2. CASE x # NoFlit
    BY <1>2, <2>1, <2>2, AppendIsConcat
  <2>3. CASE x = NoFlit
    BY <1>2, <2>1, <2>3, ConcatEmptySeq
  <2> QED BY <2>1, <2>2, <2>3
<1>5. out # NoFlit => W \in Seq(S) /\ W # << >> /\ Head(W) = out /\ Tail(W) = core
  <2> SUFFICES ASSUME out # NoFlit PROVE W \in Seq(S) /\ W # << >> /\ Head(W) = out /\ Tail(W) = core
    OBVIOUS
  <2>1. <<out>> \in Seq(S) /\ <<out>> # << >> /\ Head(<<out>>) = out /\ Tail(<<out>>) = << >>
    BY <1>1
  <2>2. W = <<out>> \o core
    BY <1>3
  <2> DEFINE o == <<out>>
  <2> HIDE DEF o, core, W, out
  <2>3. o \in Seq(S) /\ o # << >> /\ Head(o) = out /\ Tail(o) = << >> /\ W = o \o core
    BY <2>1, <2>2 DEF o
  <2>4. Tail(o \o core) = Tail(o) \o core /\ Head(o \o core) = Head(o) /\ o \o core # << >>
    BY <1>1, <2>3, TailOfConcat
  <2>5. << >> \o core = core
    BY <1>1, ConcatEmptySeq
  <2>6. o \o core \in Seq(S)
    BY <1>1, <2>3, ConcatProperties
  <2> QED BY <2>3, <2>4, <2>5, <2>6
<1>6. W \in Seq(S)
  BY <1>1, <1>3, <1>5
<1>7. g.core = (IF x # NoFlit THEN Append(IF (out = NoFlit \/ n = 1) /\ core # << >> THEN Tail(core) ELSE core, x)
                ELSE IF (out = NoFlit \/ n = 1) /\ core # << >> THEN Tail(core) ELSE core)
      /\ g.out = (IF ~(out = NoFlit \/ n = 1) THEN out ELSE IF core = << >> THEN NoFlit ELSE Head(core))
      /\ g = [core |-> g.core, out |-> g.out]
  BY DEF FifoNext, FifoEdge, fifo_s_ready
<1>8. FifoWords(g) = IF g.out = NoFlit THEN g.core ELSE <<g.out>> \o g.core
  BY DEF FifoWords
<1> HIDE DEF g, A, W, core, out
<1>9. CASE ~(out = NoFlit \/ n = 1)
  <2>1. g.core = core \o A /\ g.out = out /\ core \o A \in Seq(S)
    BY <1>1, <1>4, <1>7, <1>9
  <2>2. <<out>> \in Seq(S)
    BY <1>1, <1>9
  <2>3. FifoWords(g) = <<out>> \o (core \o A) /\ W = <<out>> \o core
    BY <1>3, <1>8, <1>9, <2>1
  <2>4. <<out>> \o (core \o A) = (<<out>> \o core) \o A
    BY <1>1, <1>2, <2>2, ConcatAssociative
  <2>5. g \in Fifo(S)
    BY <1>1, <1>7, <2>1 DEF Fifo
  <2> QED BY <1>5, <1>6, <1>9, <2>3, <2>4, <2>5 DEF Left, g, A, W, core, out, Cat
<1>10. CASE out = NoFlit \/ n = 1
  <2>1. Left(n, W) = core
    BY <1>3, <1>5, <1>10 DEF Left, out
  <2>2. FifoWords(g) = core \o A /\ g \in Fifo(S)
    <3>1. CASE core = << >>
      <4>1. g.core = core \o A /\ g.out = NoFlit /\ core \o A \in Seq(S)
        BY <1>1, <1>4, <1>7, <1>10, <3>1
      <4> QED BY <1>7, <1>8, <4>1 DEF Fifo
    <3>2. CASE core # << >>
      <4>1. core = <<Head(core)>> \o Tail(core) /\ Head(core) \in S /\ Tail(core) \in Seq(S)
        BY <1>1, <3>2, HeadThenTail
      <4>2. g.core = Tail(core) \o A /\ g.out = Head(core) /\ Tail(core) \o A \in Seq(S)
        BY <1>4, <1>7, <1>10, <3>2, <4>1
      <4>3. <<Head(core)>> \in Seq(S)
        BY <4>1
      <4>4. <<Head(core)>> \o (Tail(core) \o A) = (<<Head(core)>> \o Tail(core)) \o A
        BY <1>2, <4>1, <4>3, ConcatAssociative
      <4>5. Head(core) # NoFlit
        BY <4>1
      <4>6. g \in Fifo(S)
        BY <1>7, <4>1, <4>2 DEF Fifo
      <4> QED BY <1>8, <4>1, <4>2, <4>4, <4>5, <4>6
    <3> QED BY <3>1, <3>2
  <2> QED BY <1>5, <1>6, <2>1, <2>2 DEF g, A, W, out, Cat
<1> QED BY <1>9, <1>10

LEMMA TwoOfThem ==
  ASSUME NEW S, NEW a \in S, NEW b \in S
  PROVE  <<a>> \o <<b>> = <<a, b>>
<1> DEFINE s == <<a>>
           t == <<b>>
           u == <<a, b>>
<1>1. s \in Seq(S) /\ t \in Seq(S) /\ u \in Seq(S) /\ Len(s) = 1 /\ Len(t) = 1 /\ Len(u) = 2
      /\ s[1] = a /\ t[1] = b /\ u[1] = a /\ u[2] = b
  OBVIOUS
<1> HIDE DEF s, t, u
<1>2. s \o t \in Seq(S) /\ Len(s \o t) = 2 /\ (s \o t)[1] = a /\ (s \o t)[2] = b
  <2>1. s \o t \in Seq(S) /\ Len(s \o t) = Len(s) + Len(t)
        /\ \A i \in 1 .. Len(s) + Len(t) : (s \o t)[i] = IF i <= Len(s) THEN s[i] ELSE t[i - Len(s)]
    BY <1>1, ConcatProperties
  <2>2. 1 \in 1 .. 1 + 1 /\ 2 \in 1 .. 1 + 1
    OBVIOUS
  <2> QED BY <1>1, <2>1, <2>2
<1>3. \A i \in 1 .. 2 : (s \o t)[i] = u[i]
  BY <1>1, <1>2
<1>4. s \o t = u
  BY <1>1, <1>2, <1>3, SeqEqual
<1> QED BY <1>4 DEF s, t, u

WireEdge(w, x) == <<x>> \o SubSeq(w, 1, Len(w) - 1)

\* A wire moves by one register: what was in the last arrives, x is behind the rest.
LEMMA WireStep ==
  ASSUME NEW w \in Wires, Len(w) \in {1, 2}, NEW x \in Flit \cup {NoFlit}, NEW v,
         NEW u, u = WireEdge(w, x)
  PROVE  /\ u \in Wires /\ Len(u) = Len(w) /\ u[1] = x
         /\ \E R \in Seq(FlitOn(v)) :
              Ridden(w, v) = Cat(On(w[Len(w)], v), R) /\ Ridden(u, v) = Cat(R, On(x, v))
<1>1. w[Len(w)] \in Flit \cup {NoFlit} /\ w[1] \in Flit \cup {NoFlit}
  BY DEF Wires
<1>2. On(w[1], v) \in Seq(FlitOn(v)) /\ On(x, v) \in Seq(FlitOn(v))
  BY <1>1, OnIsSeq
<1>3. CASE Len(w) = 1
  <2>1. SubSeq(w, 1, 0) = << >>
    BY SubSeqEmpty
  <2>2. u = <<x>>
    <3>1. <<x>> \in Seq(Flit \cup {NoFlit})
      OBVIOUS
    <3>2. <<x>> \o << >> = <<x>>
      BY <3>1, ConcatEmptySeq
    <3>3. u = <<x>> \o SubSeq(w, 1, 0)
      BY <1>3 DEF WireEdge
    <3> QED BY <2>1, <3>2, <3>3
  <2>3. Ridden(w, v) = Cat(On(w[1], v), << >>) /\ Ridden(u, v) = Cat(<< >>, On(x, v))
    BY <1>2, <1>3, <2>2, ConcatEmptySeq DEF Ridden, Cat
  <2>4. << >> \in Seq(FlitOn(v))
    OBVIOUS
  <2>5. u \in Wires /\ Len(u) = 1 /\ u[1] = x
    BY <2>2 DEF Wires
  <2> QED BY <1>3, <2>3, <2>4, <2>5
<1>4. CASE Len(w) = 2
  <2>1. SubSeq(w, 1, 1) = <<w[1]>>
    <3> DEFINE T == Flit \cup {NoFlit}
               q == SubSeq(w, 1, 1)
    <3>1. q \in Seq(T) /\ Len(q) = 1 /\ q[1] = w[1]
      <4>1. \A i \in 1 .. 1 : w[i] \in T
        BY <1>1
      <4> HIDE DEF T
      <4> QED BY <4>1, SubSeqProperties
    <3>2. <<w[1]>> \in Seq(T) /\ Len(<<w[1]>>) = 1 /\ <<w[1]>>[1] = w[1]
      BY <1>1
    <3> HIDE DEF q, T
    <3>3. q = <<w[1]>>
      BY <3>1, <3>2, SeqEqual
    <3> QED BY <3>3 DEF q
  <2>2. u = <<x, w[1]>>
    <3>1. u = <<x>> \o SubSeq(w, 1, 1)
      BY <1>4 DEF WireEdge
    <3> QED BY <1>1, <2>1, <3>1, TwoOfThem
  <2>3. Ridden(w, v) = Cat(On(w[2], v), On(w[1], v)) /\ Ridden(u, v) = Cat(On(w[1], v), On(x, v))
    BY <1>4, <2>2 DEF Ridden
  <2>5. u \in Wires /\ Len(u) = 2 /\ u[1] = x
    BY <1>1, <2>2 DEF Wires
  <2> QED BY <1>2, <1>4, <2>3, <2>5
<1> QED BY <1>3, <1>4

LEMMA RiddenIsSeq ==
  ASSUME NEW w \in Wires, Len(w) \in {1, 2}, NEW v
  PROVE  /\ Ridden(w, v) \in Seq(FlitOn(v))
         /\ Of(w[Len(w)], v) # NoFlit => Len(Ridden(w, v)) >= 1
<1>1. w[Len(w)] \in Flit \cup {NoFlit} /\ w[1] \in Flit \cup {NoFlit}
  BY DEF Wires
<1>2. On(w[1], v) \in Seq(FlitOn(v)) /\ On(w[Len(w)], v) \in Seq(FlitOn(v))
      /\ (Of(w[Len(w)], v) # NoFlit => Len(On(w[Len(w)], v)) = 1)
  BY <1>1, OnIsSeq
<1>3. CASE Len(w) = 1
  BY <1>2, <1>3 DEF Ridden
<1>4. CASE Len(w) = 2
  <2>1. On(w[2], v) \o On(w[1], v) \in Seq(FlitOn(v))
        /\ Len(On(w[2], v) \o On(w[1], v)) = Len(On(w[2], v)) + Len(On(w[1], v))
    BY <1>2, <1>4, ConcatProperties
  <2>2. Len(On(w[1], v)) \in Nat
    BY <1>2
  <2> QED BY <1>2, <1>4, <2>1, <2>2 DEF Ridden, Cat
<1> QED BY <1>3, <1>4

\* Arrivals go behind the buffer, a new flit behind the wire, and what leaves is the
\* front of the buffer.
LEMMA QueueJoin ==
  ASSUME NEW S, NEW F \in Seq(S), NEW A \in Seq(S), NEW R \in Seq(S), NEW X \in Seq(S),
         NEW n \in {0, 1}, n = 1 => F # << >>
  PROVE  /\ Cat(Cat(Left(n, F), A), Cat(R, X)) = Cat(Left(n, Cat(F, Cat(A, R))), X)
         /\ n = 1 => Cat(F, Cat(A, R)) # << >> /\ Head(Cat(F, Cat(A, R))) = Head(F)
<1>1. A \o R \in Seq(S)
  BY ConcatProperties
<1>2. CASE n = 1
  <2>1. Tail(F \o (A \o R)) = Tail(F) \o (A \o R) /\ Head(F \o (A \o R)) = Head(F)
        /\ F \o (A \o R) # << >>
    BY <1>1, <1>2, TailOfConcat
  <2>2. Tail(F) \in Seq(S)
    BY <1>2, HeadTailProperties
  <2> DEFINE T == Tail(F)
  <2>3. (T \o A) \o (R \o X) = (T \o (A \o R)) \o X
    <3> HIDE DEF T
    <3>1. T \in Seq(S)
      BY <2>2 DEF T
    <3> QED BY <3>1
  <2> QED BY <1>2, <2>1, <2>3 DEF Left, Cat
<1>3. CASE n = 0
  <2>1. (F \o A) \o (R \o X) = (F \o (A \o R)) \o X
    OBVIOUS
  <2> QED BY <1>3, <2>1 DEF Left, Cat
<1> QED BY <1>2, <1>3

LEMMA WireEnds ==
  ASSUME NEW w \in Wires, Len(w) \in {1, 2}
  PROVE  w[Len(w)] \in Flit \cup {NoFlit} /\ w[1] \in Flit \cup {NoFlit}
BY DEF Wires

\* One edge of a hop, from the wire's first register to the buffer it ends in.
LEMMA QueueStep ==
  ASSUME NEW v, NEW f \in Fifo(FlitOn(v)), NEW w \in Wires, Len(w) \in {1, 2},
         NEW x \in Flit \cup {NoFlit}, NEW u, u = WireEdge(w, x),
         NEW n \in {0, 1}, n = 1 => f.out # NoFlit, NEW depth \in Nat,
         NEW o, o = Of(w[Len(w)], v), o # NoFlit => Len(f.core) < depth,
         NEW g, g = FifoNext(f, o, n, depth)
  PROVE  /\ g \in Fifo(FlitOn(v))
         /\ Cat(FifoWords(g), Ridden(u, v)) = Cat(Left(n, Cat(FifoWords(f), Ridden(w, v))), On(x, v))
         /\ n = 1 => Cat(FifoWords(f), Ridden(w, v)) # << >> /\ Head(Cat(FifoWords(f), Ridden(w, v))) = f.out
<1>1. PICK R \in Seq(FlitOn(v)) : Ridden(w, v) = Cat(On(w[Len(w)], v), R) /\ Ridden(u, v) = Cat(R, On(x, v))
  BY WireStep
<1>2. w[Len(w)] \in Flit \cup {NoFlit}
  BY WireEnds
<1>3. /\ On(w[Len(w)], v) \in Seq(FlitOn(v)) /\ On(x, v) \in Seq(FlitOn(v))
      /\ o \in FlitOn(v) \cup {NoFlit} /\ On(w[Len(w)], v) = Arrived(o)
  BY <1>2, OnIsSeq DEF On
<1>4. NoFlit \notin FlitOn(v)
  BY NoFlitIsNone DEF FlitOn
<1>5. /\ FifoWords(f) \in Seq(FlitOn(v)) /\ g \in Fifo(FlitOn(v))
      /\ FifoWords(g) = Cat(Left(n, FifoWords(f)), Arrived(o))
      /\ n = 1 => FifoWords(f) # << >> /\ Head(FifoWords(f)) = f.out
  BY <1>3, <1>4, FifoStep
<1> DEFINE A == On(w[Len(w)], v)
           X == On(x, v)
           F == FifoWords(f)
           S == FlitOn(v)
<1>6. A \in Seq(S) /\ X \in Seq(S) /\ F \in Seq(S) /\ R \in Seq(S) /\ (n = 1 => F # << >>)
  BY <1>3, <1>5
<1>7. /\ Cat(FifoWords(g), Ridden(u, v)) = Cat(Cat(Left(n, F), A), Cat(R, X))
      /\ Cat(FifoWords(f), Ridden(w, v)) = Cat(F, Cat(A, R))
  BY <1>1, <1>3, <1>5
<1> HIDE DEF A, X, F, S
<1>8. /\ Cat(Cat(Left(n, F), A), Cat(R, X)) = Cat(Left(n, Cat(F, Cat(A, R))), X)
      /\ n = 1 => Cat(F, Cat(A, R)) # << >> /\ Head(Cat(F, Cat(A, R))) = Head(F)
  BY <1>6, QueueJoin
<1> QED BY <1>5, <1>7, <1>8 DEF X, F

-----------------------------------------------------------------------------
(* The hops of the fabric: hop h = <<k, p, v>> ends in the buffer of       *)
(* channel v behind port p of stage k, or of the egress when k = Stages.   *)

Hop       == (0 .. Stages) \X Port \X VC
Behind(h) == <<h[1] - 1, h[2], h[3]>>     \* the output channel that sends on it
FifoOf(h) == IF h[1] = Stages THEN egr_fifo[h[2]][h[3]] ELSE sw_fifo[h]
Depth(h)  == IF h[1] = Stages THEN EndDepth ELSE VcDepth
Wire(h)   == IF h[1] = 0 THEN <<ing_out[h[2]]>> ELSE sw_out[h[1] - 1, h[2]]
Queue(h)  == Cat(FifoWords(FifoOf(h)), Ridden(Wire(h), h[3]))
Credit(h) == IF h[1] = 0 THEN ing_credit[h[2]][h[3]] ELSE sw_credit[Behind(h)]
Held(h)   == IF h[1] = Stages THEN 0 ELSE sw_held[h]

\* What an edge does to a hop: words taken from its buffer, flits sent on it.
Taking(h, en) == IF h[1] = Stages THEN h[3] \in out_grant(h[2], en[h[2]]) ELSE h \in Pops(Sends)
Sending(h)    == IF h[1] = 0 THEN h[3] \in send_grant(h[2]) ELSE Behind(h) \in Sends
Takes(h, en)  == IF Taking(h, en) THEN 1 ELSE 0
Offered(h)    == IF h[1] = 0 THEN ing_fifo[h[2]][h[3]].out ELSE head(Source(Behind(h)))
Sent(h)       == IF Sending(h) THEN Offered(h) ELSE NoFlit

Regs ==
  /\ ing_ptr \in [Port -> VC] /\ egr_ptr \in [Port -> VC] /\ sa_ptr \in [Output -> VC]
  /\ va_ptr \in [Buffer -> Local] /\ sw_route \in [Buffer -> Local]
  /\ sw_lock \in [Buffer -> 0 .. Free]
  /\ sw_credit \in [Buffer -> Nat] /\ sw_held \in [Buffer -> Nat]
  /\ \A p \in Port : ing_credit[p] \in [VC -> Nat]
Flits ==
  /\ \A p \in Port : ing_open[p] \in Flit \cup {NoFlit}
  /\ \A p \in Port : ing_open[p] # NoFlit => ing_open[p].idx < ing_open[p].len
  /\ \A p \in Port, v \in VC : ing_seq[p][v] \in Nat
  /\ \A p \in Port, v \in VC : ing_fifo[p][v] \in Fifo(FlitOn(v))
  /\ \A h \in Hop : FifoOf(h) \in Fifo(FlitOn(h[3]))
  /\ \A h \in Hop : Wire(h) \in Wires /\ Len(Wire(h)) = (IF h[1] = 0 THEN 1 ELSE OutPipe + 1)

\* The credits of a hop, the flits on it and those withheld behind it.
Conserved == \A h \in Hop : Credit(h) + Len(Queue(h)) + Held(h) = VcDepth

HopInv == Regs /\ Flits /\ Conserved

LEMMA Triples ==
  /\ \A h \in Hop : h[1] \in 0 .. Stages /\ h[2] \in Port /\ h[3] \in VC /\ h = <<h[1], h[2], h[3]>>
  /\ \A c \in Buffer : c[1] \in Stage /\ c[2] \in Port /\ c[3] \in VC /\ c = <<c[1], c[2], c[3]>>
  /\ \A h \in Hop : h[1] # Stages => h \in Buffer
  /\ \A h \in Hop : h[1] # 0 => Behind(h) \in Buffer /\ <<h[1] - 1, h[2]>> \in Output
  /\ \A s \in Stage, q \in Port, v \in VC :
       <<s, q, v>> \in Buffer /\ <<s, q, v>> \in Hop /\ <<s + 1, q, v>> \in Hop
       /\ Behind(<<s + 1, q, v>>) = <<s, q, v>>
<1>1. \A s \in Stage : s \in 0 .. Stages /\ s + 1 \in 0 .. Stages /\ s + 1 - 1 = s /\ s + 1 # 0 /\ s # Stages
  BY FabricAssumption DEF Stage
<1>2. \A k \in 0 .. Stages : (k # Stages => k \in Stage) /\ (k # 0 => k - 1 \in Stage)
  BY FabricAssumption DEF Stage
<1> QED BY <1>1, <1>2 DEF Hop, Buffer, Output, Behind

\* The flit at the end of a hop's wire is what its receiver is shown.
LEMMA WireEnd ==
  ASSUME Flits, NEW h \in Hop
  PROVE  /\ Len(Wire(h)) \in {1, 2} /\ Wire(h) \in Wires
         /\ h[1] # Stages => Wire(h)[Len(Wire(h))] = sw_link(<<h[1], h[2]>>)
         /\ h[1] = Stages => Wire(h)[Len(Wire(h))] = egr_link(h[2])
<1>1. Wire(h) \in Wires /\ Len(Wire(h)) = (IF h[1] = 0 THEN 1 ELSE OutPipe + 1)
  BY DEF Flits
<1>2. Stages # 0 /\ OutPipe \in {0, 1}
  BY FabricAssumption, SwitchAssumption
<1>3. CASE h[1] = 0
  BY <1>1, <1>2, <1>3 DEF Wire, sw_link
<1>4. CASE h[1] # 0
  <2>1. Len(Wire(h)) = OutPipe + 1
    BY <1>1, <1>4
  <2>2. Wire(h) = sw_out[h[1] - 1, h[2]]
    BY <1>4 DEF Wire
  <2>3. sw_link(<<h[1], h[2]>>) = sw_out[h[1] - 1, h[2]][OutPipe + 1]
    BY <1>4 DEF sw_link
  <2>4. h[1] = Stages => egr_link(h[2]) = sw_out[h[1] - 1, h[2]][OutPipe + 1]
    BY DEF egr_link
  <2>5. Len(Wire(h)) \in {1, 2}
    BY <1>2, <2>1
  <2> QED BY <1>1, <2>1, <2>2, <2>3, <2>4, <2>5
<1> QED BY <1>3, <1>4


LEMMA FifoTypes ==
  ASSUME Flits
  PROVE  /\ \A b \in Buffer : sw_fifo[b] \in Fifo(FlitOn(b[3])) /\ head(b) \in FlitOn(b[3]) \cup {NoFlit}
         /\ \A q \in Port, v \in VC : egr_fifo[q][v] \in Fifo(FlitOn(v))
<1>1. ASSUME NEW b \in Buffer
      PROVE  sw_fifo[b] \in Fifo(FlitOn(b[3])) /\ head(b) \in FlitOn(b[3]) \cup {NoFlit}
  <2>1. b \in Hop /\ b[1] # Stages
    <3>1. b[1] \in Stage /\ b[2] \in Port /\ b[3] \in VC /\ b = <<b[1], b[2], b[3]>>
      BY Triples
    <3>2. <<b[1], b[2], b[3]>> \in Hop
      BY <3>1, Triples
    <3>3. b[1] # Stages
      BY <3>1, FabricAssumption DEF Stage
    <3> QED BY <3>1, <3>2, <3>3
  <2>2. FifoOf(b) \in Fifo(FlitOn(b[3]))
    BY <2>1 DEF Flits
  <2>3. sw_fifo[b] \in Fifo(FlitOn(b[3]))
    BY <2>1, <2>2 DEF FifoOf
  <2> QED BY <2>3 DEF Fifo, head
<1>2. ASSUME NEW q \in Port, NEW v \in VC
      PROVE  egr_fifo[q][v] \in Fifo(FlitOn(v))
  <2>1. <<Stages, q, v>> \in Hop
    BY FabricAssumption DEF Hop
  <2>2. FifoOf(<<Stages, q, v>>) \in Fifo(FlitOn(v))
    BY <2>1 DEF Flits
  <2> QED BY <2>2 DEF FifoOf
<1> QED BY <1>1, <1>2

\* An output channel sends a flit of its own channel, for a credit, out of a buffer of
\* its switch, and no two channels of an output send at once.
LEMMA SendFacts ==
  ASSUME RadixLaw, Regs, Flits
  PROVE  /\ \A c \in Sends : /\ c \in Buffer /\ Source(c) \in Buffer
                             /\ sw_lock[c] \in Local
                             /\ Source(c) = <<c[1], Global_of(c[1], c[2], sw_lock[c]), c[3]>>
                             /\ head(Source(c)) \in FlitOn(c[3]) /\ sw_credit[c] > 0
         /\ \A c, d \in Sends : c[1] = d[1] /\ c[2] = d[2] => c = d
         /\ \A b \in Pops(Sends) : b \in Buffer /\ sw_fifo[b].out \in FlitOn(b[3])
<1>1. ASSUME NEW c \in Sends
      PROVE  /\ c \in Buffer /\ Source(c) \in Buffer
             /\ sw_lock[c] \in Local /\ Source(c) = <<c[1], Global_of(c[1], c[2], sw_lock[c]), c[3]>>
             /\ head(Source(c)) \in FlitOn(c[3]) /\ sw_credit[c] > 0
             /\ c[3] \in sa_grant(c[1], c[2])
  <2>1. c \in Buffer /\ c[3] \in sa_grant(c[1], c[2])
    BY DEF Sends
  <2>2. c[1] \in Stage /\ c[2] \in Port /\ c[3] \in VC /\ c = <<c[1], c[2], c[3]>>
    BY <2>1, Triples
  <2>3. c[3] \in sa_req(c[1], c[2])
    BY <2>1, GrantOne DEF sa_grant
  <2>4. sw_lock[c] # Free /\ head(OwnerBuffer(c[1], c[2], c[3])) # NoFlit /\ sw_credit[c] > 0
    BY <2>2, <2>3 DEF sa_req
  <2>5. sw_lock[c] \in Local
    <3>1. sw_lock[c] \in 0 .. Free
      BY <2>1 DEF Regs
    <3> QED BY <2>4, <3>1, FabricAssumption DEF Free, Local
  <2>6. Source(c) = <<c[1], Global_of(c[1], c[2], sw_lock[c]), c[3]>>
    BY <2>2 DEF Source, OwnerBuffer
  <2>7. Global_of(c[1], c[2], sw_lock[c]) \in Port
    BY <2>2, <2>5, Butterfly
  <2>8. Source(c) \in Buffer /\ Source(c)[3] = c[3]
    <3>1. <<c[1], Global_of(c[1], c[2], sw_lock[c]), c[3]>> \in Buffer
      BY <2>2, <2>7, Triples
    <3> QED BY <2>6, <3>1
  <2>9. head(Source(c)) \in FlitOn(c[3])
    BY <2>4, <2>8, FifoTypes DEF Source
  <2> QED BY <2>1, <2>4, <2>5, <2>6, <2>8, <2>9
<1>2. ASSUME NEW c \in Sends, NEW d \in Sends, c[1] = d[1], c[2] = d[2]
      PROVE  c = d
  <2>1. c[3] = d[3]
    <3>1. c[3] \in sa_grant(c[1], c[2]) /\ d[3] \in sa_grant(c[1], c[2])
      BY <1>1, <1>2
    <3> QED BY <3>1, GrantOne DEF sa_grant
  <2>2. c = <<c[1], c[2], c[3]>> /\ d = <<d[1], d[2], d[3]>>
    BY <1>1, Triples
  <2> QED BY <1>2, <2>1, <2>2
<1>3. ASSUME NEW b \in Pops(Sends)
      PROVE  b \in Buffer /\ sw_fifo[b].out \in FlitOn(b[3])
  <2>1. PICK c \in Sends : b = Source(c)
    BY DEF Pops
  <2>2. b \in Buffer /\ head(b) \in FlitOn(c[3]) /\ b[3] = c[3]
    BY <1>1, <2>1
  <2> QED BY <2>2 DEF head
<1> QED BY <1>1, <1>2, <1>3

\* Nothing is taken out of an empty buffer, and what is sent on a hop is a flit of its
\* channel, for a credit.
LEMMA TakeFacts ==
  ASSUME RadixLaw, Regs, Flits, NEW h \in Hop, NEW en
  PROVE  /\ Taking(h, en) => FifoOf(h).out \in FlitOn(h[3])
         /\ Sending(h) => Offered(h) \in FlitOn(h[3]) /\ Credit(h) > 0
         /\ Sent(h) \in FlitOn(h[3]) \cup {NoFlit}
<1>1. h[2] \in Port /\ h[3] \in VC /\ (h[1] # 0 => Behind(h) \in Buffer /\ Behind(h)[3] = h[3])
  BY Triples DEF Behind
<1>2. Taking(h, en) => FifoOf(h).out \in FlitOn(h[3])
  <2>1. CASE h[1] = Stages
    <3>1. Taking(h, en) => egr_fifo[h[2]][h[3]].out # NoFlit
      BY <2>1, GrantOne DEF Taking, out_grant, out_req
    <3>2. egr_fifo[h[2]][h[3]].out \in FlitOn(h[3]) \cup {NoFlit}
      BY <1>1, FifoTypes DEF Fifo
    <3> QED BY <2>1, <3>1, <3>2 DEF FifoOf
  <2>2. CASE h[1] # Stages
    BY <2>2, SendFacts DEF FifoOf, Taking
  <2> QED BY <2>1, <2>2
<1>3. Sending(h) => Offered(h) \in FlitOn(h[3]) /\ Credit(h) > 0
  <2>1. CASE h[1] = 0
    <3>1. Sending(h) => ing_fifo[h[2]][h[3]].out # NoFlit /\ ing_credit[h[2]][h[3]] > 0
      BY <2>1, GrantOne DEF Sending, send_grant, send_req
    <3>2. ing_fifo[h[2]][h[3]].out \in FlitOn(h[3]) \cup {NoFlit}
      BY <1>1 DEF Fifo, Flits
    <3> QED BY <2>1, <3>1, <3>2 DEF Offered, Credit
  <2>2. CASE h[1] # 0
    BY <1>1, <2>2, SendFacts DEF Offered, Credit, Sending
  <2> QED BY <2>1, <2>2
<1> QED BY <1>2, <1>3 DEF Sent


Arrives(h) == Of(Wire(h)[Len(Wire(h))], h[3])

LEMMA Popped ==
  ASSUME NEW f, NEW x, NEW depth, NEW p \in BOOLEAN
  PROVE  FifoEdge(f, x, p, depth) = FifoNext(f, x, IF p THEN 1 ELSE 0, depth)
<1>1. CASE p = TRUE
  <2>1. (1 = 1) = TRUE /\ (IF p THEN 1 ELSE 0) = 1
    BY <1>1
  <2> QED BY <1>1, <2>1 DEF FifoNext
<1>2. CASE p = FALSE
  <2>1. (0 = 1) = FALSE /\ (IF p THEN 1 ELSE 0) = 0
    BY <1>2
  <2> QED BY <1>2, <2>1 DEF FifoNext
<1> QED BY <1>1, <1>2

\* The buffer of a hop takes what is at the end of its wire.
LEMMA FifoMoves ==
  ASSUME Flits, NEW offer, NEW en, NEW kill, Edge(offer, en, kill), NEW h \in Hop
  PROVE  FifoOf(h)' = FifoNext(FifoOf(h), Arrives(h), Takes(h, en), Depth(h))
<1>1. h[2] \in Port /\ h[3] \in VC
  BY Triples
<1>2. CASE h[1] = Stages
  <2>1. egr_fifo' = [p \in Port |-> [v \in VC |->
          FifoEdge(egr_fifo[p][v],
                   IF [q \in Port |-> egr_link(q)][p] # NoFlit /\ [q \in Port |-> egr_link(q)][p].vc = v
                   THEN [q \in Port |-> egr_link(q)][p] ELSE NoFlit,
                   v \in out_grant(p, en[p]), EndDepth)]]
    BY DEF Edge, EgressEdge
  <2>2. egr_fifo'[h[2]][h[3]] =
          FifoEdge(egr_fifo[h[2]][h[3]], Of(egr_link(h[2]), h[3]), h[3] \in out_grant(h[2], en[h[2]]), EndDepth)
    BY <1>1, <2>1, Zenon DEF Of
  <2>3. Arrives(h) = Of(egr_link(h[2]), h[3])
    BY <1>2, WireEnd DEF Arrives
  <2> DEFINE pop == h[3] \in out_grant(h[2], en[h[2]])
  <2>4. FifoOf(h) = egr_fifo[h[2]][h[3]] /\ FifoOf(h)' = egr_fifo'[h[2]][h[3]] /\ Depth(h) = EndDepth
    BY <1>2 DEF FifoOf, Depth
  <2>5. Takes(h, en) = (IF pop THEN 1 ELSE 0) /\ pop \in BOOLEAN
    BY <1>2 DEF Takes, Taking
  <2>6. egr_fifo'[h[2]][h[3]] = FifoEdge(egr_fifo[h[2]][h[3]], Arrives(h), pop, EndDepth)
    BY <2>2, <2>3, Zenon
  <2> HIDE DEF pop
  <2>7. FifoEdge(egr_fifo[h[2]][h[3]], Arrives(h), pop, EndDepth) =
          FifoNext(egr_fifo[h[2]][h[3]], Arrives(h), IF pop THEN 1 ELSE 0, EndDepth)
    BY <2>5, Popped
  <2> QED BY <2>4, <2>5, <2>6, <2>7
<1>3. CASE h[1] # Stages
  <2>0. h \in Buffer /\ <<h[1], h[2]>> \in Output
    BY <1>3, Triples DEF Output
  <2>1. sw_fifo' = [b \in Buffer |->
          FifoEdge(sw_fifo[b], IF [x \in Output |-> sw_link(x)][b[1], b[2]] # NoFlit
                                  /\ [x \in Output |-> sw_link(x)][b[1], b[2]].vc = b[3]
                               THEN [x \in Output |-> sw_link(x)][b[1], b[2]] ELSE NoFlit,
                      b \in Pops(Sends), VcDepth)]
    BY DEF Edge, SwitchEdge
  <2>2. sw_fifo'[h] =
          FifoEdge(sw_fifo[h], Of(sw_link(<<h[1], h[2]>>), h[3]), h \in Pops(Sends), VcDepth)
    BY <2>0, <2>1, Zenon DEF Of
  <2>3. Arrives(h) = Of(sw_link(<<h[1], h[2]>>), h[3])
    BY <1>3, WireEnd DEF Arrives
  <2> DEFINE pop == h \in Pops(Sends)
  <2>4. FifoOf(h) = sw_fifo[h] /\ FifoOf(h)' = sw_fifo'[h] /\ Depth(h) = VcDepth
    BY <1>3 DEF FifoOf, Depth
  <2>5. Takes(h, en) = (IF pop THEN 1 ELSE 0) /\ pop \in BOOLEAN
    BY <1>3 DEF Takes, Taking
  <2>6. sw_fifo'[h] = FifoEdge(sw_fifo[h], Arrives(h), pop, VcDepth)
    BY <2>2, <2>3, Zenon
  <2> HIDE DEF pop
  <2>7. FifoEdge(sw_fifo[h], Arrives(h), pop, VcDepth) =
          FifoNext(sw_fifo[h], Arrives(h), IF pop THEN 1 ELSE 0, VcDepth)
    BY <2>5, Popped
  <2> QED BY <2>4, <2>5, <2>6, <2>7
<1> QED BY <1>2, <1>3

\* The wire of a hop takes what the sender sends, which on this channel is Sent(h).
LEMMA WireMoves ==
  ASSUME RadixLaw, Regs, Flits, NEW offer, NEW en, NEW kill, Edge(offer, en, kill), NEW h \in Hop
  PROVE  \E x \in Flit \cup {NoFlit} : Wire(h)' = WireEdge(Wire(h), x) /\ Of(x, h[3]) = Sent(h)
<1>1. h[2] \in Port /\ h[3] \in VC
  BY Triples
<1>2. CASE h[1] = 0
  <2> DEFINE q == h[2]
             go == send_grant(q)
             x == IF go = {} THEN NoFlit ELSE ing_fifo[q][CHOOSE v \in go : TRUE].out
  <2>1. ing_out'[q] = x
    <3>1. ing_out' = [p \in Port |->
            IF [r \in Port |-> send_grant(r)][p] = {} THEN NoFlit
            ELSE ing_fifo[p][CHOOSE v \in [r \in Port |-> send_grant(r)][p] : TRUE].out]
      BY DEF Edge, IngressEdge
    <3>2. ing_out'[q] = IF [r \in Port |-> send_grant(r)][q] = {} THEN NoFlit
                        ELSE ing_fifo[q][CHOOSE v \in [r \in Port |-> send_grant(r)][q] : TRUE].out
      BY <1>1, <3>1
    <3>3. [r \in Port |-> send_grant(r)][q] = send_grant(q)
      BY <1>1
    <3> QED BY <3>2, <3>3
  <2>2. Wire(h)' = <<x>> /\ Len(Wire(h)) = 1
    BY <1>2, <2>1 DEF Wire
  <2>3. WireEdge(Wire(h), x) = <<x>>
    <3> HIDE DEF x
    <3>1. SubSeq(Wire(h), 1, 0) = << >>
      BY SubSeqEmpty
    <3>2. <<x>> \in Seq({x})
      OBVIOUS
    <3>3. <<x>> \o << >> = <<x>>
      BY <3>2, ConcatEmptySeq
    <3>4. WireEdge(Wire(h), x) = <<x>> \o SubSeq(Wire(h), 1, 0)
      BY <2>2 DEF WireEdge
    <3> QED BY <3>1, <3>3, <3>4
  <2>4. \A v \in go : v \in VC /\ ing_fifo[q][v].out \in FlitOn(v)
    <3> TAKE v \in go
    <3>1. v \in VC /\ ing_fifo[q][v].out # NoFlit
      BY GrantOne DEF send_grant, send_req
    <3>2. ing_fifo[q][v] \in Fifo(FlitOn(v))
      BY <1>1, <3>1 DEF Flits
    <3> QED BY <3>1, <3>2 DEF Fifo
  <2>5. \A v, u \in go : v = u
    BY GrantOne DEF send_grant
  <2>6. CASE go = {}
    BY <1>2, <2>2, <2>3, <2>6 DEF Sent, Sending, Of
  <2>7. CASE go # {}
    <3>1. PICK v \in go : v = CHOOSE u \in go : TRUE
      BY <2>7
    <3>2. x = ing_fifo[q][v].out /\ x \in FlitOn(v) /\ x # NoFlit /\ x.vc = v /\ x \in Flit
      BY <2>4, <2>7, <3>1, NoFlitIsNone DEF FlitOn
    <3>3. Sending(h) <=> h[3] = v
      BY <1>2, <2>5 DEF Sending
    <3>4. Of(x, h[3]) = Sent(h)
      BY <1>2, <3>2, <3>3 DEF Of, Sent, Offered
    <3> QED BY <2>2, <2>3, <3>2, <3>4
  <2> QED BY <2>6, <2>7
<1>3. CASE h[1] # 0
  <2> DEFINE c == Behind(h)
             y == <<h[1] - 1, h[2]>>
             sent == {d \in Sends : d[1] = y[1] /\ d[2] = y[2]}
             x == IF sent = {} THEN NoFlit ELSE head(Source(CHOOSE d \in sent : TRUE))
  <2>1. y \in Output /\ c \in Buffer /\ c[1] = y[1] /\ c[2] = y[2] /\ c[3] = h[3] /\ c = <<y[1], y[2], h[3]>>
    BY <1>3, Triples DEF Behind
  <2>2. sw_out'[y] = <<x>> \o SubSeq(sw_out[y], 1, OutPipe)
    BY <2>1 DEF Edge, SwitchEdge
  <2>3. Wire(h) = sw_out[y] /\ Wire(h)' = sw_out'[y]
    BY <1>3 DEF Wire
  <2>4. Len(Wire(h)) - 1 = OutPipe
    <3>1. Len(Wire(h)) = OutPipe + 1
      BY <1>3 DEF Flits
    <3> QED BY <3>1, SwitchAssumption
  <2>5. Wire(h)' = WireEdge(Wire(h), x)
    BY <2>2, <2>3, <2>4 DEF WireEdge
  <2>6. \A d \in sent : d \in Sends /\ head(Source(d)) \in FlitOn(d[3]) /\ d = <<y[1], y[2], d[3]>>
    BY SendFacts, Triples
  <2>7. \A d, e \in sent : d = e
    <3> TAKE d, e \in sent
    <3> QED BY SendFacts
  <2>8. Sending(h) <=> c \in sent
    BY <1>3, <2>1 DEF Sending
  <2>9. CASE sent = {}
    BY <2>5, <2>8, <2>9 DEF Sent, Of
  <2>10. CASE sent # {}
    <3>1. PICK d \in sent : d = CHOOSE e \in sent : TRUE
      BY <2>10
    <3>2. x = head(Source(d)) /\ x \in FlitOn(d[3]) /\ x # NoFlit /\ x.vc = d[3] /\ x \in Flit
      BY <2>6, <2>10, <3>1, NoFlitIsNone DEF FlitOn
    <3> HIDE DEF sent, x
    <3>3. Sending(h) <=> d[3] = h[3]
      BY <2>1, <2>6, <2>7, <2>8
    <3>4. Sending(h) => c = d
      BY <2>7, <2>8
    <3>5. Of(x, h[3]) = Sent(h)
      BY <1>3, <3>2, <3>3, <3>4 DEF Of, Sent, Offered
    <3> QED BY <2>5, <3>2, <3>5
  <2> QED BY <2>9, <2>10
<1> QED BY <1>2, <1>3


\* A buffer with a word on its wire has room for it: that is what the credit was for.
LEMMA RoomBehind ==
  ASSUME Regs, Flits, Conserved, NEW h \in Hop, Arrives(h) # NoFlit
  PROVE  Len(FifoOf(h).core) < Depth(h)
<1> DEFINE S == FlitOn(h[3])
           f == FifoOf(h)
           F == FifoWords(f)
           R == Ridden(Wire(h), h[3])
<1>1. f \in Fifo(S) /\ Wire(h) \in Wires /\ Len(Wire(h)) \in {1, 2}
  BY WireEnd DEF Flits
<1>2. R \in Seq(S) /\ Len(R) >= 1
  BY <1>1, RiddenIsSeq DEF Arrives
<1>3. F \in Seq(S) /\ Len(F) >= Len(f.core) /\ Len(f.core) \in Nat
  <2>1. f.core \in Seq(S) /\ f.out \in S \cup {NoFlit}
    BY <1>1 DEF Fifo
  <2>2. CASE f.out = NoFlit
    BY <2>1, <2>2 DEF FifoWords
  <2>3. CASE f.out # NoFlit
    <3>1. <<f.out>> \in Seq(S) /\ Len(<<f.out>>) = 1
      BY <2>1, <2>3
    <3>2. <<f.out>> \o f.core \in Seq(S) /\ Len(<<f.out>> \o f.core) = Len(<<f.out>>) + Len(f.core)
      BY <2>1, <3>1, ConcatProperties
    <3> QED BY <2>1, <2>3, <3>1, <3>2 DEF FifoWords
  <2> QED BY <2>2, <2>3
<1> HIDE DEF F, R, S, f
<1>4. Len(Cat(F, R)) = Len(F) + Len(R) /\ Len(F) \in Nat /\ Len(R) \in Nat
  BY <1>2, <1>3, ConcatProperties DEF Cat
<1>5. Credit(h) \in Nat /\ Held(h) \in Nat
  <2>1. CASE h[1] = 0
    BY <2>1, Triples, FabricAssumption DEF Credit, Held, Regs
  <2>2. CASE h[1] # 0
    BY <2>2, Triples DEF Credit, Held, Regs
  <2> QED BY <2>1, <2>2
<1>6. Credit(h) + Len(Cat(F, R)) + Held(h) = VcDepth
  BY DEF Conserved, Queue, F, R, f
<1>7. Len(f.core) < VcDepth
  BY <1>2, <1>3, <1>4, <1>5, <1>6, DepthsAssumption
<1> QED BY <1>3, <1>7, DepthsAssumption DEF Depth, f

\* One edge of a hop: a flit is taken from its front, or none, and a flit comes behind
\* it, or none; in between, order is kept and nothing is lost.
LEMMA HopStep ==
  ASSUME RadixLaw, HopInv, NEW offer, NEW en, NEW kill, Edge(offer, en, kill), NEW h \in Hop
  PROVE  /\ FifoOf(h)' \in Fifo(FlitOn(h[3]))
         /\ Wire(h)' \in Wires /\ Len(Wire(h)') = Len(Wire(h))
         /\ Queue(h) \in Seq(FlitOn(h[3]))
         /\ Queue(h)' = Cat(Left(Takes(h, en), Queue(h)), Arrived(Sent(h)))
         /\ Takes(h, en) = 1 => Queue(h) # << >> /\ Head(Queue(h)) = FifoOf(h).out
<1>1. Regs /\ Flits /\ Conserved
  BY DEF HopInv
<1>2. FifoOf(h)' = FifoNext(FifoOf(h), Arrives(h), Takes(h, en), Depth(h))
  BY <1>1, FifoMoves
<1>3. PICK x \in Flit \cup {NoFlit} : Wire(h)' = WireEdge(Wire(h), x) /\ Of(x, h[3]) = Sent(h)
  BY <1>1, WireMoves
<1>4. FifoOf(h) \in Fifo(FlitOn(h[3])) /\ Wire(h) \in Wires /\ Len(Wire(h)) \in {1, 2}
  BY <1>1, WireEnd DEF Flits
<1>5. Takes(h, en) \in {0, 1} /\ (Takes(h, en) = 1 => FifoOf(h).out # NoFlit)
  <2>1. Takes(h, en) \in {0, 1} /\ (Takes(h, en) = 1 => Taking(h, en))
    BY DEF Takes
  <2>2. Taking(h, en) => FifoOf(h).out \in FlitOn(h[3])
    BY <1>1, TakeFacts
  <2> QED BY <2>1, <2>2, NoFlitIsNone DEF FlitOn
<1>6. Depth(h) \in Nat
  BY DepthsAssumption DEF Depth
<1>7. Arrives(h) # NoFlit => Len(FifoOf(h).core) < Depth(h)
  BY <1>1, RoomBehind
<1> DEFINE v == h[3]
           f == FifoOf(h)
           w == Wire(h)
           u == Wire(h)'
           g == FifoOf(h)'
           n == Takes(h, en)
           o == Arrives(h)
           d == Depth(h)
<1>8. /\ f \in Fifo(FlitOn(v)) /\ w \in Wires /\ Len(w) \in {1, 2} /\ u = WireEdge(w, x)
      /\ n \in {0, 1} /\ (n = 1 => f.out # NoFlit) /\ d \in Nat
      /\ o = Of(w[Len(w)], v) /\ (o # NoFlit => Len(f.core) < d) /\ g = FifoNext(f, o, n, d)
  BY <1>2, <1>3, <1>4, <1>5, <1>6, <1>7 DEF Arrives
<1>9. /\ Queue(h) = Cat(FifoWords(f), Ridden(w, v)) /\ Queue(h)' = Cat(FifoWords(g), Ridden(u, v))
      /\ On(x, v) = Arrived(Sent(h))
  BY <1>3 DEF Queue, On
<1> HIDE DEF v, f, w, u, g, n, o, d
<1>10. /\ g \in Fifo(FlitOn(v))
       /\ Cat(FifoWords(g), Ridden(u, v)) = Cat(Left(n, Cat(FifoWords(f), Ridden(w, v))), On(x, v))
       /\ n = 1 => Cat(FifoWords(f), Ridden(w, v)) # << >> /\ Head(Cat(FifoWords(f), Ridden(w, v))) = f.out
  BY <1>8, QueueStep
<1>11. u \in Wires /\ Len(u) = Len(w)
  BY <1>8, WireStep
<1>12. Cat(FifoWords(f), Ridden(w, v)) \in Seq(FlitOn(v))
  <2>1. NoFlit \notin FlitOn(v)
    BY NoFlitIsNone DEF FlitOn
  <2>2. Of(w[Len(w)], v) \in FlitOn(v) \cup {NoFlit}
    BY <1>8, WireEnds, OnIsSeq
  <2>3. FifoWords(f) \in Seq(FlitOn(v))
    BY <1>8, <2>1, <2>2, FifoStep
  <2>4. Ridden(w, v) \in Seq(FlitOn(v))
    BY <1>8, RiddenIsSeq
  <2> QED BY <2>3, <2>4, ConcatProperties DEF Cat
<1> QED BY <1>9, <1>10, <1>11, <1>12 DEF v, f, w, u, g, n


\* The credit of a hop comes back when its buffer gives one out.
Returning(h, en, kill) ==
  IF h[1] = Stages THEN Taking(h, en) ELSE in_credit_out(h, Pops(Sends), kill)

LEMMA CreditMoves ==
  ASSUME NEW offer, NEW en, NEW kill, Edge(offer, en, kill), NEW h \in Hop
  PROVE  Credit(h)' = IF Sending(h) /\ ~Returning(h, en, kill) THEN Credit(h) - 1
                      ELSE IF Returning(h, en, kill) /\ ~Sending(h) THEN Credit(h) + 1 ELSE Credit(h)
<1> DEFINE credits == {b \in Buffer : in_credit_out(b, Pops(Sends), kill)}
           drained == {x \in Port \X VC : x[2] \in out_grant(x[1], en[x[1]])}
           back == {c \in Buffer : IF c[1] = Stages - 1 THEN <<c[2], c[3]>> \in drained
                                  ELSE <<c[1] + 1, c[2], c[3]>> \in credits}
           home == [p \in Port |-> {v \in VC : <<0, p, v>> \in credits}]
           go   == [p \in Port |-> send_grant(p)]
<1>1. h[1] \in 0 .. Stages /\ h[2] \in Port /\ h[3] \in VC /\ h = <<h[1], h[2], h[3]>>
  BY Triples
<1>2. CASE h[1] = 0
  <2>1. ing_credit' = [p \in Port |-> [v \in VC |->
          CreditEdge(ing_credit[p][v], v \in go[p], v \in home[p])]]
    BY DEF Edge, IngressEdge
  <2>2. h \in Buffer /\ h[1] # Stages
    BY <1>2, Triples, FabricAssumption
  <2>3. h[3] \in home[h[2]] <=> Returning(h, en, kill)
    BY <1>1, <1>2, <2>2 DEF Returning
  <2>4. h[3] \in go[h[2]] <=> Sending(h)
    BY <1>1, <1>2 DEF Sending
  <2> HIDE DEF home, go
  <2>5. ing_credit'[h[2]][h[3]] =
          CreditEdge(ing_credit[h[2]][h[3]], h[3] \in go[h[2]], h[3] \in home[h[2]])
    BY <1>1, <2>1, Zenon
  <2> QED BY <1>2, <2>3, <2>4, <2>5 DEF CreditEdge, Credit
<1>3. CASE h[1] # 0
  <2> DEFINE c == Behind(h)
  <2>1. sw_credit' = [e \in Buffer |-> CreditEdge(sw_credit[e], e \in Sends, e \in back)]
    BY DEF Edge, SwitchEdge
  <2>2. c \in Buffer /\ c[1] = h[1] - 1 /\ c[2] = h[2] /\ c[3] = h[3]
    BY <1>3, Triples DEF Behind
  <2>3. c \in back <=> Returning(h, en, kill)
    <3>1. CASE h[1] = Stages
      <4>1. c[1] = Stages - 1
        BY <2>2, <3>1
      <4>2. <<h[2], h[3]>> \in drained <=> h[3] \in out_grant(h[2], en[h[2]])
        BY <1>1
      <4> HIDE DEF drained, credits
      <4> QED BY <2>2, <3>1, <4>1, <4>2 DEF Returning, Taking
    <3>2. CASE h[1] # Stages
      <4>1. c[1] # Stages - 1 /\ <<c[1] + 1, c[2], c[3]>> = h
        <5>1. c[1] + 1 = h[1] /\ c[1] # Stages - 1
          BY <1>1, <2>2, <3>2, FabricAssumption
        <5> QED BY <1>1, <2>2, <5>1
      <4>2. h \in Buffer
        BY <3>2, Triples
      <4>3. h \in credits <=> in_credit_out(h, Pops(Sends), kill)
        BY <4>2
      <4> HIDE DEF credits, drained
      <4> QED BY <2>2, <3>2, <4>1, <4>3 DEF Returning
    <3> QED BY <3>1, <3>2
  <2>4. c \in Sends <=> Sending(h)
    BY <1>3 DEF Sending
  <2> HIDE DEF back, c
  <2>5. sw_credit'[c] = CreditEdge(sw_credit[c], c \in Sends, c \in back)
    BY <2>1, <2>2, Zenon
  <2>6. Credit(h) = sw_credit[c] /\ Credit(h)' = sw_credit'[c]
    BY <1>3 DEF Credit, c
  <2> QED BY <2>3, <2>4, <2>5, <2>6 DEF CreditEdge
<1> QED BY <1>2, <1>3

LEMMA HeldMoves ==
  ASSUME NEW offer, NEW en, NEW kill, Edge(offer, en, kill), NEW h \in Hop, h[1] # Stages
  PROVE  sw_held'[h] = IF h \in Pops(Sends) \cap kill THEN sw_held[h] + 1
                       ELSE IF release_now(h, Pops(Sends), kill) THEN sw_held[h] - 1 ELSE sw_held[h]
<1>1. h \in Buffer
  BY Triples
<1> QED BY <1>1 DEF Edge, SwitchEdge

LEMMA Counts ==
  ASSUME Regs, NEW h \in Hop
  PROVE  Credit(h) \in Nat /\ Held(h) \in Nat
<1>1. CASE h[1] = 0
  BY <1>1, Triples, FabricAssumption DEF Credit, Held, Regs
<1>2. CASE h[1] # 0
  BY <1>2, Triples DEF Credit, Held, Regs
<1> QED BY <1>1, <1>2

\* What one edge does to the length of a hop's queue.
LEMMA LengthMoves ==
  ASSUME RadixLaw, HopInv, NEW offer, NEW en, NEW kill, Edge(offer, en, kill), NEW h \in Hop
  PROVE  /\ Len(Queue(h)) \in Nat
         /\ Len(Queue(h)') = Len(Queue(h)) - (IF Taking(h, en) THEN 1 ELSE 0) + (IF Sending(h) THEN 1 ELSE 0)
<1> DEFINE S == FlitOn(h[3])
           Q == Queue(h)
           L == Left(Takes(h, en), Queue(h))
           A == Arrived(Sent(h))
<1>1. Q \in Seq(S) /\ Queue(h)' = Cat(L, A) /\ (Takes(h, en) = 1 => Q # << >>)
  BY HopStep
<1>2. Sent(h) \in S \cup {NoFlit} /\ (Sending(h) <=> Sent(h) # NoFlit)
  <2>1. Sending(h) => Offered(h) \in S
    BY TakeFacts DEF HopInv
  <2> QED BY <2>1, NoFlitIsNone DEF Sent, FlitOn
<1>3. A \in Seq(S) /\ Len(A) = (IF Sending(h) THEN 1 ELSE 0)
  <2> HIDE DEF S
  <2>1. CASE Sending(h)
    <3>1. Sent(h) \in S /\ A = <<Sent(h)>>
      BY <1>2, <2>1 DEF Arrived
    <3>2. <<Sent(h)>> \in Seq(S) /\ Len(<<Sent(h)>>) = 1
      BY <3>1
    <3> HIDE DEF A
    <3> QED BY <2>1, <3>1, <3>2
  <2>2. CASE ~Sending(h)
    <3>1. A = << >>
      BY <1>2, <2>2 DEF Arrived
    <3> HIDE DEF A
    <3>2. << >> \in Seq(S) /\ Len(<< >>) = 0
      BY EmptySeq
    <3> QED BY <2>2, <3>1, <3>2
  <2> QED BY <2>1, <2>2
<1>4. L \in Seq(S) /\ Len(L) = Len(Q) - (IF Taking(h, en) THEN 1 ELSE 0) /\ Len(Q) \in Nat
  <2> HIDE DEF Q, S
  <2>1. CASE Taking(h, en)
    <3>1. Takes(h, en) = 1
      BY <2>1 DEF Takes
    <3>2. L = Tail(Q)
      BY <3>1 DEF Left, Q
    <3>3. Tail(Q) \in Seq(S) /\ Len(Tail(Q)) = Len(Q) - 1
      BY <1>1, <3>1, HeadTailProperties
    <3> HIDE DEF L
    <3> QED BY <1>1, <2>1, <3>2, <3>3
  <2>2. CASE ~Taking(h, en)
    <3>1. L = Q
      BY <2>2 DEF Left, Takes, Q
    <3> HIDE DEF L
    <3> QED BY <1>1, <2>2, <3>1
  <2> QED BY <2>1, <2>2
<1> HIDE DEF Q, L, A, S
<1>5. Cat(L, A) \in Seq(S) /\ Len(Cat(L, A)) = Len(L) + Len(A)
  BY <1>3, <1>4, ConcatProperties DEF Cat
<1>6. Len(Queue(h)') = Len(L) + Len(A)
  BY <1>1, <1>5
<1> QED BY <1>3, <1>4, <1>6 DEF Q

\* The sum of a hop is the same after an edge.
LEMMA ConservedStep ==
  ASSUME RadixLaw, HopInv, NEW offer, NEW en, NEW kill, Edge(offer, en, kill)
  PROVE  Conserved'
<1> SUFFICES ASSUME NEW h \in Hop PROVE Credit(h)' + Len(Queue(h)') + Held(h)' = VcDepth
  BY DEF Conserved
<1>1. Credit(h) \in Nat /\ Held(h) \in Nat /\ Credit(h) + Len(Queue(h)) + Held(h) = VcDepth
  BY Counts DEF HopInv, Conserved
<1>2. Len(Queue(h)) \in Nat
      /\ Len(Queue(h)') = Len(Queue(h)) - (IF Taking(h, en) THEN 1 ELSE 0) + (IF Sending(h) THEN 1 ELSE 0)
  BY LengthMoves
<1>3. Credit(h)' = IF Sending(h) /\ ~Returning(h, en, kill) THEN Credit(h) - 1
                   ELSE IF Returning(h, en, kill) /\ ~Sending(h) THEN Credit(h) + 1 ELSE Credit(h)
  BY CreditMoves
<1>4. CASE h[1] = Stages
  <2>1. Held(h) = 0 /\ Held(h)' = 0 /\ (Returning(h, en, kill) <=> Taking(h, en))
    BY <1>4 DEF Held, Returning
  <2>2. CASE Taking(h, en)
    BY <1>1, <1>2, <1>3, <2>1, <2>2
  <2>3. CASE ~Taking(h, en)
    BY <1>1, <1>2, <1>3, <2>1, <2>3
  <2> QED BY <2>2, <2>3
<1>5. CASE h[1] # Stages
  <2>1. Taking(h, en) <=> h \in Pops(Sends)
    BY <1>5 DEF Taking
  <2>2. Held(h) = sw_held[h] /\ Held(h)' = sw_held'[h]
    BY <1>5 DEF Held
  <2>3. Returning(h, en, kill) <=> (Taking(h, en) /\ h \notin kill) \/ release_now(h, Pops(Sends), kill)
    BY <1>5, <2>1 DEF Returning, in_credit_out
  <2>4. release_now(h, Pops(Sends), kill) => ~Taking(h, en)
    BY <2>1 DEF release_now
  <2>5. Held(h)' = IF Taking(h, en) /\ h \in kill THEN Held(h) + 1
                   ELSE IF release_now(h, Pops(Sends), kill) THEN Held(h) - 1 ELSE Held(h)
    BY <1>5, <2>1, <2>2, HeldMoves
  <2>6. CASE Taking(h, en)
    <3>1. CASE h \in kill
      BY <1>1, <1>2, <1>3, <2>3, <2>4, <2>5, <2>6, <3>1
    <3>2. CASE h \notin kill
      BY <1>1, <1>2, <1>3, <2>3, <2>4, <2>5, <2>6, <3>2
    <3> QED BY <3>1, <3>2
  <2>7. CASE ~Taking(h, en)
    <3>1. CASE release_now(h, Pops(Sends), kill)
      BY <1>1, <1>2, <1>3, <2>3, <2>5, <2>7, <3>1
    <3>2. CASE ~release_now(h, Pops(Sends), kill)
      BY <1>1, <1>2, <1>3, <2>3, <2>5, <2>7, <3>2
    <3> QED BY <3>1, <3>2
  <2> QED BY <2>6, <2>7
<1> QED BY <1>4, <1>5


-----------------------------------------------------------------------------
(* Types.                                                                  *)

LEMMA OfferTypes ==
  ASSUME Flits, NEW p \in Port, NEW x \in Offers(p)
  PROVE  x \in Flit
<1>1. CASE ing_open[p] # NoFlit
  <2> DEFINE f == ing_open[p]
  <2>1. f \in Flit /\ f.idx < f.len
    BY <1>1 DEF Flits
  <2>2. x = [f EXCEPT !.idx = @ + 1]
    BY <1>1 DEF Offers
  <2>3. x = [src |-> f.src, dest |-> f.dest, vc |-> f.vc, len |-> f.len, seq |-> f.seq, idx |-> f.idx + 1]
    BY <2>1, <2>2 DEF Flit
  <2> QED BY <2>1, <2>3 DEF Flit
<1>2. CASE ing_open[p] = NoFlit
  <2>1. PICK t \in Traffic : t.src = p /\ x = [src |-> p, dest |-> t.dest, vc |-> t.vc, len |-> t.len,
                                             seq |-> ing_seq[p][t.vc], idx |-> 1]
    BY <1>2 DEF Offers
  <2>2. t.dest \in Port /\ t.vc \in VC /\ t.len \in Nat /\ 1 <= t.len
    BY TrafficAssumption
  <2>3. ing_seq[p][t.vc] \in Nat
    BY <2>2 DEF Flits
  <2> QED BY <2>1, <2>2, <2>3 DEF Flit
<1> QED BY <1>1, <1>2

\* What a port frames in this cycle.
New(offer, p) == IF offer[p] = NoFlit THEN NoFlit ELSE Framed(p, offer[p])

LEMMA NewTypes ==
  ASSUME Flits, NEW offer \in Presented, NEW p \in Port
  PROVE  /\ New(offer, p) \in Flit \cup {NoFlit}
         /\ New(offer, p) # NoFlit => /\ New(offer, p) \in Offers(p) /\ New(offer, p) = offer[p]
                                     /\ Len(ing_fifo[p][New(offer, p).vc].core) < EndDepth
<1>1. offer[p] \in Offers(p) \cup {NoFlit}
  BY DEF Presented
<1> QED BY <1>1, OfferTypes DEF New, Framed, s_ready, fifo_s_ready

LEMMA IngressMoves ==
  ASSUME NEW offer, NEW en, NEW kill, Edge(offer, en, kill), NEW p \in Port
  PROVE  /\ ing_open'[p] = IF New(offer, p) = NoFlit THEN ing_open[p]
                           ELSE IF eof(New(offer, p)) THEN NoFlit ELSE New(offer, p)
         /\ \A v \in VC :
              /\ ing_seq'[p][v] = IF New(offer, p) # NoFlit /\ sof(New(offer, p)) /\ New(offer, p).vc = v
                                  THEN (ing_seq[p][v] + 1) % SeqMod ELSE ing_seq[p][v]
              /\ ing_fifo'[p][v] = FifoNext(ing_fifo[p][v], Of(New(offer, p), v),
                                            IF v \in send_grant(p) THEN 1 ELSE 0, EndDepth)
<1> DEFINE new == [r \in Port |-> IF offer[r] = NoFlit THEN NoFlit ELSE Framed(r, offer[r])]
           go  == [r \in Port |-> send_grant(r)]
<1>1. new[p] = New(offer, p) /\ go[p] = send_grant(p)
  BY DEF New
<1>2. /\ ing_open' = [r \in Port |-> IF new[r] = NoFlit THEN ing_open[r]
                                     ELSE IF eof(new[r]) THEN NoFlit ELSE new[r]]
      /\ ing_seq' = [r \in Port |-> [v \in VC |->
             IF new[r] # NoFlit /\ sof(new[r]) /\ new[r].vc = v
             THEN (ing_seq[r][v] + 1) % SeqMod ELSE ing_seq[r][v]]]
      /\ ing_fifo' = [r \in Port |-> [v \in VC |->
             FifoEdge(ing_fifo[r][v], IF new[r] # NoFlit /\ new[r].vc = v THEN new[r] ELSE NoFlit,
                      v \in go[r], EndDepth)]]
  BY DEF Edge, IngressEdge
<1> HIDE DEF new, go
<1>3. ASSUME NEW v \in VC
      PROVE  ing_fifo'[p][v] = FifoNext(ing_fifo[p][v], Of(New(offer, p), v),
                                        IF v \in send_grant(p) THEN 1 ELSE 0, EndDepth)
  <2>1. ing_fifo'[p][v] = FifoEdge(ing_fifo[p][v], Of(new[p], v), v \in go[p], EndDepth)
    BY <1>2, Zenon DEF Of
  <2>2. CASE v \in send_grant(p)
    BY <1>1, <2>1, <2>2 DEF FifoEdge, FifoNext
  <2>3. CASE v \notin send_grant(p)
    BY <1>1, <2>1, <2>3 DEF FifoEdge, FifoNext
  <2> QED BY <2>2, <2>3
<1> QED BY <1>1, <1>2, <1>3

LEMMA IngressTypes ==
  ASSUME Flits, NEW offer \in Presented, NEW en, NEW kill, Edge(offer, en, kill), NEW p \in Port
  PROVE  /\ ing_open'[p] \in Flit \cup {NoFlit}
         /\ ing_open'[p] # NoFlit => ing_open'[p].idx < ing_open'[p].len
         /\ \A v \in VC : ing_seq'[p][v] \in Nat /\ ing_fifo'[p][v] \in Fifo(FlitOn(v))
<1> DEFINE x == New(offer, p)
<1>1. x \in Flit \cup {NoFlit} /\ (x # NoFlit => Len(ing_fifo[p][x.vc].core) < EndDepth)
  BY NewTypes
<1>2. ing_open'[p] \in Flit \cup {NoFlit} /\ (ing_open'[p] # NoFlit => ing_open'[p].idx < ing_open'[p].len)
  <2>1. ing_open'[p] = IF x = NoFlit THEN ing_open[p] ELSE IF eof(x) THEN NoFlit ELSE x
    BY IngressMoves
  <2>2. x # NoFlit /\ ~eof(x) => x.idx < x.len
    BY <1>1 DEF Flit, eof
  <2>3. ing_open[p] \in Flit \cup {NoFlit} /\ (ing_open[p] # NoFlit => ing_open[p].idx < ing_open[p].len)
    BY DEF Flits
  <2> HIDE DEF x
  <2> QED BY <1>1, <2>1, <2>2, <2>3
<1>3. ASSUME NEW v \in VC
      PROVE  ing_seq'[p][v] \in Nat
  <2>1. ing_seq[p][v] \in Nat
    BY DEF Flits
  <2>2. (ing_seq[p][v] + 1) % SeqMod \in Nat
    BY <2>1, TrafficAssumption
  <2>3. ing_seq'[p][v] = IF x # NoFlit /\ sof(x) /\ x.vc = v
                         THEN (ing_seq[p][v] + 1) % SeqMod ELSE ing_seq[p][v]
    BY IngressMoves
  <2> QED BY <2>1, <2>2, <2>3
<1>4. ASSUME NEW v \in VC
      PROVE  ing_fifo'[p][v] \in Fifo(FlitOn(v))
  <2> DEFINE f == ing_fifo[p][v]
             o == Of(x, v)
             n == IF v \in send_grant(p) THEN 1 ELSE 0
  <2>1. f \in Fifo(FlitOn(v)) /\ EndDepth \in Nat /\ n \in {0, 1}
    BY DepthsAssumption DEF Flits
  <2>2. n = 1 => f.out # NoFlit
    BY GrantOne DEF send_grant, send_req
  <2>3. o \in FlitOn(v) \cup {NoFlit} /\ (o # NoFlit => Len(f.core) < EndDepth)
    BY <1>1, OnIsSeq DEF Of
  <2>4. ing_fifo'[p][v] = FifoNext(f, o, n, EndDepth)
    BY IngressMoves
  <2>5. NoFlit \notin FlitOn(v)
    BY NoFlitIsNone DEF FlitOn
  <2> HIDE DEF f, o, n, x
  <2> QED BY <2>1, <2>2, <2>3, <2>4, <2>5, FifoStep
<1> QED BY <1>2, <1>3, <1>4

LEMMA FlitsStep ==
  ASSUME RadixLaw, HopInv, NEW offer \in Presented, NEW en, NEW kill, Edge(offer, en, kill)
  PROVE  Flits'
<1>1. Flits
  BY DEF HopInv
<1>2. ASSUME NEW h \in Hop
      PROVE  FifoOf(h)' \in Fifo(FlitOn(h[3])) /\ Wire(h)' \in Wires
             /\ Len(Wire(h)') = (IF h[1] = 0 THEN 1 ELSE OutPipe + 1)
  <2>1. FifoOf(h)' \in Fifo(FlitOn(h[3])) /\ Wire(h)' \in Wires /\ Len(Wire(h)') = Len(Wire(h))
    BY HopStep
  <2>2. Len(Wire(h)) = (IF h[1] = 0 THEN 1 ELSE OutPipe + 1)
    BY <1>1 DEF Flits
  <2> QED BY <2>1, <2>2
<1>3. ASSUME NEW p \in Port
      PROVE  /\ ing_open'[p] \in Flit \cup {NoFlit}
             /\ ing_open'[p] # NoFlit => ing_open'[p].idx < ing_open'[p].len
             /\ \A v \in VC : ing_seq'[p][v] \in Nat /\ ing_fifo'[p][v] \in Fifo(FlitOn(v))
  BY <1>1, IngressTypes
<1> QED BY <1>2, <1>3 DEF Flits


LEMMA RouteTypes ==
  ASSUME RadixLaw, Flits, NEW b \in Buffer, head(b) # NoFlit, sof(head(b))
  PROVE  route_eff(b) \in Local
<1>1. head(b) \in Flit
  BY FifoTypes DEF FlitOn
<1>2. head(b).dest \in Nat
  BY <1>1, Ports DEF Flit
<1>3. b[1] \in Stage
  BY Triples
<1>4. Weight(b[1]) \in Nat \ {0} /\ Radix \in Nat \ {0}
  BY <1>3, Weights, FabricAssumption
<1>5. Quo(head(b).dest, Weight(b[1])) \in Nat
  BY <1>2, <1>4, DivMod
<1>6. Rem(Quo(head(b).dest, Weight(b[1])), Radix) \in 0 .. Radix - 1
  BY <1>4, <1>5, DivMod
<1> QED BY <1>6 DEF route_eff, digit, Rem, Quo, Weight, Local

LEMMA RegsStep ==
  ASSUME RadixLaw, HopInv, NEW offer, NEW en \in Taken, NEW kill, Edge(offer, en, kill)
  PROVE  Regs'
<1>1. Regs /\ Flits
  BY DEF HopInv
<1>2. N_VC \in Nat \ {0} /\ VC = 0 .. N_VC - 1 /\ Radix \in Nat \ {0} /\ Local = 0 .. Radix - 1
  BY FabricAssumption DEF VC, Local
<1>3. ing_ptr' \in [Port -> VC]
  <2>1. ing_ptr' = [p \in Port |-> PtrNext(send_req(p), ing_ptr[p], N_VC)]
    BY DEF Edge, IngressEdge
  <2>2. \A p \in Port : PtrNext(send_req(p), ing_ptr[p], N_VC) \in VC
    <3> TAKE p \in Port
    <3>1. send_req(p) \in SUBSET VC /\ ing_ptr[p] \in VC
      BY <1>1 DEF send_req, Regs
    <3> QED BY <1>2, <3>1, PtrStays
  <2> QED BY <2>1, <2>2
<1>4. egr_ptr' \in [Port -> VC]
  <2>1. egr_ptr' = [p \in Port |-> PtrNext(out_req(p, en[p]), egr_ptr[p], N_VC)]
    BY DEF Edge, EgressEdge
  <2>2. \A p \in Port : PtrNext(out_req(p, en[p]), egr_ptr[p], N_VC) \in VC
    <3> TAKE p \in Port
    <3>1. out_req(p, en[p]) \in SUBSET VC /\ egr_ptr[p] \in VC
      BY <1>1 DEF out_req, Regs, Taken
    <3> QED BY <1>2, <3>1, PtrStays
  <2> QED BY <2>1, <2>2
<1>5. sa_ptr' \in [Output -> VC]
  <2>1. sa_ptr' = [x \in Output |-> PtrNext(sa_req(x[1], x[2]), sa_ptr[x], N_VC)]
    BY DEF Edge, SwitchEdge
  <2>2. \A x \in Output : PtrNext(sa_req(x[1], x[2]), sa_ptr[x], N_VC) \in VC
    <3> TAKE x \in Output
    <3>1. sa_req(x[1], x[2]) \in SUBSET VC /\ sa_ptr[x] \in VC
      BY <1>1 DEF sa_req, Regs
    <3> QED BY <1>2, <3>1, PtrStays
  <2> QED BY <2>1, <2>2
<1>6. va_ptr' \in [Buffer -> Local]
  <2>1. va_ptr' = [c \in Buffer |-> PtrNext(va_req(c[1], c[2], c[3]), va_ptr[c], Radix)]
    BY DEF Edge, SwitchEdge
  <2>2. \A c \in Buffer : PtrNext(va_req(c[1], c[2], c[3]), va_ptr[c], Radix) \in Local
    <3> TAKE c \in Buffer
    <3>1. va_req(c[1], c[2], c[3]) \in SUBSET Local /\ va_ptr[c] \in Local
      BY <1>1 DEF va_req, Regs
    <3> QED BY <1>2, <3>1, PtrStays
  <2> QED BY <2>1, <2>2
<1>7. sw_route' \in [Buffer -> Local]
  <2>1. sw_route' = [b \in Buffer |->
          IF b \in Pops(Sends) /\ sof(head(b)) THEN route_eff(b) ELSE sw_route[b]]
    BY DEF Edge, SwitchEdge
  <2>2. \A b \in Buffer : (IF b \in Pops(Sends) /\ sof(head(b)) THEN route_eff(b) ELSE sw_route[b]) \in Local
    <3> TAKE b \in Buffer
    <3>1. b \in Pops(Sends) => head(b) # NoFlit
      BY <1>1, SendFacts, NoFlitIsNone DEF head, FlitOn
    <3>2. sw_route[b] \in Local
      BY <1>1 DEF Regs
    <3> QED BY <1>1, <3>1, <3>2, RouteTypes
  <2> QED BY <2>1, <2>2
<1>8. sw_lock' \in [Buffer -> 0 .. Free]
  <2>1. sw_lock' = [c \in Buffer |-> lock_d(c[1], c[2], c[3], Sends)]
    BY DEF Edge, SwitchEdge
  <2>2. \A c \in Buffer : lock_d(c[1], c[2], c[3], Sends) \in 0 .. Free
    <3> TAKE c \in Buffer
    <3>1. sw_lock[c] \in 0 .. Free /\ c = <<c[1], c[2], c[3]>>
      BY <1>1, Triples DEF Regs
    <3>2. va_grant(c[1], c[2], c[3]) \subseteq Local
      <4>1. va_grant(c[1], c[2], c[3]) \subseteq va_req(c[1], c[2], c[3])
        BY GrantOne DEF va_grant
      <4> QED BY <4>1 DEF va_req
    <3>3. \A i \in Local : i \in 0 .. Free
      BY <1>2 DEF Free
    <3>4. Free \in 0 .. Free
      BY <1>2 DEF Free
    <3>5. va_grant(c[1], c[2], c[3]) # {} =>
            (CHOOSE i \in va_grant(c[1], c[2], c[3]) : TRUE) \in va_grant(c[1], c[2], c[3])
      OBVIOUS
    <3> QED BY <3>1, <3>2, <3>3, <3>4, <3>5 DEF lock_d
  <2> QED BY <2>1, <2>2
<1>9. sw_credit' \in [Buffer -> Nat]
  <2>1. sw_credit' = [c \in Buffer |-> sw_credit'[c]]
    BY DEF Edge, SwitchEdge
  <2>2. \A c \in Buffer : sw_credit'[c] \in Nat
    <3> TAKE c \in Buffer
    <3> DEFINE h == <<c[1] + 1, c[2], c[3]>>
    <3>1. h \in Hop /\ Behind(h) = c /\ h[1] # 0
      BY Triples DEF Stage
    <3>2. Credit(h) \in Nat /\ (Sending(h) => Credit(h) > 0)
      BY <1>1, <3>1, Counts, TakeFacts
    <3>3. Credit(h)' \in Nat
      <4> HIDE DEF h
      <4>1. Credit(h)' = IF Sending(h) /\ ~Returning(h, en, kill) THEN Credit(h) - 1
                   ELSE IF Returning(h, en, kill) /\ ~Sending(h) THEN Credit(h) + 1 ELSE Credit(h)
        BY <3>1, CreditMoves
      <4> QED BY <3>2, <4>1
    <3>4. Credit(h)' = sw_credit'[c]
      BY <3>1 DEF Credit
    <3> QED BY <3>3, <3>4
  <2> HIDE DEF Buffer
  <2> QED BY <2>1, <2>2
<1>10. sw_held' \in [Buffer -> Nat]
  <2>1. sw_held' = [b \in Buffer |-> sw_held'[b]]
    BY DEF Edge, SwitchEdge
  <2>2. \A b \in Buffer : sw_held'[b] \in Nat
    <3> TAKE b \in Buffer
    <3>1. b \in Hop /\ b[1] # Stages
      <4>1. b[1] \in Stage /\ b[2] \in Port /\ b[3] \in VC /\ b = <<b[1], b[2], b[3]>>
        BY Triples
      <4>2. <<b[1], b[2], b[3]>> \in Hop
        BY <4>1, Triples
      <4> QED BY <4>1, <4>2, FabricAssumption DEF Stage
    <3>2. sw_held[b] \in Nat
      BY <1>1 DEF Regs
    <3>3. release_now(b, Pops(Sends), kill) => sw_held[b] > 0
      BY DEF release_now
    <3>4. sw_held'[b] = IF b \in Pops(Sends) \cap kill THEN sw_held[b] + 1
                       ELSE IF release_now(b, Pops(Sends), kill) THEN sw_held[b] - 1 ELSE sw_held[b]
      BY <3>1, HeldMoves
    <3> QED BY <3>2, <3>3, <3>4
  <2> QED BY <2>1, <2>2
<1>11. ASSUME NEW p \in Port
       PROVE  ing_credit'[p] \in [VC -> Nat]
  <2>1. ing_credit'[p] = [v \in VC |-> ing_credit'[p][v]]
    BY DEF Edge, IngressEdge
  <2>2. \A v \in VC : ing_credit'[p][v] \in Nat
    <3> TAKE v \in VC
    <3> DEFINE h == <<0, p, v>>
    <3>1. h \in Hop /\ h[1] = 0 /\ h[2] = p /\ h[3] = v
      BY FabricAssumption DEF Hop
    <3>2. Credit(h) \in Nat /\ (Sending(h) => Credit(h) > 0)
      BY <1>1, <3>1, Counts, TakeFacts
    <3>3. Credit(h)' \in Nat
      <4> HIDE DEF h
      <4>1. Credit(h)' = IF Sending(h) /\ ~Returning(h, en, kill) THEN Credit(h) - 1
                   ELSE IF Returning(h, en, kill) /\ ~Sending(h) THEN Credit(h) + 1 ELSE Credit(h)
        BY <3>1, CreditMoves
      <4> QED BY <3>2, <4>1
    <3>4. Credit(h)' = ing_credit'[p][v]
      BY <3>1 DEF Credit
    <3> QED BY <3>3, <3>4
  <2> QED BY <2>1, <2>2
<1> QED BY <1>3, <1>4, <1>5, <1>6, <1>7, <1>8, <1>9, <1>10, <1>11 DEF Regs


-----------------------------------------------------------------------------
(* Credits are conserved.                                                  *)

LEMMA EmptyQueues ==
  ASSUME Init, NEW h \in Hop
  PROVE  /\ FifoOf(h) = EmptyFifo /\ Wire(h) \in Wires
         /\ Len(Wire(h)) = (IF h[1] = 0 THEN 1 ELSE OutPipe + 1)
         /\ Queue(h) = << >> /\ Credit(h) = VcDepth /\ Held(h) = 0
<1> USE DEF Init, IngressInit, SwitchInit, EgressInit
<1>1. h[2] \in Port /\ h[3] \in VC /\ (h[1] # Stages => h \in Buffer)
      /\ (h[1] # 0 => Behind(h) \in Buffer /\ <<h[1] - 1, h[2]>> \in Output)
  BY Triples
<1>2. FifoOf(h) = EmptyFifo
  BY <1>1 DEF FifoOf
<1>3. FifoWords(EmptyFifo) = << >>
  BY DEF FifoWords, EmptyFifo
<1>4. On(NoFlit, h[3]) = << >>
  BY DEF On, Of, Arrived
<1>5. Credit(h) = VcDepth /\ Held(h) = 0
  BY <1>1 DEF Credit, Held
<1>6. Cat(<< >>, << >>) = << >>
  BY DEF Cat
<1>7. CASE h[1] = 0
  <2>1. Wire(h) = <<NoFlit>>
    BY <1>1, <1>7 DEF Wire
  <2>2. Wire(h) \in Wires /\ Len(Wire(h)) = 1 /\ Wire(h)[1] = NoFlit
    BY <2>1 DEF Wires
  <2>3. Ridden(Wire(h), h[3]) = << >>
    BY <1>4, <2>2 DEF Ridden
  <2> QED BY <1>2, <1>3, <1>5, <1>6, <1>7, <2>2, <2>3 DEF Queue
<1>8. CASE h[1] # 0
  <2> DEFINE n == OutPipe + 1
  <2>1. Wire(h) = [i \in 1 .. n |-> NoFlit]
    BY <1>1, <1>8 DEF Wire
  <2>2. n \in {1, 2}
    BY SwitchAssumption
  <2> HIDE DEF n
  <2>3. Wire(h) \in Wires /\ Len(Wire(h)) = n
    BY <2>1, <2>2 DEF Wires
  <2>4. Wire(h)[1] = NoFlit /\ (n = 2 => Wire(h)[2] = NoFlit)
    BY <2>1, <2>2
  <2>5. Ridden(Wire(h), h[3]) = << >>
    BY <1>4, <1>6, <2>2, <2>3, <2>4 DEF Ridden
  <2> QED BY <1>2, <1>3, <1>5, <1>6, <1>8, <2>3, <2>5 DEF Queue, n
<1> QED BY <1>7, <1>8

LEMMA HopInit == RadixLaw /\ Init => HopInv
<1> SUFFICES ASSUME RadixLaw, Init PROVE HopInv
  OBVIOUS
<1>1. Regs
  <2>1. 0 \in VC /\ 0 \in Local /\ Free \in 0 .. Free /\ VcDepth \in Nat /\ 0 \in Nat
    BY FabricAssumption, DepthsAssumption DEF VC, Local, Free
  <2> QED BY <2>1 DEF Regs, Init, IngressInit, SwitchInit, EgressInit
<1>2. Flits
  <2>1. \A v : EmptyFifo \in Fifo(FlitOn(v))
    BY DEF EmptyFifo, Fifo
  <2>2. \A h \in Hop : FifoOf(h) \in Fifo(FlitOn(h[3])) /\ Wire(h) \in Wires
          /\ Len(Wire(h)) = (IF h[1] = 0 THEN 1 ELSE OutPipe + 1)
    BY <2>1, EmptyQueues
  <2>3. \A p \in Port, v \in VC : ing_open[p] = NoFlit /\ ing_seq[p][v] = 0 /\ ing_fifo[p][v] = EmptyFifo
    BY DEF Init, IngressInit
  <2>4. \A p \in Port : ing_open[p] = NoFlit
    BY DEF Init, IngressInit
  <2> QED BY <2>1, <2>2, <2>3, <2>4 DEF Flits
<1>3. Conserved
  <2>1. Len(<< >>) = 0
    OBVIOUS
  <2> QED BY <2>1, EmptyQueues, DepthsAssumption DEF Conserved
<1> QED BY <1>1, <1>2, <1>3 DEF HopInv

LEMMA HopNext == RadixLaw /\ HopInv /\ [Next]_vars => HopInv'
<1> SUFFICES ASSUME RadixLaw, HopInv, [Next]_vars PROVE HopInv'
  OBVIOUS
<1>1. CASE Next
  <2>1. PICK offer \in Presented, en \in Taken, kill \in SUBSET Withheld : Edge(offer, en, kill)
    BY <1>1 DEF Next
  <2> QED BY <2>1, RegsStep, FlitsStep, ConservedStep DEF HopInv
<1>2. CASE UNCHANGED vars
  <2> USE <1>2 DEF vars, ingVars, swVars, egrVars
  <2>1. Regs'
    BY DEF HopInv, Regs
  <2>2. Flits'
    BY DEF HopInv, Flits, FifoOf, Wire
  <2>3. Conserved'
    <3>1. \A h : Queue(h)' = Queue(h) /\ Credit(h)' = Credit(h) /\ Held(h)' = Held(h)
      BY DEF Queue, Credit, Held, FifoOf, Wire
    <3> QED BY <3>1 DEF HopInv, Conserved
  <2> QED BY <2>1, <2>2, <2>3 DEF HopInv
<1> QED BY <1>1, <1>2

\* What the property counts on a link is what rides on the wire.
LEMMA LinkCount ==
  ASSUME NEW w \in Wires, Len(w) \in {1, 2}, NEW v
  PROVE  OnLink(w, v) = Len(Ridden(w, v)) /\ Len(Ridden(w, v)) \in Nat
<1> DEFINE hit(i) == w[i] # NoFlit /\ w[i].vc = v
           H == {i \in DOMAIN w : hit(i)}
<1>1. DOMAIN w = 1 .. Len(w)
  BY DEF Wires
<1>2. \A i \in 1 .. Len(w) : /\ On(w[i], v) \in Seq(FlitOn(v))
                              /\ Len(On(w[i], v)) = IF hit(i) THEN 1 ELSE 0
  <2> TAKE i \in 1 .. Len(w)
  <2>1. w[i] \in Flit \cup {NoFlit}
    BY DEF Wires
  <2>2. Of(w[i], v) = NoFlit <=> ~hit(i)
    BY DEF Of
  <2> QED BY <2>1, <2>2, OnIsSeq
<1>3. Cardinality({}) = 0 /\ \A x : Cardinality({x}) = 1
  BY FS_EmptySet, FS_Singleton
<1>4. CASE Len(w) = 1
  <2>0. 1 \in 1 .. Len(w) /\ DOMAIN w = {1}
    BY <1>1, <1>4
  <2>1. Len(Ridden(w, v)) = IF hit(1) THEN 1 ELSE 0
    BY <1>2, <1>4, <2>0 DEF Ridden
  <2>5. OnLink(w, v) = Cardinality(H)
    BY DEF OnLink
  <2>6. H = IF hit(1) THEN {1} ELSE {}
    BY <2>0
  <2> HIDE DEF H, hit
  <2>2. CASE hit(1)
    <3>1. H = {1}
      BY <2>6, <2>2
    <3> QED BY <1>3, <2>1, <2>2, <2>5, <3>1
  <2>3. CASE ~hit(1)
    <3>1. H = {}
      BY <2>6, <2>3
    <3> QED BY <1>3, <2>1, <2>3, <2>5, <3>1
  <2> QED BY <2>2, <2>3
<1>5. CASE Len(w) = 2
  <2>0. 1 \in 1 .. Len(w) /\ 2 \in 1 .. Len(w) /\ DOMAIN w = {1, 2}
    BY <1>1, <1>5
  <2>1. Ridden(w, v) = Cat(On(w[2], v), On(w[1], v))
    BY <1>5 DEF Ridden
  <2>2. Len(Cat(On(w[2], v), On(w[1], v))) = Len(On(w[2], v)) + Len(On(w[1], v))
    BY <1>2, <2>0, ConcatProperties DEF Cat
  <2>3. Len(Ridden(w, v)) = (IF hit(2) THEN 1 ELSE 0) + (IF hit(1) THEN 1 ELSE 0)
    BY <1>2, <2>0, <2>1, <2>2
  <2>4. Cardinality({1, 2}) = 2
    <3>1. IsFiniteSet({1}) /\ Cardinality({1}) = 1
      BY FS_Singleton
    <3>2. 2 \notin {1}
      OBVIOUS
    <3>3. {1, 2} = {1} \cup {2}
      OBVIOUS
    <3>4. Cardinality({1} \cup {2}) = Cardinality({1}) + 1
      BY <3>1, <3>2, FS_AddElement
    <3>5. Cardinality({1} \cup {2}) = 2
      BY <3>1, <3>4
    <3> QED BY <3>3, <3>5
  <2>5. OnLink(w, v) = Cardinality(H)
    BY DEF OnLink
  <2>6. H = (IF hit(1) THEN {1} ELSE {}) \cup (IF hit(2) THEN {2} ELSE {})
    BY <2>0
  <2> HIDE DEF H, hit
  <2>7. CASE hit(1) /\ hit(2)
    <3>1. H = {1, 2}
      BY <2>6, <2>7
    <3> QED BY <2>3, <2>4, <2>5, <2>7, <3>1
  <2>8. CASE hit(1) /\ ~hit(2)
    <3>1. H = {1}
      BY <2>6, <2>8
    <3> QED BY <1>3, <2>3, <2>5, <2>8, <3>1
  <2>9. CASE ~hit(1) /\ hit(2)
    <3>1. H = {2}
      BY <2>6, <2>9
    <3> QED BY <1>3, <2>3, <2>5, <2>9, <3>1
  <2>10. CASE ~hit(1) /\ ~hit(2)
    <3>1. H = {}
      BY <2>6, <2>10
    <3> QED BY <1>3, <2>3, <2>5, <2>10, <3>1
  <2> QED BY <2>7, <2>8, <2>9, <2>10
<1> QED BY <1>4, <1>5

\* A hop's queue is the buffer and the wire.
LEMMA QueueLength ==
  ASSUME Flits, NEW h \in Hop
  PROVE  /\ Len(Queue(h)) = Len(FifoWords(FifoOf(h))) + OnLink(Wire(h), h[3])
         /\ Len(FifoWords(FifoOf(h))) \in Nat /\ OnLink(Wire(h), h[3]) \in Nat
<1> DEFINE S == FlitOn(h[3])
           F == FifoWords(FifoOf(h))
           R == Ridden(Wire(h), h[3])
<1>1. Wire(h) \in Wires /\ Len(Wire(h)) \in {1, 2}
  BY WireEnd
<1>2. OnLink(Wire(h), h[3]) = Len(R) /\ R \in Seq(S)
  BY <1>1, LinkCount, RiddenIsSeq
<1>3. F \in Seq(S)
  <2>1. FifoOf(h) \in Fifo(S) /\ NoFlit \notin S
    BY NoFlitIsNone DEF Flits, FlitOn
  <2>2. FifoOf(h).core \in Seq(S) /\ FifoOf(h).out \in S \cup {NoFlit}
    BY <2>1 DEF Fifo
  <2>3. CASE FifoOf(h).out = NoFlit
    BY <2>2, <2>3 DEF FifoWords
  <2>4. CASE FifoOf(h).out # NoFlit
    <3>1. <<FifoOf(h).out>> \in Seq(S)
      BY <2>2, <2>4
    <3>2. <<FifoOf(h).out>> \o FifoOf(h).core \in Seq(S)
      BY <2>2, <3>1, ConcatProperties
    <3> QED BY <2>4, <3>2 DEF FifoWords
  <2> QED BY <2>3, <2>4
<1> HIDE DEF F, R, S
<1>4. Len(Cat(F, R)) = Len(F) + Len(R) /\ Len(F) \in Nat /\ Len(R) \in Nat
  BY <1>2, <1>3, ConcatProperties DEF Cat
<1> QED BY <1>2, <1>4 DEF Queue, F, R

LEMMA HopInvGives == HopInv => CreditsConserved
<1> SUFFICES ASSUME HopInv PROVE CreditsConserved
  OBVIOUS
<1>1. Regs /\ Flits /\ Conserved
  BY DEF HopInv
<1>2. ASSUME NEW h \in Hop
      PROVE  /\ Credit(h) + OnLink(Wire(h), h[3]) + (Len(FifoWords(FifoOf(h))) + Held(h)) = VcDepth
             /\ Credit(h) \in 0 .. VcDepth /\ Held(h) \in 0 .. VcDepth
             /\ Len(FifoWords(FifoOf(h))) \in Nat
  <2>1. Credit(h) + Len(Queue(h)) + Held(h) = VcDepth
    BY <1>1 DEF Conserved
  <2>2. Credit(h) \in Nat /\ Held(h) \in Nat
    BY <1>1, Counts
  <2>3. /\ Len(Queue(h)) = Len(FifoWords(FifoOf(h))) + OnLink(Wire(h), h[3])
        /\ Len(FifoWords(FifoOf(h))) \in Nat /\ OnLink(Wire(h), h[3]) \in Nat
    BY <1>1, QueueLength
  <2> QED BY <2>1, <2>2, <2>3, DepthsAssumption
<1>3. ASSUME NEW p \in Port, NEW v \in VC
      PROVE  /\ ing_credit[p][v] + OnLink(<<ing_out[p]>>, v) + Used(<<0, p, v>>) = VcDepth
             /\ ing_credit[p][v] \in 0 .. VcDepth
  <2> DEFINE h == <<0, p, v>>
  <2>1. h \in Hop /\ h[1] = 0 /\ h[2] = p /\ h[3] = v /\ h[1] # Stages
    BY FabricAssumption DEF Hop
  <2>2. /\ Credit(h) = ing_credit[p][v] /\ Wire(h) = <<ing_out[p]>>
        /\ Used(h) = Len(FifoWords(FifoOf(h))) + Held(h)
    BY <2>1 DEF Credit, Wire, Used, FifoOf, Held
  <2> HIDE DEF h
  <2>3. /\ Credit(h) + OnLink(Wire(h), v) + Used(h) = VcDepth /\ Credit(h) \in 0 .. VcDepth
    BY <1>2, <2>1, <2>2
  <2> QED BY <2>2, <2>3 DEF h
<1>4. ASSUME NEW c \in Buffer
      PROVE  /\ sw_credit[c] + OnLink(sw_out[c[1], c[2]], c[3])
                + (IF c[1] = Stages - 1 THEN Len(FifoWords(egr_fifo[c[2]][c[3]]))
                   ELSE Used(<<c[1] + 1, c[2], c[3]>>)) = VcDepth
             /\ sw_credit[c] \in 0 .. VcDepth
  <2> DEFINE h == <<c[1] + 1, c[2], c[3]>>
  <2>1. c[1] \in Stage /\ c[2] \in Port /\ c[3] \in VC /\ c = <<c[1], c[2], c[3]>>
    BY Triples
  <2>2. h \in Hop /\ Behind(h) = c /\ h[1] = c[1] + 1 /\ h[2] = c[2] /\ h[3] = c[3]
    BY <2>1, Triples
  <2>3. c[1] + 1 # 0 /\ (c[1] = Stages - 1 <=> c[1] + 1 = Stages) /\ (c[1] + 1) - 1 = c[1]
    BY <2>1, FabricAssumption DEF Stage
  <2> HIDE DEF h
  <2>4. Credit(h) = sw_credit[c] /\ Wire(h) = sw_out[c[1], c[2]]
    BY <2>2, <2>3 DEF Credit, Wire
  <2>5. Len(FifoWords(FifoOf(h))) + Held(h) =
          IF c[1] = Stages - 1 THEN Len(FifoWords(egr_fifo[c[2]][c[3]])) ELSE Used(h)
    <3>1. CASE c[1] = Stages - 1
      <4>1. Len(FifoWords(FifoOf(h))) \in Nat
        BY <1>2, <2>2
      <4> QED BY <2>2, <2>3, <3>1, <4>1 DEF FifoOf, Held
    <3>2. CASE c[1] # Stages - 1
      BY <2>2, <2>3, <3>2 DEF FifoOf, Held, Used
    <3> QED BY <3>1, <3>2
  <2>6. /\ Credit(h) + OnLink(Wire(h), h[3]) + (Len(FifoWords(FifoOf(h))) + Held(h)) = VcDepth
        /\ Credit(h) \in 0 .. VcDepth
    BY <1>2, <2>2
  <2> QED BY <2>2, <2>4, <2>5, <2>6 DEF h
<1>5. \A b \in Buffer : sw_held[b] \in 0 .. VcDepth
  <2> TAKE b \in Buffer
  <2>1. b \in Hop /\ b[1] # Stages
    <3>1. b[1] \in Stage /\ b[2] \in Port /\ b[3] \in VC /\ b = <<b[1], b[2], b[3]>>
      BY Triples
    <3>2. <<b[1], b[2], b[3]>> \in Hop
      BY <3>1, Triples
    <3> QED BY <3>1, <3>2, FabricAssumption DEF Stage
  <2>2. Held(b) \in 0 .. VcDepth
    BY <1>2, <2>1
  <2> QED BY <2>1, <2>2 DEF Held
<1>6. TypeOK
  <2>1. sw_credit \in [Buffer -> 0 .. VcDepth]
    <3>1. sw_credit \in [Buffer -> Nat]
      BY <1>1 DEF Regs
    <3>2. \A c \in Buffer : sw_credit[c] \in 0 .. VcDepth
      BY <1>4
    <3> QED BY <3>1, <3>2
  <2>2. sw_held \in [Buffer -> 0 .. VcDepth]
    <3>1. sw_held \in [Buffer -> Nat]
      BY <1>1 DEF Regs
    <3> QED BY <1>5, <3>1
  <2>3. \A p \in Port : ing_credit[p] \in [VC -> 0 .. VcDepth]
    <3> TAKE p \in Port
    <3>1. ing_credit[p] \in [VC -> Nat]
      BY <1>1 DEF Regs
    <3>2. \A v \in VC : ing_credit[p][v] \in 0 .. VcDepth
      BY <1>3
    <3> QED BY <3>1, <3>2
  <2> QED BY <1>1, <2>1, <2>2, <2>3 DEF TypeOK, Regs
<1> QED BY <1>3, <1>4, <1>6 DEF CreditsConserved

\* Credits are conserved on every hop, whatever the geometry, the depths, the traffic,
\* the consumers and the credits withheld: held by the sender, riding with a flit, in the
\* buffer behind, or withheld - never minted, never lost - and every register keeps to
\* its range (CreditsConserved; pkt_switch_stage.sv section 3).
THEOREM CreditsAlwaysConserved == PowersOfRadix => (Spec => []CreditsConserved)
<1>1. PowersOfRadix => (Spec => []HopInv)
  <2> SUFFICES ASSUME PowersOfRadix PROVE Spec => []HopInv
    OBVIOUS
  <2>1. Init => HopInv
    BY HopInit, PowersMultiply
  <2>2. HopInv /\ [Next]_vars => HopInv'
    BY HopNext, PowersMultiply
  <2> QED BY <2>1, <2>2, PTL DEF Spec
<1> QED BY <1>1, HopInvGives, PTL

-----------------------------------------------------------------------------
(* Packets on a channel.  What passes a point of a channel is a chain: each *)
(* flit continues the packet of the one before it, or opens one.           *)

\* No packet is open behind flit f.
Shut(f)       == f = NoFlit \/ eof(f)
Follows(a, f) == IF Shut(a) THEN sof(f) ELSE f = [a EXCEPT !.idx = @ + 1]
Before(a, w, i) == IF i = 1 THEN a ELSE w[i - 1]
Linked(a, w)  == \A i \in 1 .. Len(w) : Follows(Before(a, w, i), w[i])
EndOf(a, w)   == IF w = << >> THEN a ELSE w[Len(w)]

LEMMA FlitFollows ==
  ASSUME NEW a \in Flit \cup {NoFlit}, NEW f \in Flit, Follows(a, f)
  PROVE  /\ sof(f) <=> Shut(a)
         /\ ~Shut(a) => /\ a \in Flit /\ f.idx = a.idx + 1 /\ f.len = a.len /\ f.vc = a.vc
                        /\ a.idx < a.len
<1>1. CASE Shut(a)
  BY <1>1 DEF Follows
<1>2. CASE ~Shut(a)
  <2>1. a \in Flit /\ a.idx # a.len
    BY <1>2 DEF Shut, eof
  <2>2. f = [a EXCEPT !.idx = @ + 1]
    BY <1>2 DEF Follows
  <2>3. f = [src |-> a.src, dest |-> a.dest, vc |-> a.vc, len |-> a.len, seq |-> a.seq, idx |-> a.idx + 1]
    BY <2>1, <2>2 DEF Flit
  <2> QED BY <1>2, <2>1, <2>3 DEF Flit, sof
<1> QED BY <1>1, <1>2

LEMMA ChainPush ==
  ASSUME NEW S, NEW a, NEW w \in Seq(S), NEW x \in S, Linked(a, w), Follows(EndOf(a, w), x)
  PROVE  Linked(a, Cat(w, <<x>>)) /\ EndOf(a, Cat(w, <<x>>)) = x
<1> DEFINE n == Len(w)
           u == Cat(w, <<x>>)
<1>1. n \in Nat
  BY LenProperties
<1>2. u \in Seq(S) /\ Len(u) = n + 1 /\ u[n + 1] = x /\ \A i \in 1 .. n : u[i] = w[i]
  <2>1. u = Append(w, x)
    BY AppendIsConcat DEF Cat
  <2> QED BY <2>1, AppendProperties
<1>3. w = << >> <=> n = 0
  BY EmptySeq
<1> HIDE DEF n, u
<1>4. u # << >>
  BY <1>1, <1>2
<1>5. EndOf(a, u) = x
  BY <1>2, <1>4 DEF EndOf
<1>6. ASSUME NEW i \in 1 .. n PROVE Follows(Before(a, u, i), u[i])
  <2>1. Follows(Before(a, w, i), w[i])
    BY DEF Linked, n
  <2>2. Before(a, u, i) = Before(a, w, i) /\ u[i] = w[i]
    BY <1>1, <1>2 DEF Before
  <2> QED BY <2>1, <2>2
<1>7. Follows(Before(a, u, n + 1), u[n + 1])
  <2>1. Before(a, u, n + 1) = EndOf(a, w)
    <3>1. CASE n = 0
      BY <1>3, <3>1 DEF Before, EndOf
    <3>2. CASE n # 0
      <4>1. Before(a, u, n + 1) = u[n]
        BY <1>1, <3>2 DEF Before
      <4>2. u[n] = w[n] /\ EndOf(a, w) = w[n]
        BY <1>1, <1>2, <1>3, <3>2 DEF EndOf, n
      <4> QED BY <4>1, <4>2
    <3> QED BY <3>1, <3>2
  <2> QED BY <1>2, <2>1
<1>8. Linked(a, u)
  <2>1. \A i \in 1 .. n + 1 : i \in 1 .. n \/ i = n + 1
    BY <1>1
  <2> QED BY <1>2, <1>6, <1>7, <2>1 DEF Linked
<1> QED BY <1>5, <1>8 DEF u

LEMMA ChainPop ==
  ASSUME NEW S, NEW a, NEW w \in Seq(S), w # << >>, Linked(a, w)
  PROVE  /\ Follows(a, Head(w)) /\ Head(w) \in S
         /\ Linked(Head(w), Tail(w)) /\ EndOf(Head(w), Tail(w)) = EndOf(a, w)
<1> DEFINE n == Len(w)
           t == Tail(w)
<1>1. n \in Nat /\ n >= 1
  BY LenProperties, EmptySeq
<1>2. Head(w) = w[1] /\ t \in Seq(S) /\ Len(t) = n - 1 /\ \A i \in 1 .. n - 1 : t[i] = w[i + 1]
  BY <1>1, HeadTailProperties
<1>3. Head(w) \in S
  BY HeadTailProperties
<1>4. t = << >> <=> Len(t) = 0
  BY <1>2, EmptySeq
<1> HIDE DEF t
<1>5. Follows(a, Head(w))
  <2>1. 1 \in 1 .. n
    BY <1>1
  <2>2. Follows(Before(a, w, 1), w[1])
    BY <2>1 DEF Linked
  <2> QED BY <1>2, <2>2 DEF Before
<1>6. Linked(Head(w), t)
  <2> SUFFICES ASSUME NEW i \in 1 .. Len(t) PROVE Follows(Before(Head(w), t, i), t[i])
    BY DEF Linked
  <2>1. i + 1 \in 1 .. n /\ i + 1 # 1 /\ i \in 1 .. n - 1
    BY <1>1, <1>2
  <2>2. Follows(Before(a, w, i + 1), w[i + 1])
    BY <2>1 DEF Linked
  <2>3. Before(a, w, i + 1) = w[i]
    BY <2>1 DEF Before
  <2>4. Before(Head(w), t, i) = w[i]
    BY <1>1, <1>2, <2>1 DEF Before
  <2> QED BY <1>2, <2>1, <2>2, <2>3, <2>4
<1>7. EndOf(Head(w), t) = EndOf(a, w)
  <2>1. CASE n = 1
    BY <1>1, <1>2, <1>4, <2>1 DEF EndOf
  <2>2. CASE n # 1
    <3>1. n - 1 \in 1 .. n - 1 /\ n - 1 + 1 = n /\ n - 1 # 0
      <4> HIDE DEF n
      <4> QED BY <1>1, <2>2
    <3>2. t[n - 1] = w[n]
      BY <1>2, <3>1
    <3> QED BY <1>1, <1>2, <1>4, <2>2, <3>2 DEF EndOf
  <2> QED BY <2>1, <2>2
<1> QED BY <1>3, <1>5, <1>6, <1>7 DEF t

\* One edge of a chain: the front is taken and becomes what was passed last, or not; a
\* flit that follows comes behind, or none.
LEMMA ChainStep ==
  ASSUME NEW S, NoFlit \notin S, NEW a, NEW w \in Seq(S), NEW n \in {0, 1}, n = 1 => w # << >>,
         NEW x \in S \cup {NoFlit}, Linked(a, w), x # NoFlit => Follows(EndOf(a, w), x),
         NEW b, b = (IF n = 1 THEN Head(w) ELSE a), NEW u, u = Cat(Left(n, w), Arrived(x))
  PROVE  /\ u \in Seq(S) /\ Linked(b, u)
         /\ EndOf(b, u) = IF x = NoFlit THEN EndOf(a, w) ELSE x
<1> DEFINE t == Left(n, w)
<1>1. t \in Seq(S) /\ Linked(b, t) /\ EndOf(b, t) = EndOf(a, w)
  <2>1. CASE n = 1
    <3>1. Linked(Head(w), Tail(w)) /\ EndOf(Head(w), Tail(w)) = EndOf(a, w)
      BY <2>1, ChainPop
    <3>2. Tail(w) \in Seq(S)
      BY <2>1, HeadTailProperties
    <3> QED BY <2>1, <3>1, <3>2 DEF Left
  <2>2. CASE n = 0
    BY <2>2 DEF Left
  <2> QED BY <2>1, <2>2
<1> HIDE DEF t
<1>2. CASE x = NoFlit
  <2>1. u = t
    BY <1>1, <1>2, ConcatEmptySeq DEF Cat, Arrived, t
  <2> QED BY <1>1, <1>2, <2>1
<1>3. CASE x # NoFlit
  <2>1. u = Cat(t, <<x>>) /\ x \in S
    BY <1>3 DEF Arrived, t
  <2>2. Follows(EndOf(b, t), x)
    BY <1>1, <1>3
  <2>3. Linked(b, Cat(t, <<x>>)) /\ EndOf(b, Cat(t, <<x>>)) = x
    BY <1>1, <2>1, <2>2, ChainPush
  <2>4. Cat(t, <<x>>) \in Seq(S)
    BY <1>1, <2>1, AppendProperties, AppendIsConcat DEF Cat
  <2> QED BY <1>3, <2>1, <2>3, <2>4
<1> QED BY <1>2, <1>3

\* A front part of a chain, and the link to the rest.
LEMMA ChainFront ==
  ASSUME NEW S, NEW a, NEW F \in Seq(S), NEW R \in Seq(S), Linked(a, Cat(F, R)),
         NEW T, Cat(F, R) \in Seq(T)
  PROVE  Linked(a, F) /\ (R # << >> => Follows(EndOf(a, F), Head(R)) /\ Head(R) \in T)
<1> DEFINE n == Len(F)
           u == Cat(F, R)
<1>1. n \in Nat /\ Len(R) \in Nat /\ (F = << >> <=> n = 0) /\ (R = << >> <=> Len(R) = 0)
  BY LenProperties, EmptySeq
<1>2. Len(u) = n + Len(R) /\ \A i \in 1 .. n + Len(R) : u[i] = IF i <= n THEN F[i] ELSE R[i - n]
  BY ConcatProperties DEF Cat
<1> HIDE DEF n, u
<1>3. ASSUME NEW i \in 1 .. n + Len(R) PROVE Follows(Before(a, u, i), u[i])
  BY <1>2 DEF Linked, u
<1>4. Linked(a, F)
  <2> SUFFICES ASSUME NEW i \in 1 .. n PROVE Follows(Before(a, F, i), F[i])
    BY DEF Linked, n
  <2>1. i \in 1 .. n + Len(R) /\ (i # 1 => i - 1 \in 1 .. n + Len(R) /\ i - 1 <= n) /\ i <= n
    BY <1>1
  <2>2. u[i] = F[i] /\ (i # 1 => u[i - 1] = F[i - 1])
    BY <1>2, <2>1
  <2>3. Before(a, u, i) = Before(a, F, i)
    BY <2>2 DEF Before
  <2> QED BY <1>3, <2>1, <2>2, <2>3
<1>5. ASSUME R # << >> PROVE Follows(EndOf(a, F), Head(R)) /\ Head(R) \in T
  <2>1. n + 1 \in 1 .. n + Len(R) /\ ~(n + 1 <= n) /\ (n # 0 => n \in 1 .. n + Len(R))
    BY <1>1, <1>5
  <2>2. u[n + 1] = Head(R)
    <3>1. u[n + 1] = R[n + 1 - n] /\ n + 1 - n = 1
      BY <1>1, <1>2, <2>1
    <3>2. Head(R) = R[1]
      BY <1>5, HeadTailProperties
    <3> QED BY <3>1, <3>2
  <2>3. Before(a, u, n + 1) = EndOf(a, F)
    <3>1. CASE n = 0
      BY <1>1, <3>1 DEF Before, EndOf
    <3>2. CASE n # 0
      <4>1. Before(a, u, n + 1) = u[n]
        BY <1>1, <3>2 DEF Before
      <4>2. u[n] = F[n] /\ EndOf(a, F) = F[n]
        BY <1>1, <1>2, <2>1, <3>2 DEF EndOf, n
      <4> QED BY <4>1, <4>2
    <3> QED BY <3>1, <3>2
  <2>4. u[n + 1] \in T
    <3>1. u \in Seq(T) /\ n + 1 \in 1 .. Len(u)
      BY <1>2, <2>1 DEF u
    <3> QED BY <3>1, ElementOfSeq
  <2> QED BY <1>3, <2>1, <2>2, <2>3, <2>4
<1> QED BY <1>4, <1>5

-----------------------------------------------------------------------------
(* The invariant.  g[h] is the flit that was last taken from hop h: nothing  *)
(* records it, and it exists (PacketsNext takes it from one state to the     *)
(* next).  Behind it the queue of the hop is a chain, and the lock of the    *)
(* output that feeds the hop knows whether the chain ends inside a packet.   *)

\* A header on hop h is on its way: the digits of its destination that have been
\* routed on are those of the port.
Bound(h) == {f \in FlitOn(h[3]) : sof(f) => Quo(h[2], Above(h[1])) = Quo(f.dest, Above(h[1]))}

Beyond(c)    == <<c[1] + 1, c[2], c[3]>>     \* the hop that output channel c sends on
Newest(g, h) == EndOf(g[h], Queue(h))        \* the last flit sent on hop h

Chained(g) == \A h \in Hop : Queue(h) \in Seq(Bound(h)) /\ Linked(g[h], Queue(h))

\* The owner of output channel c is inside a packet, and its held route leads to c.
Midway(g, c) ==
  /\ ~Shut(Newest(g, Beyond(c))) /\ g[Source(c)] = Newest(g, Beyond(c))
  /\ sw_route[Source(c)] = Local_of(c[1], c[2])

\* The owner of output channel c has a header at its front that wants c.
Opening(g, c) ==
  /\ Shut(Newest(g, Beyond(c))) /\ Shut(g[Source(c)])
  /\ head(Source(c)) # NoFlit /\ route_eff(Source(c)) = Local_of(c[1], c[2])

LockFits(g, c) == IF sw_lock[c] = Free THEN Shut(Newest(g, Beyond(c)))
                  ELSE Midway(g, c) \/ Opening(g, c)
Locks(g) == \A c \in Buffer : LockFits(g, c)

\* The last flit framed at port p on channel v, and the last one that has reached its egress.
Framing(g, p, v) == EndOf(Newest(g, <<0, p, v>>), FifoWords(ing_fifo[p][v]))
Reached(g, p, v) == EndOf(g[<<Stages, p, v>>], FifoWords(egr_fifo[p][v]))

SourceFits(g, p, v) ==
  /\ Linked(Newest(g, <<0, p, v>>), FifoWords(ing_fifo[p][v]))
  /\ IF ing_open[p] # NoFlit /\ ing_open[p].vc = v
     THEN Framing(g, p, v) = ing_open[p] ELSE Shut(Framing(g, p, v))
Sources(g) == \A p \in Port, v \in VC : SourceFits(g, p, v)

SinkFits(g, p, v) ==
  /\ egr_open[p][v] <=> ~Shut(Reached(g, p, v))
  /\ egr_rem[p][v] = IF Shut(Reached(g, p, v)) THEN 0 ELSE Reached(g, p, v).len - Reached(g, p, v).idx
Sinks(g) == \A p \in Port, v \in VC : SinkFits(g, p, v)

Clean == \A p \in Port : egr_err[p] = {}

Ghost    == [Hop -> Flit \cup {NoFlit}]
Whole(g) == Chained(g) /\ Locks(g) /\ Sources(g) /\ Sinks(g) /\ Clean
PacketInv == HopInv /\ \E g \in Ghost : Whole(g)

LEMMA BoundFlits == \A h : Bound(h) \subseteq Flit /\ NoFlit \notin Bound(h) /\ \A f \in Bound(h) : f.vc = h[3]
BY NoFlitIsNone DEF Bound, FlitOn

\* What stands at the front of a hop's buffer is the front of its queue.
LEMMA QueueFront ==
  ASSUME Flits, NEW h \in Hop, FifoOf(h).out # NoFlit
  PROVE  Queue(h) # << >> /\ Head(Queue(h)) = FifoOf(h).out
<1> DEFINE S == FlitOn(h[3])
           f == FifoOf(h)
           F == FifoWords(f)
           R == Ridden(Wire(h), h[3])
<1>1. f \in Fifo(S) /\ NoFlit \notin S
  BY NoFlitIsNone DEF Flits, FlitOn
<1>2. Wire(h) \in Wires /\ Len(Wire(h)) \in {1, 2}
  BY WireEnd
<1>3. R \in Seq(S)
  BY <1>2, RiddenIsSeq
<1> HIDE DEF S, f
<1>4. F \in Seq(S) /\ (f.out # NoFlit => F # << >> /\ Head(F) = f.out)
  <2>1. NoFlit \in S \cup {NoFlit} /\ 0 \in {0, 1} /\ 0 \in Nat
    OBVIOUS
  <2> QED BY <1>1, <2>1, FifoStep
<1>5. F # << >> /\ Head(F) = f.out
  BY <1>4 DEF f
<1> HIDE DEF F, R
<1>6. F \o R # << >> /\ Head(F \o R) = Head(F)
  BY <1>3, <1>4, <1>5, TailOfConcat
<1>7. Queue(h) = F \o R
  BY DEF Queue, F, R, f, Cat
<1> QED BY <1>5, <1>6, <1>7 DEF f

\* It follows what was taken last.
LEMMA FrontFollows ==
  ASSUME Flits, NEW g \in Ghost, Chained(g), NEW h \in Hop, FifoOf(h).out # NoFlit
  PROVE  Follows(g[h], FifoOf(h).out) /\ FifoOf(h).out \in Bound(h)
<1>1. Queue(h) # << >> /\ Head(Queue(h)) = FifoOf(h).out
  BY QueueFront
<1>2. Queue(h) \in Seq(Bound(h)) /\ Linked(g[h], Queue(h))
  BY DEF Chained
<1> QED BY <1>1, <1>2, ChainPop

\* A chain ends in a flit, or has not begun.
LEMMA EndOfTypes ==
  ASSUME NEW S, S \subseteq Flit, NEW a \in Flit \cup {NoFlit}, NEW w \in Seq(S)
  PROVE  EndOf(a, w) \in Flit \cup {NoFlit}
<1>1. CASE w = << >>
  BY <1>1 DEF EndOf
<1>2. CASE w # << >>
  <2>1. Len(w) \in 1 .. Len(w)
    BY <1>2, LenProperties, EmptySeq
  <2>2. w[Len(w)] \in S
    BY <2>1, ElementOfSeq
  <2> QED BY <1>2, <2>2 DEF EndOf
<1> QED BY <1>1, <1>2

LEMMA NewestTypes ==
  ASSUME NEW g \in Ghost, Chained(g), NEW h \in Hop
  PROVE  Newest(g, h) \in Flit \cup {NoFlit}
<1>1. g[h] \in Flit \cup {NoFlit}
  BY DEF Ghost
<1>2. Queue(h) \in Seq(Bound(h)) /\ Bound(h) \subseteq Flit
  BY BoundFlits DEF Chained
<1> QED BY <1>1, <1>2, EndOfTypes DEF Newest

\* Where the packet at the front of buffer b goes: whichever output channel has locked b,
\* its place in the switch is this.
Aim(g, b) == IF Shut(g[b]) THEN route_eff(b) ELSE sw_route[b]

LEMMA OwnerFacts ==
  ASSUME RadixLaw, Regs, NEW c \in Buffer, sw_lock[c] # Free
  PROVE  /\ sw_lock[c] \in Local /\ Source(c) = <<c[1], Global_of(c[1], c[2], sw_lock[c]), c[3]>>
         /\ Source(c) \in Buffer /\ Source(c) \in Hop /\ Source(c)[1] # Stages
         /\ FifoOf(Source(c)) = sw_fifo[Source(c)]
<1>1. c[1] \in Stage /\ c[2] \in Port /\ c[3] \in VC /\ c = <<c[1], c[2], c[3]>>
  BY Triples
<1>2. sw_lock[c] \in Local
  <2>1. sw_lock[c] \in 0 .. Free
    BY DEF Regs
  <2> QED BY <2>1, FabricAssumption DEF Free, Local
<1>3. Source(c) = <<c[1], Global_of(c[1], c[2], sw_lock[c]), c[3]>>
  BY <1>1 DEF Source, OwnerBuffer
<1>4. Global_of(c[1], c[2], sw_lock[c]) \in Port
  BY <1>1, <1>2, Butterfly
<1>5. <<c[1], Global_of(c[1], c[2], sw_lock[c]), c[3]>> \in Buffer
      /\ <<c[1], Global_of(c[1], c[2], sw_lock[c]), c[3]>> \in Hop
  BY <1>1, <1>4, Triples
<1>6. Source(c)[1] # Stages
  BY <1>1, <1>3, FabricAssumption DEF Stage
<1> QED BY <1>2, <1>3, <1>5, <1>6 DEF FifoOf

LEMMA OwnerAims ==
  ASSUME NEW g, Locks(g), NEW c \in Buffer, sw_lock[c] # Free
  PROVE  Aim(g, Source(c)) = Local_of(c[1], c[2])
<1>1. Midway(g, c) \/ Opening(g, c)
  BY DEF Locks, LockFits
<1>2. CASE Midway(g, c)
  BY <1>2 DEF Midway, Aim
<1>3. CASE Opening(g, c)
  BY <1>3 DEF Opening, Aim
<1> QED BY <1>1, <1>2, <1>3

\* "Exactly one output can pop a given buffer": an output channel that has locked buffer b
\* is the only one that a packet at the front of b can want.
LEMMA OwnerIs ==
  ASSUME RadixLaw, Regs, NEW g, Locks(g), NEW d \in Buffer, sw_lock[d] # Free,
         NEW c \in Buffer, NEW i \in Local, Source(d) = <<c[1], Global_of(c[1], c[2], i), c[3]>>,
         Aim(g, Source(d)) = Local_of(c[1], c[2])
  PROVE  d = c
<1>1. sw_lock[d] \in Local /\ Source(d) = <<d[1], Global_of(d[1], d[2], sw_lock[d]), d[3]>>
  BY OwnerFacts
<1>2. Local_of(d[1], d[2]) = Local_of(c[1], c[2])
  BY OwnerAims
<1>3. d[1] = c[1] /\ d[3] = c[3] /\ Global_of(d[1], d[2], sw_lock[d]) = Global_of(c[1], c[2], i)
  BY <1>1
<1>4. /\ c[1] \in Stage /\ c[2] \in Port /\ c = <<c[1], c[2], c[3]>>
      /\ d[2] \in Port /\ d = <<d[1], d[2], d[3]>>
  BY Triples
<1> DEFINE b == Global_of(c[1], c[2], i)
<1>5. b \in Port
  BY <1>4, Butterfly
<1>6. b = Global_of(c[1], d[2], sw_lock[d]) /\ Local_of(c[1], d[2]) = Local_of(c[1], c[2])
  BY <1>2, <1>3
<1>7. b = Global_of(c[1], c[2], i)
  OBVIOUS
<1> HIDE DEF b
<1>8. d[2] = c[2]
  BY <1>1, <1>4, <1>5, <1>6, <1>7, InputsDiffer
<1> QED BY <1>3, <1>4, <1>8

LEMMA OneOwner ==
  ASSUME RadixLaw, Regs, NEW g, Locks(g), NEW c \in Buffer, NEW d \in Buffer,
         sw_lock[c] # Free, sw_lock[d] # Free, Source(c) = Source(d)
  PROVE  c = d
<1>1. sw_lock[c] \in Local /\ Source(d) = <<c[1], Global_of(c[1], c[2], sw_lock[c]), c[3]>>
  BY OwnerFacts
<1>2. Aim(g, Source(d)) = Local_of(c[1], c[2])
  BY OwnerAims
<1> QED BY <1>1, <1>2, OwnerIs

\* What is sent on a hop goes on with its chain, and is on its way.
LEMMA SendFollows ==
  ASSUME RadixLaw, Regs, Flits, NEW g \in Ghost, Whole(g), NEW h \in Hop, Sending(h)
  PROVE  Follows(Newest(g, h), Offered(h)) /\ Offered(h) \in Bound(h)
<1>1. h[1] \in 0 .. Stages /\ h[2] \in Port /\ h[3] \in VC /\ h = <<h[1], h[2], h[3]>>
  BY Triples
<1>2. Offered(h) \in FlitOn(h[3]) /\ NoFlit \notin FlitOn(h[3])
  BY TakeFacts, NoFlitIsNone DEF FlitOn
<1>3. CASE h[1] = 0
  <2> DEFINE p == h[2]
             v == h[3]
             f == ing_fifo[p][v]
             S == FlitOn(v)
             F == FifoWords(f)
  <2>1. f \in Fifo(S) /\ Offered(h) = f.out
    BY <1>1, <1>3 DEF Flits, Offered
  <2>2. Linked(Newest(g, h), F)
    BY <1>1, <1>3 DEF Whole, Sources, SourceFits
  <2>3. NoFlit \notin S /\ f.out # NoFlit
    BY <1>2, <2>1
  <2> HIDE DEF f, S
  <2>4. NoFlit \in S \cup {NoFlit} /\ 0 \in {0, 1} /\ 0 \in Nat
    OBVIOUS
  <2>5. F \in Seq(S) /\ F # << >> /\ Head(F) = f.out
    BY <2>1, <2>3, <2>4, FifoStep
  <2> HIDE DEF F
  <2>6. Follows(Newest(g, h), Offered(h))
    BY <2>1, <2>2, <2>5, ChainPop
  <2>7. Offered(h) \in Bound(h)
    <3> DEFINE e == Offered(h).dest
               N == Radix ^ Stages
    <3>1. h[2] \in Port /\ e \in Port /\ N \in Nat \ {0}
      BY <1>1, <1>2, Ports DEF FlitOn, Flit
    <3>2. Above(h[1]) = N
      <4>1. Stages - 0 = Stages
        BY FabricAssumption
      <4> QED BY <1>3, <4>1 DEF Above
    <3>3. ASSUME NEW x \in Port PROVE Quo(x, N) = 0
      <4>1. x \in Nat /\ x \in 0 .. N - 1 /\ 0 \in Nat
        BY <3>1 DEF Port
      <4> HIDE DEF N
      <4>2. x = N * 0 + x
        BY <3>1, <4>1
      <4> QED BY <3>1, <4>1, <4>2, DivModIs
    <3>4. Quo(h[2], Above(h[1])) = Quo(e, Above(h[1]))
      BY <3>1, <3>2, <3>3
    <3> QED BY <1>2, <3>4 DEF Bound
  <2> QED BY <2>6, <2>7
<1>4. CASE h[1] # 0
  <2> DEFINE c == Behind(h)
             b == Source(c)
  <2>1. c \in Sends /\ c \in Buffer /\ Beyond(c) = h /\ c[1] = h[1] - 1 /\ c[2] = h[2] /\ c[3] = h[3]
        /\ Offered(h) = head(b)
    <3>1. c[1] = h[1] - 1 /\ c[2] = h[2] /\ c[3] = h[3]
      BY DEF Behind
    <3>2. h[1] - 1 + 1 = h[1]
      BY <1>1
    <3>3. Beyond(c) = h
      BY <1>1, <3>1, <3>2 DEF Beyond
    <3> QED BY <1>4, <3>1, <3>3, SendFacts DEF Sending, Offered
  <2>2. sw_lock[c] \in Local /\ b = <<c[1], Global_of(c[1], c[2], sw_lock[c]), c[3]>>
        /\ sw_lock[c] # Free
    <3>1. sw_lock[c] \in Local
      BY <2>1, SendFacts
    <3>2. sw_lock[c] # Free
      BY <3>1, FabricAssumption DEF Local, Free
    <3> QED BY <2>1, <3>1, <3>2, OwnerFacts
  <2>3. b \in Buffer /\ b \in Hop /\ FifoOf(b) = sw_fifo[b]
    BY <2>1, <2>2, OwnerFacts
  <2>4. FifoOf(b).out = Offered(h) /\ FifoOf(b).out # NoFlit
    BY <1>2, <2>1, <2>3 DEF head
  <2>5. Follows(g[b], Offered(h)) /\ Offered(h) \in Bound(b)
    BY <2>3, <2>4, FrontFollows DEF Whole
  <2>6. LockFits(g, c) /\ Newest(g, Beyond(c)) = Newest(g, h)
    BY <2>1 DEF Whole, Locks
  <2> HIDE DEF b, c
  <2>7. Midway(g, c) \/ Opening(g, c)
    BY <2>2, <2>6 DEF LockFits
  <2>8. g[b] \in Flit \cup {NoFlit} /\ Offered(h) \in Flit
    BY <1>2, <2>3 DEF Ghost, FlitOn
  <2>9. sof(Offered(h)) <=> Shut(g[b])
    BY <2>5, <2>8, FlitFollows
  <2>10. Follows(Newest(g, h), Offered(h))
    <3>1. CASE Midway(g, c)
      BY <2>5, <2>6, <3>1 DEF Midway, b
    <3>2. CASE Opening(g, c)
      BY <2>6, <2>9, <3>2 DEF Opening, b, Follows
    <3> QED BY <2>7, <3>1, <3>2
  <2>11. ASSUME sof(Offered(h)) PROVE Quo(h[2], Above(h[1])) = Quo(Offered(h).dest, Above(h[1]))
    <3> DEFINE e == Offered(h).dest
    <3>0. c[1] \in Stage /\ c[2] \in Port
      BY <2>1, Triples
    <3>1. route_eff(b) = Local_of(c[1], c[2])
      BY <2>7, <2>9, <2>11 DEF Midway, Opening, b
    <3>2. route_eff(b) = digit(e, bfly_digit(c[1]))
      BY <2>1, <2>2, <2>11 DEF route_eff, b
    <3>3. Quo(b[2], Above(b[1])) = Quo(e, Above(b[1]))
      BY <2>5, <2>11 DEF Bound
    <3>4. b[1] = c[1] /\ b[2] = Global_of(c[1], c[2], sw_lock[c])
      BY <2>2
    <3>5. Quo(Global_of(c[1], c[2], sw_lock[c]), Above(c[1])) = Quo(c[2], Above(c[1]))
      BY <2>2, <3>0, Butterfly
    <3>6. Quo(c[2], Above(c[1])) = Quo(e, Above(c[1])) /\ digit(e, bfly_digit(c[1])) = Local_of(c[1], c[2])
      BY <3>1, <3>2, <3>3, <3>4, <3>5
    <3>7. e \in Port
      BY <2>8 DEF Flit
    <3> HIDE DEF e
    <3>8. Quo(c[2], Above(c[1] + 1)) = Quo(e, Above(c[1] + 1))
      BY <3>0, <3>6, <3>7, OneMoreDigit
    <3>9. c[1] + 1 = h[1]
      BY <1>1, <2>1
    <3> QED BY <2>1, <3>8, <3>9 DEF e
  <2> QED BY <1>2, <2>10, <2>11 DEF Bound
<1> QED BY <1>3, <1>4

\* The flit last taken from each hop, after an edge.
Passes(g, k, en) == \A h \in Hop : k[h] = IF Taking(h, en) THEN FifoOf(h).out ELSE g[h]

LEMMA GhostStep ==
  ASSUME RadixLaw, Regs, Flits, NEW g \in Ghost, NEW en
  PROVE  \E k \in Ghost : Passes(g, k, en)
<1> DEFINE k == [h \in Hop |-> IF Taking(h, en) THEN FifoOf(h).out ELSE g[h]]
<1>1. ASSUME NEW h \in Hop
      PROVE  (IF Taking(h, en) THEN FifoOf(h).out ELSE g[h]) \in Flit \cup {NoFlit}
  <2>1. Taking(h, en) => FifoOf(h).out \in FlitOn(h[3])
    BY TakeFacts
  <2>2. g[h] \in Flit \cup {NoFlit}
    BY DEF Ghost
  <2> QED BY <2>1, <2>2 DEF FlitOn
<1>2. k \in Ghost
  BY <1>1 DEF Ghost
<1>3. \A h \in Hop : k[h] = IF Taking(h, en) THEN FifoOf(h).out ELSE g[h]
  OBVIOUS
<1> HIDE DEF k
<1> QED BY <1>2, <1>3 DEF Passes

LEMMA ChainMoves ==
  ASSUME RadixLaw, HopInv, NEW offer, NEW en, NEW kill, Edge(offer, en, kill),
         NEW g \in Ghost, Whole(g), NEW k \in Ghost, Passes(g, k, en), NEW h \in Hop
  PROVE  /\ Queue(h)' \in Seq(Bound(h)) /\ Linked(k[h], Queue(h)')
         /\ EndOf(k[h], Queue(h)') = IF Sending(h) THEN Offered(h) ELSE Newest(g, h)
<1>0. Regs /\ Flits
  BY DEF HopInv
<1> DEFINE S == Bound(h)
           a == g[h]
           w == Queue(h)
           n == Takes(h, en)
           x == Sent(h)
           b == k[h]
           u == Queue(h)'
<1>1. NoFlit \notin S
  BY BoundFlits
<1>2. w \in Seq(S) /\ Linked(a, w)
  BY DEF Whole, Chained
<1>3. u = Cat(Left(n, w), Arrived(x)) /\ (n = 1 => w # << >> /\ Head(w) = FifoOf(h).out)
  BY HopStep
<1>4. n \in {0, 1} /\ (n = 1 <=> Taking(h, en))
  BY DEF Takes
<1>5. b = IF n = 1 THEN Head(w) ELSE a
  <2>1. b = IF Taking(h, en) THEN FifoOf(h).out ELSE a
    BY DEF Passes
  <2> QED BY <1>3, <1>4, <2>1
<1>6. x \in S \cup {NoFlit} /\ (x # NoFlit => Follows(EndOf(a, w), x)) /\ (x # NoFlit <=> Sending(h))
      /\ (Sending(h) => x = Offered(h))
  <2>1. CASE Sending(h)
    <3>1. Follows(Newest(g, h), Offered(h)) /\ Offered(h) \in S
      BY <1>0, <2>1, SendFollows
    <3>2. x = Offered(h)
      BY <2>1 DEF Sent
    <3> QED BY <1>1, <2>1, <3>1, <3>2 DEF Newest
  <2>2. CASE ~Sending(h)
    BY <2>2 DEF Sent
  <2> QED BY <2>1, <2>2
<1>7. Newest(g, h) = EndOf(a, w)
  BY DEF Newest
<1> HIDE DEF S, a, w, n, x, b, u
<1>8. u \in Seq(S) /\ Linked(b, u) /\ EndOf(b, u) = IF x = NoFlit THEN EndOf(a, w) ELSE x
  <2>1. w \in Seq(S) /\ n \in {0, 1} /\ x \in S \cup {NoFlit} /\ Linked(a, w)
    BY <1>2, <1>4, <1>6
  <2>2. (n = 1 => w # << >>) /\ (x # NoFlit => Follows(EndOf(a, w), x))
    BY <1>3, <1>6
  <2>3. b = (IF n = 1 THEN Head(w) ELSE a) /\ u = Cat(Left(n, w), Arrived(x))
    BY <1>3, <1>5
  <2> QED BY <1>1, <2>1, <2>2, <2>3, ChainStep
<1>9. EndOf(b, u) = IF Sending(h) THEN Offered(h) ELSE Newest(g, h)
  BY <1>6, <1>7, <1>8
<1> QED BY <1>8, <1>9 DEF u, S, b

\* A front that is not taken stays.
LEMMA FrontStays ==
  ASSUME Flits, NEW offer, NEW en, NEW kill, Edge(offer, en, kill), NEW h \in Hop,
         ~Taking(h, en), FifoOf(h).out # NoFlit
  PROVE  FifoOf(h)'.out = FifoOf(h).out
<1>1. FifoOf(h)' = FifoNext(FifoOf(h), Arrives(h), Takes(h, en), Depth(h))
  BY FifoMoves
<1>2. Takes(h, en) # 1
  BY DEF Takes
<1> DEFINE f == FifoOf(h)
<1> HIDE DEF f
<1>3. FifoNext(f, Arrives(h), Takes(h, en), Depth(h)).out = IF f.out = NoFlit THEN FifoNext(f, Arrives(h), Takes(h, en), Depth(h)).out ELSE f.out
  BY <1>2 DEF FifoNext, FifoEdge
<1> QED BY <1>1, <1>3 DEF f

LEMMA LockMoves ==
  ASSUME RadixLaw, Regs, Flits, NEW offer, NEW en, NEW kill, Edge(offer, en, kill), NEW c \in Buffer
  PROVE  /\ sw_lock[c] # Free => sw_lock'[c] = IF c \in Sends /\ eof(head(Source(c))) THEN Free ELSE sw_lock[c]
         /\ sw_lock[c] = Free => c \notin Sends /\ (sw_lock'[c] = Free \/ sw_lock'[c] \in va_req(c[1], c[2], c[3]))
<1>1. c[1] \in Stage /\ c[2] \in Port /\ c[3] \in VC /\ c = <<c[1], c[2], c[3]>>
  BY Triples
<1> DEFINE req == va_req(c[1], c[2], c[3])
           grant == va_grant(c[1], c[2], c[3])
<1>2. sw_lock'[c] = lock_d(c[1], c[2], c[3], Sends)
  BY Zenon DEF Edge, SwitchEdge
<1>3. lock_d(c[1], c[2], c[3], Sends) =
        IF c \in Sends /\ eof(head(Source(c))) THEN Free
        ELSE IF grant # {} THEN CHOOSE i \in grant : TRUE ELSE sw_lock[c]
  <2> DEFINE t == <<c[1], c[2], c[3]>>
  <2>1. lock_d(c[1], c[2], c[3], Sends) =
          IF t \in Sends /\ eof(head(Source(c))) THEN Free
          ELSE IF grant # {} THEN CHOOSE i \in grant : TRUE ELSE sw_lock[t]
    BY DEF lock_d, Source
  <2> HIDE DEF t, grant
  <2>2. t = c
    BY <1>1 DEF t
  <2> QED BY <2>1, <2>2
<1>4. sw_lock[c] # Free => grant = {}
  <2>1. sw_lock[c] # Free => req = {}
    BY <1>1 DEF va_req
  <2> QED BY <2>1, GrantOne DEF va_grant
<1>5. sw_lock[c] = Free => c \notin Sends
  <2>1. c \in Sends => sw_lock[c] \in Local
    BY SendFacts
  <2> QED BY <2>1, FabricAssumption DEF Local, Free
<1>6. grant # {} => (CHOOSE i \in grant : TRUE) \in req
  <2>1. grant \subseteq req
    BY GrantOne DEF va_grant
  <2> QED BY <2>1
<1> HIDE DEF grant, req
<1> QED BY <1>2, <1>3, <1>4, <1>5, <1>6 DEF req

LEMMA RouteMoves ==
  ASSUME NEW offer, NEW en, NEW kill, Edge(offer, en, kill), NEW b \in Buffer
  PROVE  sw_route'[b] = IF b \in Pops(Sends) /\ sof(head(b)) THEN route_eff(b) ELSE sw_route[b]
BY DEF Edge, SwitchEdge

\* The lock of an output channel after an edge: taken by a header that waits, kept while
\* its packet passes, given up with its last flit.
LEMMA LockStep ==
  ASSUME RadixLaw, HopInv, NEW offer, NEW en, NEW kill, Edge(offer, en, kill),
         NEW g \in Ghost, Whole(g), NEW k \in Ghost, Passes(g, k, en), NEW c \in Buffer
  PROVE  LockFits(k, c)'
<1>0. Regs /\ Flits /\ Chained(g) /\ Locks(g)
  BY DEF HopInv, Whole
<1>1. c[1] \in Stage /\ c[2] \in Port /\ c[3] \in VC /\ c = <<c[1], c[2], c[3]>>
  BY Triples
<1> DEFINE h == Beyond(c)
           e == Newest(g, h)
           E == EndOf(k[h], Queue(h)')
<1>2. h \in Hop /\ Behind(h) = c /\ h[1] # 0
  <2>1. <<c[1] + 1, c[2], c[3]>> \in Hop /\ Behind(<<c[1] + 1, c[2], c[3]>>) = c
    BY <1>1, Triples
  <2>2. c[1] + 1 # 0
    BY <1>1 DEF Stage
  <2> QED BY <2>1, <2>2 DEF Beyond
<1>3. (Sending(h) <=> c \in Sends) /\ Offered(h) = head(Source(c))
  BY <1>2 DEF Sending, Offered
<1>4. E = IF c \in Sends THEN head(Source(c)) ELSE e
  BY <1>2, <1>3, ChainMoves
<1>5. Newest(k, Beyond(c))' = E
  BY DEF Newest, Beyond
<1>6. Source(c)' = <<c[1], Global_of(c[1], c[2], sw_lock'[c]), c[3]>>
  BY <1>1 DEF Source, OwnerBuffer
<1>7. ASSUME NEW b \in Buffer, b \in Hop, b[1] # Stages
      PROVE  /\ FifoOf(b) = sw_fifo[b] /\ FifoOf(b)' = sw_fifo'[b] /\ (Taking(b, en) <=> b \in Pops(Sends))
             /\ k[b] = IF b \in Pops(Sends) THEN head(b) ELSE g[b]
             /\ g[b] \in Flit \cup {NoFlit}
             /\ head(b) # NoFlit => head(b) \in Flit /\ Follows(g[b], head(b))
             /\ b \notin Pops(Sends) /\ head(b) # NoFlit => sw_fifo'[b].out = head(b)
             /\ sw_route'[b] = IF b \in Pops(Sends) /\ sof(head(b)) THEN route_eff(b) ELSE sw_route[b]
  <2>1. FifoOf(b) = sw_fifo[b] /\ FifoOf(b)' = sw_fifo'[b] /\ (Taking(b, en) <=> b \in Pops(Sends))
    BY <1>7 DEF FifoOf, Taking
  <2>2. k[b] = IF b \in Pops(Sends) THEN head(b) ELSE g[b]
    BY <1>7, <2>1 DEF Passes, head
  <2>3. head(b) # NoFlit => head(b) \in Flit /\ Follows(g[b], head(b))
    BY <1>0, <1>7, <2>1, FrontFollows, BoundFlits DEF head
  <2>4. b \notin Pops(Sends) /\ head(b) # NoFlit => sw_fifo'[b].out = head(b)
    BY <1>0, <1>7, <2>1, FrontStays DEF head
  <2>5. g[b] \in Flit \cup {NoFlit}
    BY <1>7 DEF Ghost
  <2> QED BY <2>1, <2>2, <2>3, <2>4, <2>5, RouteMoves
<1>8. ASSUME NEW b \in Buffer, b \in Hop, b[1] # Stages, b \notin Pops(Sends), Source(c)' = b,
             sw_lock'[c] # Free, c \notin Sends, Shut(e), Shut(g[b]), head(b) # NoFlit,
             route_eff(b) = Local_of(c[1], c[2])
      PROVE  LockFits(k, c)'
  <2>1. k[b] = g[b] /\ sw_fifo'[b].out = head(b) /\ sw_route'[b] = sw_route[b]
    BY <1>7, <1>8
  <2>2. Shut(E) /\ Shut(k[b])
    BY <1>4, <1>8, <2>1
  <2>3. (IF sof(sw_fifo'[b].out) THEN digit(sw_fifo'[b].out.dest, bfly_digit(b[1])) ELSE sw_route'[b])
          = Local_of(c[1], c[2])
    BY <1>8, <2>1 DEF route_eff
  <2>4. head(Source(c))' # NoFlit /\ route_eff(Source(c))' = Local_of(c[1], c[2])
    BY <1>8, <2>1, <2>3 DEF head, route_eff
  <2> HIDE DEF E, h, e
  <2> QED BY <1>5, <1>8, <2>2, <2>4 DEF LockFits, Opening
<1>9. CASE sw_lock[c] # Free
  <2> DEFINE b == Source(c)
  <2>1. b \in Buffer /\ b \in Hop /\ b[1] # Stages /\ sw_lock[c] \in Local
        /\ b = <<c[1], Global_of(c[1], c[2], sw_lock[c]), c[3]>>
    BY <1>0, <1>9, OwnerFacts
  <2>2. Midway(g, c) \/ Opening(g, c)
    BY <1>0, <1>9 DEF Locks, LockFits
  <2>3. sw_lock'[c] = IF c \in Sends /\ eof(head(b)) THEN Free ELSE sw_lock[c]
    BY <1>0, <1>9, LockMoves
  <2>4. CASE c \in Sends
    <3>1. b \in Pops(Sends) /\ head(b) \in Flit /\ head(b) # NoFlit
      <4>1. head(b) \in FlitOn(c[3])
        BY <1>0, <2>4, SendFacts
      <4> QED BY <2>4, <4>1, NoFlitIsNone DEF Pops, FlitOn
    <3>2. k[b] = head(b) /\ Follows(g[b], head(b)) /\ g[b] \in Flit \cup {NoFlit}
          /\ sw_route'[b] = IF sof(head(b)) THEN route_eff(b) ELSE sw_route[b]
      BY <1>7, <2>1, <3>1
    <3>3. E = head(b)
      BY <1>4, <2>4
    <3>4. CASE eof(head(b))
      <4>1. Shut(E) /\ sw_lock'[c] = Free
        BY <2>3, <2>4, <3>3, <3>4 DEF Shut
      <4> HIDE DEF E, h, e
      <4> QED BY <1>5, <4>1 DEF LockFits
    <3>5. CASE ~eof(head(b))
      <4>1. ~Shut(E) /\ sw_lock'[c] = sw_lock[c]
        BY <2>3, <3>1, <3>3, <3>5 DEF Shut
      <4>2. Source(c)' = b
        BY <1>6, <2>1, <4>1
      <4>3. sof(head(b)) <=> Shut(g[b])
        BY <3>1, <3>2, FlitFollows
      <4>4. sw_route'[b] = Local_of(c[1], c[2])
        BY <2>2, <3>2, <4>3 DEF Midway, Opening
      <4>5. k[Source(c)'] = E /\ sw_route'[Source(c)'] = Local_of(c[1], c[2])
        BY <3>2, <3>3, <4>2, <4>4
      <4> HIDE DEF E, h, e, b
      <4> QED BY <1>5, <1>9, <4>1, <4>5 DEF LockFits, Midway
    <3> QED BY <3>4, <3>5
  <2>5. CASE c \notin Sends
    <3>1. sw_lock'[c] = sw_lock[c] /\ Source(c)' = b
      BY <1>6, <2>1, <2>3, <2>5
    <3>2. b \notin Pops(Sends)
      <4> SUFFICES ASSUME NEW d \in Sends, b = Source(d) PROVE FALSE
        BY DEF Pops
      <4>1. d \in Buffer /\ sw_lock[d] \in Local
        BY <1>0, SendFacts
      <4>2. sw_lock[d] # Free
        BY <4>1, FabricAssumption DEF Local, Free
      <4>3. c = d
        BY <1>0, <1>9, <4>1, <4>2, OneOwner
      <4> QED BY <2>5, <4>3
    <3>3. CASE Midway(g, c)
      <4>1. k[b] = g[b] /\ sw_route'[b] = sw_route[b] /\ E = e
        BY <1>4, <1>7, <2>1, <2>5, <3>2
      <4>2. ~Shut(E) /\ k[Source(c)'] = E /\ sw_route'[Source(c)'] = Local_of(c[1], c[2])
        BY <3>1, <3>3, <4>1 DEF Midway
      <4> HIDE DEF E, h, e, b
      <4> QED BY <1>5, <1>9, <3>1, <4>2 DEF LockFits, Midway
    <3>4. CASE Opening(g, c)
      <4>1. Shut(e) /\ Shut(g[b]) /\ head(b) # NoFlit /\ route_eff(b) = Local_of(c[1], c[2])
        BY <3>4 DEF Opening
      <4> HIDE DEF E, h, e, b
      <4> QED BY <1>8, <1>9, <2>1, <2>5, <3>1, <3>2, <4>1
    <3> QED BY <2>2, <3>3, <3>4
  <2> QED BY <2>4, <2>5
<1>10. CASE sw_lock[c] = Free
  <2>1. c \notin Sends /\ (sw_lock'[c] = Free \/ sw_lock'[c] \in va_req(c[1], c[2], c[3]))
    BY <1>0, <1>10, LockMoves
  <2>2. Shut(e) /\ E = e
    BY <1>0, <1>4, <1>10, <2>1 DEF Locks, LockFits
  <2>3. CASE sw_lock'[c] = Free
    <3> HIDE DEF E, h, e
    <3> QED BY <1>5, <2>2, <2>3 DEF LockFits
  <2>4. CASE sw_lock'[c] \in va_req(c[1], c[2], c[3])
    <3> DEFINE i == sw_lock'[c]
               b == <<c[1], Global_of(c[1], c[2], i), c[3]>>
    <3>1. i \in Local /\ head(b) # NoFlit /\ sof(head(b)) /\ route_eff(b) = Local_of(c[1], c[2])
      BY <2>4 DEF va_req
    <3>2. i # Free
      BY <3>1, FabricAssumption DEF Local, Free
    <3>3. b \in Buffer /\ b \in Hop /\ b[1] # Stages
      <4>1. Global_of(c[1], c[2], i) \in Port
        BY <1>1, <3>1, Butterfly
      <4>2. c[1] # Stages
        BY <1>1, FabricAssumption DEF Stage
      <4> QED BY <1>1, <4>1, <4>2, Triples
    <3>4. Source(c)' = b
      BY <1>6
    <3>5. Shut(g[b])
      <4>1. head(b) \in Flit /\ Follows(g[b], head(b)) /\ g[b] \in Flit \cup {NoFlit}
        BY <1>7, <3>1, <3>3
      <4> QED BY <3>1, <4>1, FlitFollows
    <3>6. b \notin Pops(Sends)
      <4> SUFFICES ASSUME NEW d \in Sends, b = Source(d) PROVE FALSE
        BY DEF Pops
      <4>1. d \in Buffer /\ sw_lock[d] \in Local
        BY <1>0, SendFacts
      <4>2. sw_lock[d] # Free
        BY <4>1, FabricAssumption DEF Local, Free
      <4>3. Aim(g, Source(d)) = Local_of(c[1], c[2])
        BY <3>1, <3>5 DEF Aim
      <4>4. Source(d) = <<c[1], Global_of(c[1], c[2], i), c[3]>>
        OBVIOUS
      <4> HIDE DEF i, b
      <4>5. d = c
        BY <1>0, <3>1, <4>1, <4>2, <4>3, <4>4, OwnerIs
      <4> QED BY <1>10, <4>2, <4>5
    <3> HIDE DEF E, h, e, b
    <3> QED BY <1>8, <2>1, <2>2, <3>1, <3>2, <3>3, <3>4, <3>5, <3>6
  <2> QED BY <2>1, <2>3, <2>4
<1> QED BY <1>9, <1>10

\* The source of a channel after an edge.
LEMMA SourceStep ==
  ASSUME RadixLaw, HopInv, NEW offer \in Presented, NEW en, NEW kill, Edge(offer, en, kill),
         NEW g \in Ghost, Whole(g), NEW k \in Ghost, Passes(g, k, en), NEW p \in Port, NEW v \in VC
  PROVE  SourceFits(k, p, v)'
<1>0. Regs /\ Flits
  BY DEF HopInv
<1> DEFINE h == <<0, p, v>>
           S == FlitOn(v)
           a == Newest(g, h)
           f == ing_fifo[p][v]
           F == FifoWords(f)
           n == IF v \in send_grant(p) THEN 1 ELSE 0
           x == New(offer, p)
           o == Of(x, v)
           e == EndOf(a, F)
           A == EndOf(k[h], Queue(h)')
           G == FifoWords(ing_fifo[p][v])'
<1>1. h \in Hop
  BY FabricAssumption DEF Hop
<1>2. NoFlit \notin S /\ f \in Fifo(S) /\ EndDepth \in Nat /\ n \in {0, 1}
  BY <1>0, NoFlitIsNone, DepthsAssumption DEF Flits, FlitOn
<1>3. n = 1 => f.out # NoFlit
  BY GrantOne DEF send_grant, send_req
<1>4. /\ x \in Flit \cup {NoFlit}
      /\ x # NoFlit => x \in Offers(p) /\ Len(ing_fifo[p][x.vc].core) < EndDepth
  BY <1>0, NewTypes
<1>5. /\ o \in S \cup {NoFlit} /\ (o # NoFlit <=> x # NoFlit /\ x.vc = v) /\ (o # NoFlit => o = x)
      /\ (o # NoFlit => Len(f.core) < EndDepth)
  <2>1. (o # NoFlit <=> x # NoFlit /\ x.vc = v) /\ (o # NoFlit => o = x)
    BY DEF Of
  <2>2. o \in S \cup {NoFlit}
    BY <1>4, OnIsSeq
  <2> QED BY <1>4, <2>1, <2>2
<1>6. ing_fifo'[p][v] = FifoNext(f, o, n, EndDepth)
  BY IngressMoves
<1>7. /\ ing_open'[p] = IF x = NoFlit THEN ing_open[p] ELSE IF eof(x) THEN NoFlit ELSE x
      /\ ing_open[p] \in Flit \cup {NoFlit}
      /\ ing_open[p] # NoFlit => ing_open[p].idx < ing_open[p].len
  BY <1>0, IngressMoves DEF Flits
<1>8. A = IF n = 1 THEN f.out ELSE a
  <2>1. Sending(h) <=> n = 1
    BY DEF Sending
  <2>2. Offered(h) = f.out
    BY DEF Offered
  <2>3. A = IF Sending(h) THEN Offered(h) ELSE a
    BY <1>1, ChainMoves
  <2> HIDE DEF n, f, a, A, h
  <2> QED BY <2>1, <2>2, <2>3
<1>9. /\ Linked(a, F)
      /\ IF ing_open[p] # NoFlit /\ ing_open[p].vc = v THEN e = ing_open[p] ELSE Shut(e)
  BY DEF Whole, Sources, SourceFits, Framing
<1>10. x # NoFlit => IF ing_open[p] # NoFlit
                     THEN x = [ing_open[p] EXCEPT !.idx = @ + 1] /\ x.vc = ing_open[p].vc /\ ~Shut(ing_open[p])
                     ELSE sof(x)
  <2>1. CASE ing_open[p] # NoFlit
    <3>1. x # NoFlit => x = [ing_open[p] EXCEPT !.idx = @ + 1]
      BY <1>4, <2>1 DEF Offers
    <3>2. ing_open[p] \in Flit /\ ~Shut(ing_open[p])
      BY <1>7, <2>1 DEF Shut, eof, Flit
    <3>3. [ing_open[p] EXCEPT !.idx = @ + 1].vc = ing_open[p].vc
      BY <3>2 DEF Flit
    <3> QED BY <2>1, <3>1, <3>2, <3>3
  <2>2. CASE ing_open[p] = NoFlit
    BY <1>4, <2>2 DEF Offers, sof
  <2> QED BY <2>1, <2>2
<1> HIDE DEF h, S, a, f, F, n, x, o, A, G
<1>11. o # NoFlit => Follows(e, o)
  <2> SUFFICES ASSUME o # NoFlit PROVE Follows(e, o)
    OBVIOUS
  <2>1. x # NoFlit /\ x.vc = v /\ o = x
    BY <1>5
  <2>2. CASE ing_open[p] # NoFlit
    BY <1>9, <1>10, <2>1, <2>2 DEF Follows
  <2>3. CASE ing_open[p] = NoFlit
    BY <1>9, <1>10, <2>1, <2>3 DEF Follows
  <2> QED BY <2>2, <2>3
<1>12. /\ F \in Seq(S) /\ FifoWords(FifoNext(f, o, n, EndDepth)) = Cat(Left(n, F), Arrived(o))
       /\ (f.out # NoFlit => F # << >> /\ Head(F) = f.out)
  BY <1>2, <1>3, <1>5, FifoStep DEF F
<1>13. G = Cat(Left(n, F), Arrived(o))
  BY <1>6, <1>12 DEF G
<1>14. A = (IF n = 1 THEN Head(F) ELSE a) /\ (n = 1 => F # << >>)
  BY <1>3, <1>8, <1>12
<1>15. Linked(A, G) /\ EndOf(A, G) = IF o = NoFlit THEN e ELSE o
  <2>1. Linked(a, F)
    BY <1>9
  <2> QED BY <1>2, <1>5, <1>11, <1>12, <1>13, <1>14, <2>1, ChainStep
<1>16. IF ing_open'[p] # NoFlit /\ ing_open'[p].vc = v
       THEN EndOf(A, G) = ing_open'[p] ELSE Shut(EndOf(A, G))
  <2> DEFINE z == EndOf(A, G)
  <2>1. z = IF o = NoFlit THEN e ELSE o
    BY <1>15
  <2> HIDE DEF z, e
  <2>2. CASE x = NoFlit
    BY <1>5, <1>7, <1>9, <2>1, <2>2 DEF z
  <2>3. CASE x # NoFlit /\ x.vc = v
    <3>1. z = x
      BY <1>5, <2>1, <2>3
    <3>2. CASE eof(x)
      <4>1. ing_open'[p] = NoFlit /\ Shut(z)
        BY <1>7, <2>3, <3>1, <3>2 DEF Shut
      <4> QED BY <4>1 DEF z
    <3>3. CASE ~eof(x)
      <4>1. ing_open'[p] = x
        BY <1>7, <2>3, <3>3
      <4> QED BY <2>3, <3>1, <4>1 DEF z
    <3> QED BY <3>2, <3>3
  <2>4. CASE x # NoFlit /\ x.vc # v
    <3>1. z = e
      BY <1>5, <2>1, <2>4
    <3>2. Shut(e)
      BY <1>9, <1>10, <2>4
    <3>3. ~(ing_open'[p] # NoFlit /\ ing_open'[p].vc = v)
      BY <1>7, <2>4
    <3> QED BY <3>1, <3>2, <3>3 DEF z
  <2> QED BY <2>2, <2>3, <2>4
<1>17. Newest(k, <<0, p, v>>)' = A
  BY DEF Newest, A, h
<1>18. SourceFits(k, p, v)' =
         (/\ Linked(A, G)
          /\ IF ing_open'[p] # NoFlit /\ ing_open'[p].vc = v
             THEN EndOf(A, G) = ing_open'[p] ELSE Shut(EndOf(A, G)))
  BY <1>17 DEF SourceFits, Framing, G
<1> QED BY <1>15, <1>16, <1>18

\* What is at the end of a wire is the front of what rides on it.
LEMMA WireFront ==
  ASSUME NEW w \in Wires, Len(w) \in {1, 2}, NEW v, Of(w[Len(w)], v) # NoFlit
  PROVE  Ridden(w, v) # << >> /\ Head(Ridden(w, v)) = Of(w[Len(w)], v)
<1> DEFINE S == FlitOn(v)
           o == Of(w[Len(w)], v)
           s == <<o>>
<1>1. PICK R \in Seq(S) : Ridden(w, v) = Cat(On(w[Len(w)], v), R)
  <2>1. NoFlit \in Flit \cup {NoFlit}
    OBVIOUS
  <2> QED BY <2>1, WireStep
<1>2. On(w[Len(w)], v) = s
  BY DEF On, Arrived
<1>3. o \in S
  <2>1. w[Len(w)] \in Flit \cup {NoFlit}
    BY WireEnds
  <2> QED BY <2>1, OnIsSeq
<1>4. s \in Seq(S) /\ s # << >> /\ Head(s) = o
  BY <1>3
<1> HIDE DEF s, o, S
<1>5. s \o R # << >> /\ Head(s \o R) = Head(s)
  BY <1>1, <1>4, TailOfConcat
<1> QED BY <1>1, <1>2, <1>4, <1>5 DEF Cat, o

\* What arrives at an egress goes on with what has arrived there, and is where it was
\* sent to.
LEMMA SinkFacts ==
  ASSUME RadixLaw, Flits, NEW g \in Ghost, Whole(g), NEW p \in Port, NEW v \in VC
  PROVE  /\ Linked(g[<<Stages, p, v>>], FifoWords(egr_fifo[p][v]))
         /\ Reached(g, p, v) \in Flit \cup {NoFlit}
         /\ Of(egr_link(p), v) # NoFlit =>
              /\ Of(egr_link(p), v) \in Flit /\ Follows(Reached(g, p, v), Of(egr_link(p), v))
              /\ sof(Of(egr_link(p), v)) => Of(egr_link(p), v).dest = p
<1> DEFINE h == <<Stages, p, v>>
           S == FlitOn(v)
           f == egr_fifo[p][v]
           F == FifoWords(f)
           w == Wire(h)
           R == Ridden(w, v)
           o == Of(egr_link(p), v)
<1>1. h \in Hop /\ FifoOf(h) = f
  BY FabricAssumption DEF Hop, FifoOf
<1>2. w \in Wires /\ Len(w) \in {1, 2} /\ w[Len(w)] = egr_link(p)
  BY <1>1, WireEnd
<1>3. R \in Seq(S)
  BY <1>2, RiddenIsSeq
<1>4. F \in Seq(S)
  <2>1. f \in Fifo(S) /\ NoFlit \notin S
    BY <1>1, NoFlitIsNone DEF Flits, FlitOn
  <2>2. NoFlit \in S \cup {NoFlit} /\ 0 \in {0, 1} /\ 0 \in Nat
    OBVIOUS
  <2> HIDE DEF f, S
  <2> QED BY <2>1, <2>2, FifoStep
<1>5. Queue(h) = Cat(F, R)
  BY <1>1 DEF Queue
<1>6. Queue(h) \in Seq(Bound(h)) /\ Linked(g[h], Queue(h)) /\ g[h] \in Flit \cup {NoFlit}
  BY <1>1 DEF Whole, Chained, Ghost
<1>7. o # NoFlit => R # << >> /\ Head(R) = o
  BY <1>2, WireFront
<1>8. Reached(g, p, v) = EndOf(g[h], F)
  BY DEF Reached
<1> HIDE DEF F, R, h, S, w, o
<1>9. Linked(g[h], F) /\ (R # << >> => Follows(EndOf(g[h], F), Head(R)) /\ Head(R) \in Bound(h))
  BY <1>3, <1>4, <1>5, <1>6, ChainFront
<1>10. EndOf(g[h], F) \in Flit \cup {NoFlit}
  <2>1. S \subseteq Flit
    BY DEF S, FlitOn
  <2> QED BY <1>4, <1>6, <2>1, EndOfTypes
<1>11. ASSUME o # NoFlit, sof(o) PROVE o.dest = p
  <2>1. o \in Bound(h)
    BY <1>7, <1>9, <1>11
  <2>2. Quo(p, Above(Stages)) = Quo(o.dest, Above(Stages)) /\ o.dest \in Port
    BY <1>11, <2>1 DEF Bound, FlitOn, Flit, h
  <2>3. Above(Stages) = 1
    <3>1. Stages - Stages = 0
      BY FabricAssumption
    <3> QED BY <3>1 DEF Above, RadixLaw
  <2>4. ASSUME NEW q \in Port PROVE Quo(q, 1) = q
    <3>1. q \in Nat /\ 0 \in 0 .. 1 - 1 /\ 1 \in Nat \ {0} /\ q = 1 * q + 0
      BY DEF Port
    <3> QED BY <3>1, DivModIs
  <2> QED BY <2>2, <2>3, <2>4
<1>12. o # NoFlit => o \in Flit /\ Follows(EndOf(g[h], F), o)
  BY <1>7, <1>9, BoundFlits
<1> QED BY <1>8, <1>9, <1>10, <1>11, <1>12 DEF h, F, f, o

LEMMA EgressMoves ==
  ASSUME NEW offer, NEW en, NEW kill, Edge(offer, en, kill), NEW p \in Port, NEW v \in VC,
         NEW o, o = Of(egr_link(p), v)
  PROVE  /\ o = NoFlit => (egr_open'[p][v] <=> egr_open[p][v]) /\ egr_rem'[p][v] = egr_rem[p][v]
         /\ o # NoFlit /\ sof(o) => (egr_open'[p][v] <=> o.len > 1) /\ egr_rem'[p][v] = o.len - 1
         /\ o # NoFlit /\ ~sof(o) =>
              /\ egr_open'[p][v] <=> egr_open[p][v] /\ ~eof(o)
              /\ egr_rem'[p][v] = IF egr_rem[p][v] > 0 THEN egr_rem[p][v] - 1 ELSE 0
<1> DEFINE link == [q \in Port |-> egr_link(q)]
           hit(q, c) == link[q] # NoFlit /\ link[q].vc = c
<1>1. /\ egr_open' = [q \in Port |-> [c \in VC |->
            IF ~hit(q, c) THEN egr_open[q][c]
            ELSE IF sof(link[q]) THEN link[q].len > 1 ELSE egr_open[q][c] /\ ~eof(link[q])]]
      /\ egr_rem' = [q \in Port |-> [c \in VC |->
            IF ~hit(q, c) THEN egr_rem[q][c]
            ELSE IF sof(link[q]) THEN link[q].len - 1
            ELSE IF egr_rem[q][c] > 0 THEN egr_rem[q][c] - 1 ELSE 0]]
  BY DEF Edge, EgressEdge
<1>2. link[p] = egr_link(p) /\ (hit(p, v) <=> o # NoFlit) /\ (o # NoFlit => o = link[p])
  BY DEF Of
<1> HIDE DEF link, hit
<1>3. egr_rem'[p][v] = IF ~hit(p, v) THEN egr_rem[p][v]
                       ELSE IF sof(link[p]) THEN link[p].len - 1
                       ELSE IF egr_rem[p][v] > 0 THEN egr_rem[p][v] - 1 ELSE 0
  BY <1>1
<1>4. egr_open'[p][v] = IF ~hit(p, v) THEN egr_open[p][v]
                        ELSE IF sof(link[p]) THEN link[p].len > 1 ELSE egr_open[p][v] /\ ~eof(link[p])
  BY <1>1, Zenon
<1>5. /\ ~hit(p, v) => (egr_open'[p][v] <=> egr_open[p][v])
      /\ hit(p, v) /\ sof(link[p]) => (egr_open'[p][v] <=> link[p].len > 1)
      /\ hit(p, v) /\ ~sof(link[p]) => (egr_open'[p][v] <=> egr_open[p][v] /\ ~eof(link[p]))
  BY <1>4, Zenon
<1> QED BY <1>2, <1>3, <1>5

\* The reassembly of a channel after an edge.
LEMMA SinkStep ==
  ASSUME RadixLaw, HopInv, NEW offer, NEW en, NEW kill, Edge(offer, en, kill),
         NEW g \in Ghost, Whole(g), NEW k \in Ghost, Passes(g, k, en), NEW p \in Port, NEW v \in VC
  PROVE  SinkFits(k, p, v)'
<1>0. Regs /\ Flits /\ Conserved
  BY DEF HopInv
<1> DEFINE h == <<Stages, p, v>>
           S == FlitOn(v)
           f == egr_fifo[p][v]
           F == FifoWords(f)
           n == Takes(h, en)
           o == Of(egr_link(p), v)
           e == Reached(g, p, v)
           E == EndOf(k[h], FifoWords(egr_fifo[p][v])')
<1>1. h \in Hop /\ FifoOf(h) = f /\ FifoOf(h)' = egr_fifo'[p][v]
  BY FabricAssumption DEF Hop, FifoOf
<1>2. NoFlit \notin S /\ f \in Fifo(S) /\ EndDepth \in Nat
  BY <1>0, <1>1, NoFlitIsNone, DepthsAssumption DEF Flits, FlitOn
<1>3. n \in {0, 1} /\ (n = 1 <=> Taking(h, en)) /\ (Taking(h, en) => f.out # NoFlit)
  <2>1. Taking(h, en) => f.out \in S
    BY <1>0, <1>1, TakeFacts
  <2> QED BY <1>2, <2>1 DEF Takes
<1>4. Arrives(h) = o
  BY <1>0, <1>1, WireEnd DEF Arrives
<1>5. egr_fifo'[p][v] = FifoNext(f, o, n, EndDepth) /\ (o # NoFlit => Len(f.core) < EndDepth)
  <2>1. Depth(h) = EndDepth
    BY DEF Depth
  <2>2. FifoOf(h)' = FifoNext(FifoOf(h), Arrives(h), Takes(h, en), Depth(h))
    BY <1>0, <1>1, FifoMoves
  <2>3. Arrives(h) # NoFlit => Len(FifoOf(h).core) < Depth(h)
    BY <1>0, <1>1, RoomBehind
  <2> QED BY <1>1, <1>4, <2>1, <2>2, <2>3
<1>6. /\ Linked(g[h], F) /\ e \in Flit \cup {NoFlit} /\ e = EndOf(g[h], F)
      /\ o # NoFlit => o \in Flit /\ Follows(e, o)
  BY <1>0, SinkFacts DEF Reached
<1>7. o \in S \cup {NoFlit}
  BY <1>6 DEF Of, FlitOn
<1>8. k[h] = IF Taking(h, en) THEN f.out ELSE g[h]
  BY <1>1 DEF Passes
<1> DEFINE G == FifoWords(egr_fifo[p][v])'
<1> HIDE DEF h, S, f, F, n, o, e, G
<1>9. /\ F \in Seq(S) /\ FifoWords(FifoNext(f, o, n, EndDepth)) = Cat(Left(n, F), Arrived(o))
      /\ (f.out # NoFlit => F # << >> /\ Head(F) = f.out)
  BY <1>2, <1>3, <1>5, <1>7, FifoStep DEF F
<1>10. G = Cat(Left(n, F), Arrived(o))
  BY <1>5, <1>9 DEF G
<1>11. E = IF o = NoFlit THEN e ELSE o
  <2>1. k[h] = (IF n = 1 THEN Head(F) ELSE g[h]) /\ (n = 1 => F # << >>)
    BY <1>3, <1>8, <1>9
  <2>2. Linked(g[h], F) /\ (o # NoFlit => Follows(EndOf(g[h], F), o)) /\ e = EndOf(g[h], F)
    BY <1>6
  <2>3. EndOf(k[h], G) = IF o = NoFlit THEN EndOf(g[h], F) ELSE o
    BY <1>2, <1>3, <1>7, <1>9, <1>10, <2>1, <2>2, ChainStep
  <2> QED BY <2>2, <2>3 DEF G
<1> HIDE DEF E
<1>12. (egr_open[p][v] <=> ~Shut(e)) /\ egr_rem[p][v] = IF Shut(e) THEN 0 ELSE e.len - e.idx
  BY DEF Whole, Sinks, SinkFits, e
<1>13. /\ o = NoFlit => (egr_open'[p][v] <=> egr_open[p][v]) /\ egr_rem'[p][v] = egr_rem[p][v]
       /\ o # NoFlit /\ sof(o) => (egr_open'[p][v] <=> o.len > 1) /\ egr_rem'[p][v] = o.len - 1
       /\ o # NoFlit /\ ~sof(o) =>
              /\ egr_open'[p][v] <=> egr_open[p][v] /\ ~eof(o)
              /\ egr_rem'[p][v] = IF egr_rem[p][v] > 0 THEN egr_rem[p][v] - 1 ELSE 0
  BY EgressMoves DEF o
<1>14. (egr_open'[p][v] <=> ~Shut(E)) /\ egr_rem'[p][v] = IF Shut(E) THEN 0 ELSE E.len - E.idx
  <2>1. CASE o = NoFlit
    BY <1>11, <1>12, <1>13, <2>1
  <2>2. CASE o # NoFlit
    <3>1. E = o /\ o \in Flit /\ (Shut(E) <=> o.idx = o.len)
      BY <1>6, <1>11, <2>2 DEF Shut, eof
    <3>2. o.len \in Nat /\ o.idx \in Nat /\ 1 <= o.idx /\ o.idx <= o.len
      BY <3>1 DEF Flit
    <3>3. (sof(o) <=> Shut(e)) /\ (~Shut(e) => e \in Flit /\ o.idx = e.idx + 1 /\ o.len = e.len /\ e.idx < e.len)
      BY <1>6, <2>2, FlitFollows
    <3>4. CASE sof(o)
      <4>1. o.idx = 1
        BY <3>4 DEF sof
      <4> QED BY <1>13, <2>2, <3>1, <3>2, <3>4, <4>1
    <3>5. CASE ~sof(o)
      <4>1. egr_open[p][v] /\ egr_rem[p][v] = e.len - e.idx /\ e.len \in Nat /\ e.idx \in Nat
        BY <1>12, <3>3, <3>5 DEF Flit
      <4>2. egr_rem'[p][v] = o.len - o.idx
        BY <1>13, <2>2, <3>2, <3>3, <3>5, <4>1
      <4>3. egr_open'[p][v] <=> ~eof(o)
        BY <1>13, <2>2, <3>5, <4>1
      <4> QED BY <3>1, <3>2, <4>2, <4>3 DEF eof
    <3> QED BY <3>4, <3>5
  <2> QED BY <2>1, <2>2
<1>15. Reached(k, p, v)' = E
  BY DEF Reached, E, h
<1> QED BY <1>14, <1>15 DEF SinkFits

\* No arrival is a fault.
LEMMA CleanStep ==
  ASSUME RadixLaw, HopInv, NEW offer, NEW en, NEW kill, Edge(offer, en, kill),
         NEW g \in Ghost, Whole(g)
  PROVE  Clean'
<1> SUFFICES ASSUME NEW p \in Port PROVE egr_err'[p] = {}
  BY DEF Clean
<1> DEFINE x == egr_link(p)
           v == x.vc
<1>0. Flits
  BY DEF HopInv
<1>1. x \in Flit \cup {NoFlit}
  <2>1. <<Stages, p, 0>> \in Hop
    BY FabricAssumption DEF Hop, VC
  <2> DEFINE w == Wire(<<Stages, p, 0>>)
  <2>2. w \in Wires /\ Len(w) \in {1, 2} /\ w[Len(w)] = x
    BY <1>0, <2>1, WireEnd
  <2> HIDE DEF w
  <2> QED BY <2>2, WireEnds
<1>2. egr_err'[p] = egr_err[p] \cup
        {e \in {"length", "dest"} : x # NoFlit /\ (IF e = "length" THEN e_length(p, x) ELSE e_dest(p, x))}
  BY Zenon DEF Edge, EgressEdge
<1>3. egr_err[p] = {}
  BY DEF Whole, Clean
<1> HIDE DEF x
<1>4. ASSUME x # NoFlit PROVE ~e_length(p, x) /\ ~e_dest(p, x)
  <2>1. x \in Flit /\ v \in VC /\ Of(x, v) = x
    BY <1>1, <1>4 DEF Flit, Of
  <2> DEFINE e == Reached(g, p, v)
  <2>2. e \in Flit \cup {NoFlit} /\ Follows(e, x) /\ (sof(x) => x.dest = p)
    BY <1>0, <1>4, <2>1, SinkFacts DEF x
  <2>3. (egr_open[p][v] <=> ~Shut(e)) /\ egr_rem[p][v] = IF Shut(e) THEN 0 ELSE e.len - e.idx
    BY <2>1 DEF Whole, Sinks, SinkFits
  <2> HIDE DEF e
  <2>4. (sof(x) <=> Shut(e)) /\ (~Shut(e) => e \in Flit /\ x.idx = e.idx + 1 /\ x.len = e.len /\ e.idx < e.len)
    BY <2>1, <2>2, FlitFollows
  <2>5. ~e_dest(p, x)
    BY <2>2 DEF e_dest
  <2>6. CASE sof(x)
    <3>1. ~egr_open[p][v] /\ (eof(x) <=> x.len = 1)
      BY <2>3, <2>4, <2>6 DEF sof, eof
    <3>2. ~(eof(x) # (x.len = 1))
      BY <3>1, <2>6 DEF eof, sof
    <3> QED BY <2>5, <2>6, <3>1, <3>2 DEF e_length
  <2>7. CASE ~sof(x)
    <3>1. egr_open[p][v] /\ egr_rem[p][v] = e.len - e.idx
      BY <2>3, <2>4, <2>7
    <3>2. e.len \in Nat /\ e.idx \in Nat /\ x.idx \in Nat /\ x.len \in Nat /\ x.idx <= x.len
      BY <2>1, <2>4, <2>7 DEF Flit
    <3>3. eof(x) => egr_rem[p][v] = 1
      BY <2>4, <2>7, <3>1, <3>2 DEF eof
    <3>4. ~eof(x) => ~(egr_rem[p][v] <= 1)
      BY <2>4, <2>7, <3>1, <3>2 DEF eof
    <3> QED BY <2>5, <2>7, <3>1, <3>3, <3>4 DEF e_length
  <2> QED BY <2>6, <2>7
<1> QED BY <1>2, <1>3, <1>4

\* At first nothing has been taken.
LEMMA WholeInit ==
  ASSUME RadixLaw, Init, NEW g \in Ghost, \A h \in Hop : g[h] = NoFlit
  PROVE  Whole(g)
<1>2. g \in Ghost /\ \A h \in Hop : g[h] = NoFlit
  OBVIOUS
<1>3. \A a : Linked(a, << >>) /\ EndOf(a, << >>) = a
  <2> TAKE a
  <2>1. Len(<< >>) = 0
    OBVIOUS
  <2> QED BY <2>1 DEF Linked, EndOf
<1>4. Shut(NoFlit) /\ FifoWords(EmptyFifo) = << >>
  BY DEF Shut, FifoWords, EmptyFifo
<1>5. ASSUME NEW h \in Hop
      PROVE  Queue(h) \in Seq(Bound(h)) /\ Linked(g[h], Queue(h)) /\ Newest(g, h) = NoFlit
  <2>1. Queue(h) = << >>
    BY EmptyQueues
  <2> QED BY <1>2, <1>3, <2>1, EmptySeq DEF Newest
<1>6. Chained(g)
  BY <1>5 DEF Chained
<1>7. Locks(g)
  <2> SUFFICES ASSUME NEW c \in Buffer PROVE LockFits(g, c)
    BY DEF Locks
  <2>1. sw_lock[c] = Free
    BY DEF Init, SwitchInit
  <2>2. Beyond(c) \in Hop
    <3>1. c[1] \in Stage /\ c[2] \in Port /\ c[3] \in VC
      BY Triples
    <3> QED BY <3>1, Triples DEF Beyond
  <2> QED BY <1>4, <1>5, <2>1, <2>2 DEF LockFits
<1>8. ASSUME NEW p \in Port, NEW v \in VC
      PROVE  SourceFits(g, p, v) /\ SinkFits(g, p, v)
  <2>1. <<0, p, v>> \in Hop /\ <<Stages, p, v>> \in Hop
    BY FabricAssumption DEF Hop
  <2>2. ing_open[p] = NoFlit /\ ing_fifo[p][v] = EmptyFifo
    BY DEF Init, IngressInit
  <2>3. ~egr_open[p][v] /\ egr_rem[p][v] = 0 /\ egr_fifo[p][v] = EmptyFifo
    BY DEF Init, EgressInit
  <2>4. Newest(g, <<0, p, v>>) = NoFlit /\ g[<<Stages, p, v>>] = NoFlit
    BY <1>2, <1>5, <2>1
  <2>5. SourceFits(g, p, v)
    BY <1>3, <1>4, <2>2, <2>4 DEF SourceFits, Framing
  <2>6. Reached(g, p, v) = NoFlit
    BY <1>3, <1>4, <2>3, <2>4 DEF Reached
  <2> QED BY <1>4, <2>3, <2>5, <2>6 DEF SinkFits
<1>9. Clean
  BY DEF Clean, Init, EgressInit
<1> QED BY <1>6, <1>7, <1>8, <1>9 DEF Whole, Sources, Sinks

LEMMA PacketsInit == RadixLaw /\ Init => PacketInv
<1> SUFFICES ASSUME RadixLaw, Init PROVE PacketInv
  OBVIOUS
<1>1. HopInv
  BY HopInit
<1> DEFINE g == [h \in Hop |-> NoFlit]
<1>2. g \in Ghost /\ \A h \in Hop : g[h] = NoFlit
  BY DEF Ghost
<1> HIDE DEF g
<1>3. Whole(g)
  BY <1>2, WholeInit
<1> QED BY <1>1, <1>2, <1>3 DEF PacketInv

\* The parts together: what holds of the flits last taken holds of those taken next.
LEMMA WholeStep ==
  ASSUME RadixLaw, HopInv, NEW offer \in Presented, NEW en, NEW kill, Edge(offer, en, kill),
         NEW g \in Ghost, Whole(g), NEW k \in Ghost, Passes(g, k, en)
  PROVE  Whole(k)'
<1>1. Chained(k)'
  BY ChainMoves DEF Chained
<1>2. Locks(k)'
  BY LockStep DEF Locks
<1>3. Sources(k)'
  BY SourceStep DEF Sources
<1>4. Sinks(k)'
  BY SinkStep DEF Sinks
<1>5. Clean'
  BY CleanStep
<1> QED BY <1>1, <1>2, <1>3, <1>4, <1>5 DEF Whole

\* Nothing changes with the registers as they are.
LEMMA WholeStays == ASSUME NEW g, Whole(g), UNCHANGED vars PROVE Whole(g)'
<1> USE DEF vars, ingVars, swVars, egrVars
<1>1. \A h : Queue(h)' = Queue(h) /\ Newest(g, h)' = Newest(g, h)
  BY DEF Queue, Newest, FifoOf, Wire
<1>2. Chained(g)'
  BY <1>1 DEF Whole, Chained
<1>3. Locks(g)'
  <2>1. \A c : Source(c)' = Source(c)
    BY DEF Source, OwnerBuffer
  <2>2. \A b : head(b)' = head(b) /\ route_eff(b)' = route_eff(b)
    BY DEF head, route_eff
  <2>3. ASSUME NEW c \in Buffer PROVE LockFits(g, c)'
    <3>1. LockFits(g, c)
      BY DEF Whole, Locks
    <3> QED BY <1>1, <2>1, <2>2, <3>1 DEF LockFits, Midway, Opening, route_eff, head
  <2> QED BY <2>3 DEF Locks
<1>4. Sources(g)'
  <2> SUFFICES ASSUME NEW p \in Port, NEW v \in VC PROVE SourceFits(g, p, v)'
    BY DEF Sources
  <2>1. SourceFits(g, p, v)
    BY DEF Whole, Sources
  <2>2. ing_open' = ing_open /\ ing_fifo' = ing_fifo
    OBVIOUS
  <2>3. Newest(g, <<0, p, v>>)' = Newest(g, <<0, p, v>>)
    BY <1>1
  <2>4. Framing(g, p, v)' = Framing(g, p, v)
    BY <2>2, <2>3 DEF Framing
  <2> QED BY <2>1, <2>2, <2>3, <2>4 DEF SourceFits
<1>5. Sinks(g)'
  BY DEF Whole, Sinks, SinkFits, Reached
<1>6. Clean'
  BY DEF Whole, Clean
<1> QED BY <1>2, <1>3, <1>4, <1>5, <1>6 DEF Whole

LEMMA PacketsNext == RadixLaw /\ PacketInv /\ [Next]_vars => PacketInv'
<1> SUFFICES ASSUME RadixLaw, PacketInv, [Next]_vars PROVE PacketInv'
  OBVIOUS
<1>1. HopInv /\ Regs /\ Flits
  BY DEF PacketInv, HopInv
<1>2. HopInv'
  BY <1>1, HopNext
<1>3. PICK g \in Ghost : Whole(g)
  BY DEF PacketInv
<1>4. CASE Next
  <2>1. PICK offer \in Presented, en \in Taken, kill \in SUBSET Withheld : Edge(offer, en, kill)
    BY <1>4 DEF Next
  <2>2. PICK k \in Ghost : Passes(g, k, en)
    BY <1>1, GhostStep
  <2>3. Whole(k)'
    BY <1>1, <1>3, <2>1, <2>2, WholeStep
  <2> QED BY <1>2, <2>2, <2>3 DEF PacketInv, Ghost
<1>5. CASE UNCHANGED vars
  <2>1. Whole(g)'
    BY <1>3, <1>5, WholeStays
  <2> QED BY <1>2, <1>3, <2>1 DEF PacketInv, Ghost
<1> QED BY <1>4, <1>5

LEMMA PacketInvGives == RadixLaw /\ PacketInv => PacketsWhole
<1> SUFFICES ASSUME RadixLaw, PacketInv PROVE PacketsWhole
  OBVIOUS
<1>1. Regs /\ Flits
  BY DEF PacketInv, HopInv
<1>2. PICK g \in Ghost : Whole(g)
  BY DEF PacketInv
<1>3. Locks(g) /\ Clean
  BY <1>2 DEF Whole
<1>4. ASSUME NEW b \in Buffer PROVE Cardinality({c \in Sends : Source(c) = b}) <= 1
  <2> DEFINE T == {c \in Sends : Source(c) = b}
  <2>1. ASSUME NEW c \in T, NEW d \in T PROVE c = d
    <3>1. c \in Buffer /\ d \in Buffer /\ sw_lock[c] \in Local /\ sw_lock[d] \in Local /\ Source(c) = Source(d)
      BY <1>1, SendFacts
    <3>2. sw_lock[c] # Free /\ sw_lock[d] # Free
      BY <3>1, FabricAssumption DEF Local, Free
    <3> QED BY <1>1, <1>3, <3>1, <3>2, OneOwner
  <2> HIDE DEF T
  <2>2. CASE T = {}
    BY <2>2, FS_EmptySet DEF T
  <2>3. CASE T # {}
    <3>1. PICK c : T = {c}
      BY <2>1, <2>3
    <3>2. Cardinality(T) = 1
      BY <3>1, FS_Singleton
    <3> QED BY <3>2 DEF T
  <2> QED BY <2>2, <2>3
<1> QED BY <1>3, <1>4 DEF PacketsWhole, OneTaker, Clean

\* Packets arrive whole, contiguous on their channel and where they were sent to, and no
\* two outputs ever pop one buffer: for every geometry, every depth, every traffic of well
\* behaved sources, whatever shares the links and whatever the consumers do (PacketsWhole;
\* a_egr_length, a_egr_dest, pkt_switch_stage.sv on the one output per buffer).
THEOREM PacketsAlwaysWhole == PowersOfRadix => (Spec => []PacketsWhole)
<1> SUFFICES ASSUME PowersOfRadix PROVE Spec => []PacketsWhole
  OBVIOUS
<1>1. Init => PacketInv
  BY PacketsInit, PowersMultiply
<1>2. PacketInv /\ [Next]_vars => PacketInv'
  BY PacketsNext, PowersMultiply
<1>3. PacketInv => PacketsWhole
  BY PacketInvGives, PowersMultiply
<1> QED BY <1>1, <1>2, <1>3, PTL DEF Spec

-----------------------------------------------------------------------------
(* The flits of one lane.                                                  *)

\* The recursive definition of Between, for the first m words.
KeptIs(F, s, d, v, w, m) ==
  F = [n \in 0 .. m |-> IF n = 0 THEN << >>
                        ELSE IF OfLane(s, d, v, w[n]) THEN Append(F[n - 1], w[n]) ELSE F[n - 1]]

\* What is kept once word x comes behind those that `kept` is from.
WithWord(s, d, v, kept, x) == IF OfLane(s, d, v, x) THEN Append(kept, x) ELSE kept

KeptBy(F, s, d, v, w, m) ==
  F[0] = << >> /\ \A k \in 1 .. m : F[k] = WithWord(s, d, v, F[k - 1], w[k])

LEMMA KeptAt ==
  ASSUME NEW s, NEW d, NEW v, NEW w, NEW m \in Nat, NEW F, KeptIs(F, s, d, v, w, m)
  PROVE  KeptBy(F, s, d, v, w, m)
<1> DEFINE B == [n \in 0 .. m |-> IF n = 0 THEN << >>
                                  ELSE IF OfLane(s, d, v, w[n]) THEN Append(F[n - 1], w[n]) ELSE F[n - 1]]
<1>1. F = B
  BY DEF KeptIs
<1>2. B[0] = << >>
  OBVIOUS
<1>3. ASSUME NEW k \in 1 .. m PROVE B[k] = WithWord(s, d, v, F[k - 1], w[k])
  <2>1. k \in 0 .. m /\ k # 0
    OBVIOUS
  <2> QED BY <2>1, Zenon DEF WithWord
<1> HIDE DEF B
<1> QED BY <1>1, <1>2, <1>3, Zenon DEF KeptBy

LEMMA KeptExists ==
  ASSUME NEW s, NEW d, NEW v, NEW w, NEW m \in Nat
  PROVE  \E F : KeptIs(F, s, d, v, w, m)
<1> DEFINE T == {n \in Nat : \E F : KeptIs(F, s, d, v, w, n)}
<1>1. 0 \in T
  <2> DEFINE F == [n \in 0 .. 0 |-> << >>]
  <2>1. F = [n \in 0 .. 0 |-> IF n = 0 THEN << >>
                              ELSE IF OfLane(s, d, v, w[n]) THEN Append(F[n - 1], w[n]) ELSE F[n - 1]]
    OBVIOUS
  <2> QED BY <2>1 DEF KeptIs
<1>2. ASSUME NEW n \in Nat, n \in T PROVE n + 1 \in T
  <2>1. PICK F : KeptIs(F, s, d, v, w, n)
    BY <1>2
  <2> DEFINE G == [k \in 0 .. n + 1 |->
                     IF k = n + 1 THEN IF OfLane(s, d, v, w[k]) THEN Append(F[n], w[k]) ELSE F[n]
                     ELSE F[k]]
  <2>2. KeptBy(F, s, d, v, w, n)
    BY <2>1, KeptAt
  <2>3. ASSUME NEW k \in 0 .. n + 1
        PROVE  G[k] = IF k = 0 THEN << >>
                      ELSE IF OfLane(s, d, v, w[k]) THEN Append(G[k - 1], w[k]) ELSE G[k - 1]
    <3>1. CASE k = 0
      <4>1. G[k] = F[0] /\ F[0] = << >>
        BY <2>2, <3>1 DEF KeptBy
      <4> QED BY <4>1, <3>1
    <3>2. CASE k = n + 1
      <4>1. G[k] = (IF OfLane(s, d, v, w[k]) THEN Append(F[n], w[k]) ELSE F[n]) /\ G[k - 1] = F[n] /\ k # 0
        BY <3>2
      <4> HIDE DEF G
      <4> QED BY <4>1
    <3>3. CASE k \in 1 .. n
      <4>1. G[k] = F[k] /\ G[k - 1] = F[k - 1]
        BY <3>3
      <4>2. F[k] = IF OfLane(s, d, v, w[k]) THEN Append(F[k - 1], w[k]) ELSE F[k - 1]
        BY <2>2, <3>3, Zenon DEF KeptBy, WithWord
      <4>3. k # 0
        BY <3>3
      <4> HIDE DEF G
      <4> QED BY <4>1, <4>2, <4>3
    <3> QED BY <3>1, <3>2, <3>3
  <2>4. G = [k \in 0 .. n + 1 |-> IF k = 0 THEN << >>
                                  ELSE IF OfLane(s, d, v, w[k]) THEN Append(G[k - 1], w[k]) ELSE G[k - 1]]
    BY <2>3
  <2>5. KeptIs(G, s, d, v, w, n + 1)
    BY <2>4 DEF KeptIs
  <2> QED BY <2>5
<1> HIDE DEF T
<1>3. \A n \in Nat : n \in T
  BY <1>1, <1>2, FromZero
<1> QED BY <1>3 DEF T

LEMMA KeptOf ==
  ASSUME NEW s, NEW d, NEW v, NEW S, NEW w \in Seq(S)
  PROVE  \E F : KeptBy(F, s, d, v, w, Len(w)) /\ Between(s, d, v, w) = F[Len(w)]
<1> DEFINE F == CHOOSE F : KeptIs(F, s, d, v, w, Len(w))
<1>1. Len(w) \in Nat
  BY LenProperties
<1>2. KeptIs(F, s, d, v, w, Len(w))
  BY <1>1, KeptExists
<1>3. Between(s, d, v, w) = F[Len(w)]
  BY DEF Between, KeptIs
<1> HIDE DEF F
<1>4. KeptBy(F, s, d, v, w, Len(w))
  BY <1>1, <1>2, KeptAt
<1> QED BY <1>3, <1>4

\* Nothing is kept of nothing, and of a flit behind others that flit if it is of the lane.
LEMMA KeptNone == ASSUME NEW s, NEW d, NEW v PROVE Between(s, d, v, << >>) = << >>
<1> DEFINE e == << >>
<1>1. e \in Seq({}) /\ Len(e) = 0
  BY EmptySeq
<1> HIDE DEF e
<1>2. PICK F : KeptBy(F, s, d, v, e, Len(e)) /\ Between(s, d, v, e) = F[Len(e)]
  BY <1>1, KeptOf
<1>3. Between(s, d, v, e) = << >>
  BY <1>1, <1>2 DEF KeptBy
<1> QED BY <1>3 DEF e

LEMMA KeptNext ==
  ASSUME NEW s, NEW d, NEW v, NEW S, NEW w \in Seq(S), NEW x \in S
  PROVE  Between(s, d, v, Append(w, x)) = WithWord(s, d, v, Between(s, d, v, w), x)
<1> DEFINE n == Len(w)
           u == Append(w, x)
<1>1. u \in Seq(S) /\ Len(u) = n + 1 /\ n \in Nat /\ (\A i \in 1 .. n : u[i] = w[i]) /\ u[n + 1] = x
  BY AppendProperties, LenProperties
<1>2. PICK F : KeptBy(F, s, d, v, w, n) /\ Between(s, d, v, w) = F[n]
  BY KeptOf
<1> HIDE DEF u, n
<1>3. PICK G : KeptBy(G, s, d, v, u, Len(u)) /\ Between(s, d, v, u) = G[Len(u)]
  BY <1>1, KeptOf
<1>4. n + 1 - 1 = n /\ n + 1 \in 1 .. Len(u)
  BY <1>1
<1> DEFINE T == {k \in Nat : k <= n => F[k] = G[k]}
<1>7. 0 \in T
  BY <1>2, <1>3 DEF KeptBy
<1>8. ASSUME NEW k \in Nat, k \in T PROVE k + 1 \in T
  <2> SUFFICES ASSUME k + 1 <= n PROVE F[k + 1] = G[k + 1]
    OBVIOUS
  <2>1. k + 1 \in 1 .. n /\ k + 1 \in 1 .. Len(u) /\ k + 1 - 1 = k /\ F[k] = G[k]
    BY <1>1, <1>8
  <2>2. u[k + 1] = w[k + 1]
    BY <1>1, <2>1
  <2>3. F[k + 1] = WithWord(s, d, v, F[k], w[k + 1])
    BY <1>2, <2>1 DEF KeptBy
  <2>4. G[k + 1] = WithWord(s, d, v, G[k], u[k + 1])
    BY <1>3, <2>1 DEF KeptBy
  <2> QED BY <2>1, <2>2, <2>3, <2>4
<1> HIDE DEF T
<1>9. \A k \in Nat : k \in T
  BY <1>7, <1>8, FromZero
<1>10. F[n] = G[n]
  BY <1>1, <1>9 DEF T
<1>11. G[n + 1] = WithWord(s, d, v, G[n], u[n + 1])
  BY <1>1, <1>3, <1>4 DEF KeptBy
<1>12. Between(s, d, v, u) = WithWord(s, d, v, Between(s, d, v, w), x)
  BY <1>1, <1>2, <1>3, <1>4, <1>10, <1>11
<1> QED BY <1>12 DEF u

\* What holds of the empty sequence and, if of a sequence, of one with a word more behind
\* it, holds of every sequence.
LEMMA FromEmpty ==
  ASSUME NEW S, NEW T, << >> \in T, \A w \in Seq(S), x \in S : w \in T => Append(w, x) \in T
  PROVE  \A w \in Seq(S) : w \in T
<1> DEFINE N == {n \in Nat : \A w \in Seq(S) : Len(w) = n => w \in T}
<1>1. 0 \in N
  BY EmptySeq
<1>2. ASSUME NEW n \in Nat, n \in N PROVE n + 1 \in N
  <2> SUFFICES ASSUME NEW w \in Seq(S), Len(w) = n + 1 PROVE w \in T
    OBVIOUS
  <2>1. w # << >>
    BY EmptySeq
  <2>2. PICK u \in Seq(S), x \in S : w = Append(u, x)
    BY <2>1, SequenceEmptyOrAppend
  <2>3. Len(w) = Len(u) + 1 /\ Len(u) \in Nat
    BY <2>2, AppendProperties, LenProperties
  <2>4. u \in T
    BY <1>2, <2>3
  <2> QED BY <2>2, <2>4
<1> HIDE DEF N
<1>3. \A n \in Nat : n \in N
  BY <1>1, <1>2, FromZero
<1> QED BY <1>3, LenProperties DEF N

LEMMA KeptTypes ==
  ASSUME NEW s, NEW d, NEW v, NEW S, NEW w \in Seq(S)
  PROVE  Between(s, d, v, w) \in Seq(S) /\ Len(Between(s, d, v, w)) <= Len(w)
<1> DEFINE K(a) == Between(s, d, v, a)
           T == {a \in Seq(S) : K(a) \in Seq(S) /\ Len(K(a)) <= Len(a)}
<1>1. << >> \in T
  <2> DEFINE e == << >>
  <2>1. e \in Seq(S) /\ Len(e) = 0 /\ K(e) = e
    BY EmptySeq, KeptNone
  <2>2. e \in T
    <3> HIDE DEF e
    <3>1. Len(e) <= Len(e)
      BY <2>1
    <3>2. K(e) \in Seq(S) /\ Len(K(e)) <= Len(e)
      BY <2>1, <3>1, Zenon
    <3> QED BY <2>1, <3>2, Zenon
  <2> QED BY <2>2
<1>2. ASSUME NEW a \in Seq(S), NEW x \in S, a \in T PROVE Append(a, x) \in T
  <2>1. K(a) \in Seq(S) /\ Len(K(a)) <= Len(a) /\ Len(a) \in Nat
    BY <1>2, LenProperties
  <2>2. K(Append(a, x)) = Append(K(a), x) \/ K(Append(a, x)) = K(a)
    BY KeptNext DEF WithWord
  <2>3. Append(a, x) \in Seq(S) /\ Len(Append(a, x)) = Len(a) + 1
    BY AppendProperties
  <2>4. Append(K(a), x) \in Seq(S) /\ Len(Append(K(a), x)) = Len(K(a)) + 1 /\ Len(K(a)) \in Nat
    BY <2>1, AppendProperties, LenProperties
  <2>5. K(Append(a, x)) \in Seq(S) /\ Len(K(Append(a, x))) <= Len(Append(a, x))
    <3> HIDE DEF K
    <3> QED BY <2>1, <2>2, <2>3, <2>4
  <2> QED BY <2>3, <2>5
<1> HIDE DEF T
<1>3. w \in T
  BY <1>1, <1>2, FromEmpty
<1> QED BY <1>3 DEF T

\* A word behind two sequences is behind the second.
LEMMA AppendToBoth ==
  ASSUME NEW S, NEW p \in Seq(S), NEW q \in Seq(S), NEW x \in S
  PROVE  Cat(p, Append(q, x)) = Append(Cat(p, q), x)
<1>1. Append(q, x) = q \o <<x>> /\ p \o q \in Seq(S) /\ <<x>> \in Seq(S)
  BY AppendIsConcat, ConcatProperties
<1>2. Append(p \o q, x) = (p \o q) \o <<x>>
  BY <1>1, AppendIsConcat
<1> QED BY <1>1, <1>2, ConcatAssociative DEF Cat

\* Keeping commutes with concatenation.
LEMMA KeptOfBoth ==
  ASSUME NEW s, NEW d, NEW v, NEW S, NEW a \in Seq(S), NEW b \in Seq(S)
  PROVE  Between(s, d, v, Cat(a, b)) = Cat(Between(s, d, v, a), Between(s, d, v, b))
<1> DEFINE K(w) == Between(s, d, v, w)
           T == {u \in Seq(S) : K(Cat(a, u)) = Cat(K(a), K(u))}
<1>1. << >> \in T
  <2>1. << >> \in Seq(S) /\ K(<< >>) = << >> /\ K(a) \in Seq(S)
    BY EmptySeq, KeptNone, KeptTypes
  <2>2. Cat(a, << >>) = a /\ Cat(K(a), << >>) = K(a)
    BY <2>1, ConcatEmptySeq DEF Cat
  <2> QED BY <2>1, <2>2
<1>2. ASSUME NEW u \in Seq(S), NEW x \in S, u \in T PROVE Append(u, x) \in T
  <2>1. /\ K(Cat(a, u)) = Cat(K(a), K(u)) /\ K(a) \in Seq(S) /\ K(u) \in Seq(S)
        /\ Cat(a, u) \in Seq(S) /\ Append(u, x) \in Seq(S)
    BY <1>2, KeptTypes, ConcatProperties, AppendProperties DEF Cat
  <2>2. Cat(a, Append(u, x)) = Append(Cat(a, u), x)
    BY AppendToBoth
  <2>3. Cat(K(a), Append(K(u), x)) = Append(Cat(K(a), K(u)), x)
    <3> HIDE DEF K
    <3> QED BY <2>1, AppendToBoth
  <2>4. K(Append(Cat(a, u), x)) = WithWord(s, d, v, K(Cat(a, u)), x)
    BY <2>1, KeptNext
  <2>5. K(Append(u, x)) = WithWord(s, d, v, K(u), x)
    BY KeptNext
  <2>6. K(Cat(a, Append(u, x))) = Cat(K(a), K(Append(u, x)))
    <3> HIDE DEF K
    <3> QED BY <2>1, <2>2, <2>3, <2>4, <2>5 DEF WithWord
  <2> QED BY <2>1, <2>6
<1> HIDE DEF T
<1>3. b \in T
  BY <1>1, <1>2, FromEmpty
<1> QED BY <1>3 DEF T

-----------------------------------------------------------------------------
(* One path.  Between two ports there is one, and a flit is never off it:  *)
(* at hop k the digits of a port that have been routed on are those of the *)
(* destination, the others still those of the source.                      *)

LEMMA AboveIs ==
  ASSUME RadixLaw, NEW k \in 0 .. Stages
  PROVE  /\ Above(k) \in Nat \ {0} /\ Radix ^ k \in Nat \ {0} /\ Radix ^ Stages = Above(k) * (Radix ^ k)
         /\ k = 0 => Above(k) = Radix ^ Stages
         /\ k = Stages => Above(k) = 1
<1> USE FabricAssumption DEF RadixLaw, Above
<1>1. k \in Nat /\ Stages - k \in Nat /\ Stages = (Stages - k) + k
  OBVIOUS
<1>2. Radix ^ Stages = (Radix ^ (Stages - k)) * (Radix ^ k)
  BY <1>1
<1>3. k = 0 => Stages - k = Stages
  OBVIOUS
<1>4. k = Stages => Stages - k = 0
  OBVIOUS
<1> QED BY <1>1, <1>2, <1>3, <1>4

\* The digits of p from weight m up are those of d, those below are those of s.
Mixed(p, s, d, m) == Quo(p, m) = Quo(d, m) /\ Rem(p, m) = Rem(s, m)

LEMMA PathIs ==
  ASSUME RadixLaw, NEW s \in Port, NEW d \in Port, NEW k \in 0 .. Stages
  PROVE  /\ path(s, d, k) \in Port /\ Mixed(path(s, d, k), s, d, Above(k))
         /\ \A p \in Port : Mixed(p, s, d, Above(k)) => p = path(s, d, k)
         /\ k = 0 => path(s, d, k) = s
         /\ k = Stages => path(s, d, k) = d
<1> DEFINE m == Above(k)
           n == Radix ^ Stages
           o == path(s, d, k)
<1>1. m \in Nat \ {0} /\ Radix ^ k \in Nat \ {0} /\ n = m * (Radix ^ k) /\ (k = 0 => m = n) /\ (k = Stages => m = 1)
  BY AboveIs
<1>2. s \in Nat /\ d \in Nat /\ s < n /\ d < n /\ n \in Nat \ {0} /\ Port = 0 .. n - 1
  BY Ports DEF Port
<1>3. o = Quo(d, m) * m + Rem(s, m)
  BY DEF path, Quo, Rem, Above
<1> HIDE DEF m, n, o
<1>4. Quo(d, m) \in Nat /\ Rem(s, m) \in 0 .. m - 1
  BY <1>1, <1>2, DivMod
<1>5. o = m * Quo(d, m) + Rem(s, m) /\ o \in Nat
  <2>1. m * Quo(d, m) \in Nat /\ m * Quo(d, m) = Quo(d, m) * m
    BY <1>1, <1>4
  <2> QED BY <1>3, <1>4, <2>1
<1>6. Quo(o, m) = Quo(d, m) /\ Rem(o, m) = Rem(s, m)
  BY <1>1, <1>4, <1>5, DivModIs
<1>7. o \in Port
  <2>1. o < n
    BY <1>1, <1>2, <1>5, <1>6, StaysBelow
  <2> QED BY <1>2, <1>5, <2>1
<1>8. ASSUME NEW p \in Port, Mixed(p, s, d, m) PROVE p = o
  <2>1. p = m * Quo(p, m) + Rem(p, m)
    BY <1>1, <1>2, DivMod
  <2> QED BY <1>5, <1>8, <2>1 DEF Mixed
<1>9. k = 0 => o = s
  <2> SUFFICES ASSUME k = 0 PROVE o = s
    OBVIOUS
  <2>1. m \in Nat \ {0} /\ m = n /\ s \in 0 .. m - 1 /\ d \in 0 .. m - 1
    BY <1>1, <1>2
  <2>2. Quo(d, m) = 0
    BY ONLY <2>1, DivModSmall
  <2>3. Rem(s, m) = s
    BY ONLY <2>1, DivModSmall
  <2>4. m * 0 = 0
    BY <2>1
  <2> QED BY <1>1, <1>2, <1>5, <2>2, <2>3, <2>4
<1>10. k = Stages => o = d
  <2> SUFFICES ASSUME k = Stages PROVE o = d
    OBVIOUS
  <2>1. m = 1
    BY <1>1
  <2>2. Rem(s, m) = 0
    BY <1>4, <2>1
  <2>3. d = m * Quo(d, m) + Rem(d, m) /\ Rem(d, m) \in 0 .. m - 1
    BY <1>1, <1>2, DivMod
  <2> QED BY <1>4, <1>5, <2>1, <2>2, <2>3
<1> QED BY <1>6, <1>7, <1>8, <1>9, <1>10 DEF Mixed, m, o

\* A remainder of a remainder.
LEMMA RemRem ==
  ASSUME NEW x \in Nat, NEW a \in Nat \ {0}, NEW b \in Nat \ {0}, NEW c, c = a * b
  PROVE  Rem(Rem(x, c), a) = Rem(x, a)
<1> DEFINE z == Quo(x, c)
           t == Rem(x, c)
           y == Quo(t, a)
           u == Rem(t, a)
<1>1. c \in Nat \ {0}
  OBVIOUS
<1>2. z \in Nat /\ t \in 0 .. c - 1 /\ x = c * z + t
  BY <1>1, DivMod
<1>3. y \in Nat /\ u \in 0 .. a - 1 /\ t = a * y + u
  BY <1>2, DivMod
<1> HIDE DEF z, t, y, u
<1>4. PICK q \in Nat : q = b * z + y
  <2>1. b * z \in Nat
    BY <1>2
  <2> QED BY <1>3, <2>1
<1>5. x = a * q + u
  <2>1. c * z = a * (b * z)
    BY <1>2
  <2>2. a * q = a * (b * z) + a * y
    BY <1>2, <1>3, <1>4
  <2>3. a * (b * z) \in Nat /\ a * y \in Nat
    BY <1>2, <1>3
  <2> QED BY <1>2, <1>3, <2>1, <2>2, <2>3
<1>6. Rem(x, a) = u
  BY <1>3, <1>4, <1>5, DivModIs
<1> QED BY <1>6 DEF u, t

\* A switch changes one digit: those of lower weight are the same on both its sides.
LEMMA ButterflyBelow ==
  ASSUME RadixLaw, NEW k \in Stage, NEW p \in Port, NEW i \in Local, NEW s \in Port,
         Rem(Global_of(k, p, i), Above(k)) = Rem(s, Above(k))
  PROVE  Rem(p, Above(k + 1)) = Rem(s, Above(k + 1))
<1> DEFINE w == Weight(k)
           m == Above(k)
           o == Global_of(k, p, i)
<1>1. w \in Nat \ {0} /\ m = w * Radix /\ Above(k + 1) = w
  BY Weights
<1>2. p \in Nat /\ s \in Nat /\ o \in Nat /\ Radix \in Nat \ {0}
  BY Butterfly, Ports, FabricAssumption
<1>3. Rem(o, m) = Rem(s, m) /\ Rem(o, w) = Rem(p, w)
  BY Butterfly
<1> HIDE DEF w, m, o
<1>4. Rem(Rem(o, m), w) = Rem(o, w)
  BY <1>1, <1>2, RemRem
<1>5. Rem(Rem(s, m), w) = Rem(s, w)
  BY <1>1, <1>2, RemRem
<1> QED BY <1>1, <1>3, <1>4, <1>5

\* The flits that may be on hop h: its port is between where they are from and where they go.
OnPath(h) == {f \in FlitOn(h[3]) : Mixed(h[2], f.src, f.dest, Above(h[1]))}

\* What is on a hop, and what was last taken from it, is on its path.
Straight(g) == \A h \in Hop : Queue(h) \in Seq(OnPath(h)) /\ g[h] \in OnPath(h) \cup {NoFlit}

\* What a port may frame: a flit of a packet of its own traffic, numbered.
Sendable(p) ==
  {f \in Flit : /\ f.src = p /\ f.seq \in 0 .. SeqMod - 1
                /\ \E t \in Traffic : t.src = p /\ t.dest = f.dest /\ t.vc = f.vc /\ t.len = f.len}
Home(p, v) == {f \in FlitOn(v) : f.src = p}

Sourced ==
  \A p \in Port :
    /\ ing_open[p] \in Sendable(p) \cup {NoFlit}
    /\ \A v \in VC : ing_seq[p][v] \in 0 .. SeqMod - 1 /\ ing_fifo[p][v] \in Fifo(Home(p, v))

LEMMA OnPathFlits ==
  \A h : OnPath(h) \subseteq Flit /\ NoFlit \notin OnPath(h) /\ \A f \in OnPath(h) : f.vc = h[3]
BY NoFlitIsNone DEF OnPath, FlitOn

LEMMA FrontOnPath ==
  ASSUME Flits, NEW g, Straight(g), NEW h \in Hop, FifoOf(h).out # NoFlit
  PROVE  FifoOf(h).out \in OnPath(h)
<1>1. Queue(h) # << >> /\ Head(Queue(h)) = FifoOf(h).out
  BY QueueFront
<1>2. Queue(h) \in Seq(OnPath(h))
  BY DEF Straight
<1> QED BY <1>1, <1>2, HeadThenTail

LEMMA NewestOnPath ==
  ASSUME NEW g, Straight(g), NEW h \in Hop
  PROVE  Newest(g, h) \in OnPath(h) \cup {NoFlit}
<1> DEFINE w == Queue(h)
           S == OnPath(h)
           a == g[h]
<1>1. w \in Seq(S) /\ a \in S \cup {NoFlit}
  BY DEF Straight
<1>2. Newest(g, h) = EndOf(a, w)
  BY DEF Newest
<1> HIDE DEF w, S, a
<1>3. CASE w = << >>
  BY <1>1, <1>2, <1>3 DEF EndOf, S
<1>4. CASE w # << >>
  <2>1. Len(w) \in 1 .. Len(w)
    BY <1>1, <1>4, EmptySeq, LenProperties
  <2>2. w[Len(w)] \in S
    BY <1>1, <2>1, ElementOfSeq
  <2> QED BY <1>2, <1>4, <2>2 DEF EndOf, S
<1> QED BY <1>3, <1>4 DEF S

\* What is sent on a hop is on its path: a header is routed there, the other flits follow it,
\* and no digit of the source is replaced before its turn.
LEMMA SendStraight ==
  ASSUME RadixLaw, Regs, Flits, Sourced, NEW g \in Ghost, Whole(g), Straight(g), NEW h \in Hop,
         Sending(h)
  PROVE  Offered(h) \in OnPath(h)
<1> DEFINE f == Offered(h)
<1>1. h[1] \in 0 .. Stages /\ h[2] \in Port /\ h[3] \in VC
  BY Triples
<1>2. f \in FlitOn(h[3]) /\ f \in Flit /\ f # NoFlit /\ f.src \in Port /\ f.dest \in Port
  BY TakeFacts, NoFlitIsNone DEF FlitOn, Flit
<1>3. Follows(Newest(g, h), f) /\ f \in Bound(h)
  BY SendFollows
<1> HIDE DEF f
<1>4. Rem(h[2], Above(h[1])) = Rem(f.src, Above(h[1]))
  <2>1. CASE h[1] = 0
    <3>1. ing_fifo[h[2]][h[3]] \in Fifo(Home(h[2], h[3]))
      BY <1>1 DEF Sourced
    <3>2. f \in Home(h[2], h[3])
      BY <1>2, <2>1, <3>1 DEF f, Offered, Fifo
    <3> QED BY <3>2 DEF Home
  <2>2. CASE h[1] # 0
    <3> DEFINE c == Behind(h)
               b == Source(c)
    <3>1. c[1] = h[1] - 1 /\ c[2] = h[2] /\ c[3] = h[3] /\ c[1] + 1 = h[1]
      BY <1>1 DEF Behind
    <3>2. c \in Sends /\ f = head(b)
      BY <2>2 DEF Sending, Offered, f
    <3>3. /\ c \in Buffer /\ b \in Buffer /\ sw_lock[c] \in Local
          /\ b = <<c[1], Global_of(c[1], c[2], sw_lock[c]), c[3]>>
      BY <3>2, SendFacts
    <3>4. b \in Hop /\ FifoOf(b) = sw_fifo[b] /\ c[1] \in Stage /\ c[2] \in Port
      <4>1. sw_lock[c] # Free
        BY <3>3, FabricAssumption DEF Local, Free
      <4> QED BY <3>3, <4>1, OwnerFacts, Triples
    <3>5. FifoOf(b).out = f
      BY <3>2, <3>4 DEF head
    <3>6. f \in OnPath(b)
      BY <1>2, <3>4, <3>5, FrontOnPath
    <3>7. b[1] = c[1] /\ b[2] = Global_of(c[1], c[2], sw_lock[c])
      BY <3>3
    <3> HIDE DEF b, c
    <3>8. Rem(Global_of(c[1], c[2], sw_lock[c]), Above(c[1])) = Rem(f.src, Above(c[1]))
      BY <3>6, <3>7 DEF OnPath, Mixed
    <3>9. Rem(c[2], Above(c[1] + 1)) = Rem(f.src, Above(c[1] + 1))
      BY <1>2, <3>3, <3>4, <3>8, ButterflyBelow
    <3> QED BY <3>1, <3>9
  <2> QED BY <2>1, <2>2
<1>5. Quo(h[2], Above(h[1])) = Quo(f.dest, Above(h[1]))
  <2>1. CASE sof(f)
    BY <1>3, <2>1 DEF Bound
  <2>2. CASE ~sof(f)
    <3> DEFINE a == Newest(g, h)
    <3>1. a \in OnPath(h) \cup {NoFlit}
      BY NewestOnPath
    <3> HIDE DEF a
    <3>2. ~Shut(a) /\ f = [a EXCEPT !.idx = @ + 1]
      BY <1>3, <2>2 DEF Follows, a
    <3>3. a \in OnPath(h) /\ a \in Flit
      BY <3>1, <3>2, OnPathFlits DEF Shut
    <3>4. f.dest = a.dest
      BY <3>2, <3>3 DEF Flit
    <3> QED BY <3>3, <3>4 DEF OnPath, Mixed
  <2> QED BY <2>1, <2>2
<1> QED BY <1>2, <1>4, <1>5 DEF OnPath, Mixed, f

\* A sequence of a set, with the front taken or not and a member behind or none.
LEMMA MovedIsSeq ==
  ASSUME NEW S, NEW w \in Seq(S), NEW n \in {0, 1}, n = 1 => w # << >>, NEW x \in S \cup {NoFlit}
  PROVE  Cat(Left(n, w), Arrived(x)) \in Seq(S)
<1>1. Left(n, w) \in Seq(S)
  <2>1. n = 1 => Tail(w) \in Seq(S)
    BY HeadThenTail
  <2> QED BY <2>1 DEF Left
<1>2. Arrived(x) \in Seq(S)
  BY EmptySeq DEF Arrived
<1> QED BY <1>1, <1>2, ConcatProperties DEF Cat

LEMMA StraightStep ==
  ASSUME RadixLaw, HopInv, Sourced, NEW offer, NEW en, NEW kill, Edge(offer, en, kill),
         NEW g \in Ghost, Whole(g), Straight(g), NEW k \in Ghost, Passes(g, k, en)
  PROVE  Straight(k)'
<1>1. Regs /\ Flits
  BY DEF HopInv
<1> SUFFICES ASSUME NEW h \in Hop
             PROVE  Queue(h)' \in Seq(OnPath(h)) /\ k[h] \in OnPath(h) \cup {NoFlit}
  BY DEF Straight, OnPath, Above, Mixed
<1>2. Queue(h) \in Seq(OnPath(h)) /\ g[h] \in OnPath(h) \cup {NoFlit}
  BY DEF Straight
<1>3. Sent(h) \in OnPath(h) \cup {NoFlit}
  BY <1>1, SendStraight DEF Sent
<1>4. /\ Queue(h)' = Cat(Left(Takes(h, en), Queue(h)), Arrived(Sent(h)))
      /\ Takes(h, en) \in {0, 1} /\ (Takes(h, en) = 1 => Queue(h) # << >>)
  BY HopStep DEF Takes
<1>5. Queue(h)' \in Seq(OnPath(h))
  <2> DEFINE w == Queue(h)
             S == OnPath(h)
             n == Takes(h, en)
             x == Sent(h)
  <2> HIDE DEF w, S, n, x
  <2>1. Cat(Left(n, w), Arrived(x)) \in Seq(S)
    BY <1>2, <1>3, <1>4, MovedIsSeq DEF w, S, n, x
  <2> QED BY <1>4, <2>1 DEF w, S, n, x
<1>6. k[h] \in OnPath(h) \cup {NoFlit}
  <2>1. k[h] = IF Taking(h, en) THEN FifoOf(h).out ELSE g[h]
    BY DEF Passes
  <2>2. Taking(h, en) => FifoOf(h).out \in OnPath(h)
    <3>1. Taking(h, en) => FifoOf(h).out # NoFlit
      BY <1>1, TakeFacts, NoFlitIsNone DEF FlitOn
    <3> QED BY <1>1, <3>1, FrontOnPath
  <2> QED BY <1>2, <2>1, <2>2
<1> QED BY <1>5, <1>6

LEMMA OfferSendable ==
  ASSUME Flits, Sourced, NEW p \in Port, NEW x \in Offers(p)
  PROVE  x \in Sendable(p)
<1>1. x \in Flit
  BY OfferTypes
<1>2. CASE ing_open[p] # NoFlit
  <2> DEFINE f == ing_open[p]
  <2>1. f \in Sendable(p) /\ f \in Flit
    BY <1>2 DEF Sourced, Sendable
  <2>2. x = [f EXCEPT !.idx = @ + 1]
    BY <1>2 DEF Offers
  <2> HIDE DEF f
  <2>3. x.src = f.src /\ x.dest = f.dest /\ x.vc = f.vc /\ x.len = f.len /\ x.seq = f.seq
    BY <2>1, <2>2 DEF Flit
  <2> QED BY <1>1, <2>1, <2>3 DEF Sendable
<1>3. CASE ing_open[p] = NoFlit
  <2>1. PICK t \in Traffic : t.src = p /\ x = [src |-> p, dest |-> t.dest, vc |-> t.vc, len |-> t.len,
                                             seq |-> ing_seq[p][t.vc], idx |-> 1]
    BY <1>3 DEF Offers
  <2>2. t.vc \in VC
    BY TrafficAssumption
  <2>3. ing_seq[p][t.vc] \in 0 .. SeqMod - 1
    BY <2>2 DEF Sourced
  <2>4. x.src = p /\ x.dest = t.dest /\ x.vc = t.vc /\ x.len = t.len /\ x.seq = ing_seq[p][t.vc]
    BY <2>1
  <2> QED BY <1>1, <2>1, <2>3, <2>4 DEF Sendable
<1> QED BY <1>2, <1>3

LEMMA SourcedStep ==
  ASSUME Flits, Sourced, NEW offer \in Presented, NEW en, NEW kill, Edge(offer, en, kill)
  PROVE  Sourced'
<1> SUFFICES ASSUME NEW p \in Port
             PROVE  /\ ing_open'[p] \in Sendable(p) \cup {NoFlit}
                    /\ \A v \in VC : ing_seq'[p][v] \in 0 .. SeqMod - 1 /\ ing_fifo'[p][v] \in Fifo(Home(p, v))
  BY DEF Sourced, Sendable, Home
<1> DEFINE x == New(offer, p)
<1>1. x \in Sendable(p) \cup {NoFlit} /\ (x # NoFlit => Len(ing_fifo[p][x.vc].core) < EndDepth)
  BY NewTypes, OfferSendable
<1>2. ing_open'[p] \in Sendable(p) \cup {NoFlit}
  <2>1. ing_open'[p] = IF x = NoFlit THEN ing_open[p] ELSE IF eof(x) THEN NoFlit ELSE x
    BY IngressMoves
  <2>2. ing_open[p] \in Sendable(p) \cup {NoFlit}
    BY DEF Sourced
  <2> HIDE DEF x
  <2> QED BY <1>1, <2>1, <2>2
<1>3. ASSUME NEW v \in VC PROVE ing_seq'[p][v] \in 0 .. SeqMod - 1
  <2>1. ing_seq[p][v] \in 0 .. SeqMod - 1 /\ SeqMod \in Nat \ {0}
    BY TrafficAssumption DEF Sourced
  <2>2. (ing_seq[p][v] + 1) % SeqMod \in 0 .. SeqMod - 1
    BY <2>1
  <2>3. ing_seq'[p][v] = IF x # NoFlit /\ sof(x) /\ x.vc = v
                         THEN (ing_seq[p][v] + 1) % SeqMod ELSE ing_seq[p][v]
    BY IngressMoves
  <2> HIDE DEF x
  <2> QED BY <2>1, <2>2, <2>3
<1>4. ASSUME NEW v \in VC PROVE ing_fifo'[p][v] \in Fifo(Home(p, v))
  <2> DEFINE f == ing_fifo[p][v]
             o == Of(x, v)
             n == IF v \in send_grant(p) THEN 1 ELSE 0
             S == Home(p, v)
  <2>1. f \in Fifo(S) /\ EndDepth \in Nat /\ n \in {0, 1}
    BY DepthsAssumption DEF Sourced
  <2>2. n = 1 => f.out # NoFlit
    BY GrantOne DEF send_grant, send_req
  <2>3. o \in S \cup {NoFlit} /\ (o # NoFlit => Len(f.core) < EndDepth)
    <3> HIDE DEF x
    <3> QED BY <1>1 DEF Of, Home, FlitOn, Sendable
  <2>4. ing_fifo'[p][v] = FifoNext(f, o, n, EndDepth)
    BY IngressMoves
  <2>5. NoFlit \notin S
    BY NoFlitIsNone DEF Home, FlitOn
  <2> HIDE DEF f, o, n, x, S
  <2>6. FifoNext(f, o, n, EndDepth) \in Fifo(S)
    BY <2>1, <2>2, <2>3, <2>5, FifoStep
  <2> QED BY <2>4, <2>6 DEF S
<1> QED BY <1>2, <1>3, <1>4

-----------------------------------------------------------------------------
(* The hops of a path, one behind the other.                               *)

\* The recursive definition of Joined.
JoinedIs(F, words, hops, m) ==
  F = [k \in 0 .. m |-> IF k = 0 THEN words ELSE hops[k - 1] \o F[k - 1]]

JoinedBy(F, words, hops, m) == F[0] = words /\ \A k \in 1 .. m : F[k] = Cat(hops[k - 1], F[k - 1])

LEMMA JoinedAt ==
  ASSUME NEW words, NEW hops, NEW m \in Nat, NEW F, JoinedIs(F, words, hops, m)
  PROVE  JoinedBy(F, words, hops, m)
<1> DEFINE B == [k \in 0 .. m |-> IF k = 0 THEN words ELSE hops[k - 1] \o F[k - 1]]
<1>1. F = B
  BY DEF JoinedIs
<1>2. B[0] = words
  OBVIOUS
<1>3. ASSUME NEW k \in 1 .. m PROVE B[k] = Cat(hops[k - 1], F[k - 1])
  <2>1. k \in 0 .. m /\ k # 0
    OBVIOUS
  <2> QED BY <2>1, Zenon DEF Cat
<1> HIDE DEF B
<1> QED BY <1>1, <1>2, <1>3, Zenon DEF JoinedBy

LEMMA JoinedExists ==
  ASSUME NEW words, NEW hops, NEW m \in Nat
  PROVE  \E F : JoinedIs(F, words, hops, m)
<1> DEFINE T == {n \in Nat : \E F : JoinedIs(F, words, hops, n)}
<1>1. 0 \in T
  <2> DEFINE F == [k \in 0 .. 0 |-> words]
  <2>1. F = [k \in 0 .. 0 |-> IF k = 0 THEN words ELSE hops[k - 1] \o F[k - 1]]
    OBVIOUS
  <2> QED BY <2>1 DEF JoinedIs
<1>2. ASSUME NEW n \in Nat, n \in T PROVE n + 1 \in T
  <2>1. PICK F : JoinedIs(F, words, hops, n)
    BY <1>2
  <2> DEFINE G == [k \in 0 .. n + 1 |-> IF k = n + 1 THEN hops[k - 1] \o F[n] ELSE F[k]]
  <2>2. JoinedBy(F, words, hops, n)
    BY <2>1, JoinedAt
  <2>3. ASSUME NEW k \in 0 .. n + 1
        PROVE  G[k] = IF k = 0 THEN words ELSE hops[k - 1] \o G[k - 1]
    <3>1. CASE k = 0
      <4>1. k # n + 1
        BY <3>1
      <4>2. G[k] = F[k]
        BY <4>1
      <4>3. F[0] = words
        BY <2>2 DEF JoinedBy
      <4> QED BY <3>1, <4>2, <4>3
    <3>2. CASE k = n + 1
      <4>1. G[k] = hops[k - 1] \o F[n] /\ G[k - 1] = F[n] /\ k # 0
        BY <3>2
      <4> HIDE DEF G
      <4> QED BY <4>1
    <3>3. CASE k \in 1 .. n
      <4>1. G[k] = F[k] /\ G[k - 1] = F[k - 1]
        BY <3>3
      <4>2. F[k] = hops[k - 1] \o F[k - 1]
        BY <2>2, <3>3, Zenon DEF JoinedBy, Cat
      <4>3. k # 0
        BY <3>3
      <4> HIDE DEF G
      <4> QED BY <4>1, <4>2, <4>3
    <3> QED BY <3>1, <3>2, <3>3
  <2>4. G = [k \in 0 .. n + 1 |-> IF k = 0 THEN words ELSE hops[k - 1] \o G[k - 1]]
    BY <2>3
  <2>5. JoinedIs(G, words, hops, n + 1)
    BY <2>4 DEF JoinedIs
  <2> QED BY <2>5
<1> HIDE DEF T
<1>3. \A n \in Nat : n \in T
  BY <1>1, <1>2, FromZero
<1> QED BY <1>3 DEF T

LEMMA JoinedOf ==
  ASSUME NEW words, NEW hops, NEW m \in Nat
  PROVE  \E F : JoinedBy(F, words, hops, m) /\ Joined(words, hops, m) = F[m]
<1> DEFINE F == CHOOSE F : JoinedIs(F, words, hops, m)
<1>2. JoinedIs(F, words, hops, m)
  BY JoinedExists
<1>3. Joined(words, hops, m) = F[m]
  BY DEF Joined, JoinedIs
<1> HIDE DEF F
<1>4. JoinedBy(F, words, hops, m)
  BY <1>2, JoinedAt
<1> QED BY <1>3, <1>4

\* One more hop comes in front.
LEMMA JoinedNext ==
  ASSUME NEW words, NEW hops, NEW n \in Nat
  PROVE  /\ Joined(words, hops, 0) = words
         /\ Joined(words, hops, n + 1) = Cat(hops[n], Joined(words, hops, n))
<1>1. PICK F : JoinedBy(F, words, hops, n) /\ Joined(words, hops, n) = F[n]
  BY JoinedOf
<1>2. PICK G : JoinedBy(G, words, hops, n + 1) /\ Joined(words, hops, n + 1) = G[n + 1]
  <2>1. n + 1 \in Nat
    OBVIOUS
  <2> QED BY <2>1, JoinedOf
<1>3. PICK H : JoinedBy(H, words, hops, 0) /\ Joined(words, hops, 0) = H[0]
  BY JoinedOf
<1> DEFINE T == {k \in Nat : k <= n => F[k] = G[k]}
<1>4. 0 \in T
  BY <1>1, <1>2 DEF JoinedBy
<1>5. ASSUME NEW k \in Nat, k \in T PROVE k + 1 \in T
  <2> SUFFICES ASSUME k + 1 <= n PROVE F[k + 1] = G[k + 1]
    OBVIOUS
  <2>1. k + 1 \in 1 .. n /\ k + 1 \in 1 .. n + 1 /\ k + 1 - 1 = k /\ F[k] = G[k]
    BY <1>5
  <2>2. F[k + 1] = Cat(hops[k], F[k])
    BY <1>1, <2>1 DEF JoinedBy
  <2>3. G[k + 1] = Cat(hops[k], G[k])
    BY <1>2, <2>1 DEF JoinedBy
  <2> QED BY <2>1, <2>2, <2>3
<1> HIDE DEF T
<1>6. \A k \in Nat : k \in T
  BY <1>4, <1>5, FromZero
<1>7. F[n] = G[n]
  BY <1>6 DEF T
<1>8. n + 1 \in 1 .. n + 1 /\ n + 1 - 1 = n
  OBVIOUS
<1>9. G[n + 1] = Cat(hops[n], G[n])
  BY <1>2, <1>8 DEF JoinedBy
<1> QED BY <1>1, <1>2, <1>3, <1>7, <1>9 DEF JoinedBy

-----------------------------------------------------------------------------
(* What passes.  A queue that was p is q once `out` has left its front and *)
(* `in` has come behind it.                                                *)

Passed(S, in, out, p, q) == \E R \in Seq(S) : p = Cat(out, R) /\ q = Cat(R, in)

LEMMA PassedTypes ==
  ASSUME NEW S, NEW in \in Seq(S), NEW out \in Seq(S), NEW p, NEW q, Passed(S, in, out, p, q)
  PROVE  p \in Seq(S) /\ q \in Seq(S)
BY ConcatProperties DEF Passed, Cat

LEMMA CatAssociates ==
  ASSUME NEW S, NEW a \in Seq(S), NEW b \in Seq(S), NEW c \in Seq(S)
  PROVE  Cat(a, b) \in Seq(S) /\ Cat(Cat(a, b), c) = Cat(a, Cat(b, c))
BY ConcatProperties, ConcatAssociative DEF Cat

\* Two queues of which the one feeds the other are one queue.
LEMMA PassedChain ==
  ASSUME NEW S, NEW in \in Seq(S), NEW mid \in Seq(S), NEW out \in Seq(S),
         NEW p, NEW q, NEW r, NEW t, Passed(S, mid, out, p, q), Passed(S, in, mid, r, t)
  PROVE  Passed(S, in, out, Cat(p, r), Cat(q, t))
<1>1. PICK R \in Seq(S) : p = Cat(out, R) /\ q = Cat(R, mid)
  BY DEF Passed
<1>2. PICK Q \in Seq(S) : r = Cat(mid, Q) /\ t = Cat(Q, in)
  BY DEF Passed
<1> DEFINE B == Cat(R, Cat(mid, Q))
<1>3. Cat(mid, Q) \in Seq(S) /\ Cat(Q, in) \in Seq(S) /\ B \in Seq(S)
  BY CatAssociates
<1>4. Cat(p, r) = Cat(out, B)
  BY <1>1, <1>2, <1>3, CatAssociates
<1>5. Cat(q, t) = Cat(B, in)
  <2>1. Cat(Cat(mid, Q), in) = Cat(mid, Cat(Q, in))
    BY CatAssociates
  <2>2. Cat(B, in) = Cat(R, Cat(Cat(mid, Q), in))
    BY <1>3, CatAssociates
  <2>3. Cat(Cat(R, mid), Cat(Q, in)) = Cat(R, Cat(mid, Cat(Q, in)))
    BY <1>3, CatAssociates
  <2> QED BY <1>1, <1>2, <2>1, <2>2, <2>3
<1> HIDE DEF B
<1> QED BY <1>3, <1>4, <1>5 DEF Passed

LEMMA PassedKept ==
  ASSUME NEW s, NEW d, NEW v, NEW S, NEW in \in Seq(S), NEW out \in Seq(S), NEW p, NEW q,
         Passed(S, in, out, p, q)
  PROVE  Passed(S, Between(s, d, v, in), Between(s, d, v, out), Between(s, d, v, p), Between(s, d, v, q))
<1>1. PICK R \in Seq(S) : p = Cat(out, R) /\ q = Cat(R, in)
  BY DEF Passed
<1>2. Between(s, d, v, p) = Cat(Between(s, d, v, out), Between(s, d, v, R))
  BY <1>1, KeptOfBoth
<1>3. Between(s, d, v, q) = Cat(Between(s, d, v, R), Between(s, d, v, in))
  BY <1>1, KeptOfBoth
<1>4. Between(s, d, v, R) \in Seq(S)
  BY KeptTypes
<1> QED BY <1>2, <1>3, <1>4 DEF Passed

\* One edge of a queue.
LEMMA PassedEdge ==
  ASSUME NEW S, NEW w \in Seq(S), NEW n \in {0, 1}, n = 1 => w # << >>, NEW x
  PROVE  Passed(S, Arrived(x), IF n = 1 THEN <<Head(w)>> ELSE << >>, w, Cat(Left(n, w), Arrived(x)))
<1>1. CASE n = 1
  <2>1. w = <<Head(w)>> \o Tail(w) /\ Tail(w) \in Seq(S) /\ Left(n, w) = Tail(w)
    BY <1>1, HeadThenTail DEF Left
  <2> QED BY <1>1, <2>1 DEF Passed, Cat
<1>2. CASE n = 0
  <2>1. w = Cat(<< >>, w) /\ Left(n, w) = w
    BY <1>2, ConcatEmptySeq DEF Left, Cat
  <2> QED BY <1>2, <2>1 DEF Passed
<1> QED BY <1>1, <1>2

-----------------------------------------------------------------------------
(* The hops of one lane.                                                   *)

Word == Flit \cup {NoFlit}

LEMMA FlitsAreWords ==
  ASSUME NEW S, S \subseteq Word
  PROVE  Seq(S) \subseteq Seq(Word)
<1> SUFFICES ASSUME NEW w \in Seq(S) PROVE w \in Seq(Word)
  OBVIOUS
<1>1. Len(w) \in Nat /\ w \in [1 .. Len(w) -> S]
  BY SeqDef, LenProperties
<1>2. w \in [1 .. Len(w) -> Word]
  BY <1>1
<1> QED BY <1>1, <1>2, SeqDef

\* One word is kept or not.
LEMMA KeptOne ==
  ASSUME NEW s, NEW d, NEW v, NEW x
  PROVE  Between(s, d, v, <<x>>) = IF OfLane(s, d, v, x) THEN <<x>> ELSE << >>
<1> DEFINE e == << >>
           S == {x}
<1>1. e \in Seq(S)
  BY EmptySeq
<1>2. x \in S
  OBVIOUS
<1>3. Between(s, d, v, e) = e /\ Append(e, x) = <<x>>
  BY KeptNone
<1> HIDE DEF e, S
<1>4. Between(s, d, v, Append(e, x)) = WithWord(s, d, v, Between(s, d, v, e), x)
  BY <1>1, <1>2, KeptNext
<1>5. Between(s, d, v, <<x>>) = WithWord(s, d, v, e, x)
  BY <1>3, <1>4, Zenon
<1>6. Between(s, d, v, <<x>>) = IF OfLane(s, d, v, x) THEN <<x>> ELSE e
  BY <1>3, <1>5, Zenon DEF WithWord
<1> QED BY <1>6 DEF e

\* What is kept of a register is what is kept of the flit of the channel in it.
LEMMA KeptOn ==
  ASSUME NEW s, NEW d, NEW v, NEW x
  PROVE  Between(s, d, v, On(x, v)) = Between(s, d, v, <<x>>)
<1>1. CASE Of(x, v) = NoFlit
  <2>1. On(x, v) = << >>
    BY <1>1 DEF On, Arrived
  <2>2. ~OfLane(s, d, v, x)
    BY <1>1 DEF Of, OfLane
  <2>3. Between(s, d, v, On(x, v)) = << >>
    BY <2>1, KeptNone
  <2> QED BY <2>2, <2>3, KeptOne
<1>2. CASE Of(x, v) # NoFlit
  <2>1. Of(x, v) = x
    BY <1>2 DEF Of
  <2>2. On(x, v) = <<x>>
    BY <1>2, <2>1 DEF On, Arrived
  <2> QED BY <2>2
<1> QED BY <1>1, <1>2

\* The words of a hop as Transit has them: the buffer and the registers, the oldest first.
LinkWords(w, k) == IF k = 0 THEN w ELSE Seqs!Reverse(w)
WordsOf(f, w, k) == Cat(FifoWords(f), LinkWords(w, k))

LEMMA WireWords ==
  ASSUME NEW s, NEW d, NEW v, NEW w \in Wires, Len(w) \in {1, 2}, NEW k, k = 0 => Len(w) = 1
  PROVE  /\ LinkWords(w, k) \in Seq(Word)
         /\ Between(s, d, v, LinkWords(w, k)) = Between(s, d, v, Ridden(w, v))
<1> DEFINE R == LinkWords(w, k)
           a == w[1]
           b == w[2]
<1>1. w \in Seq(Word) /\ w = [i \in 1 .. Len(w) |-> w[i]]
  BY SeqDef, LenProperties DEF Wires, Word
<1>2. CASE Len(w) = 1
  <2>1. a \in Word
    BY <1>1, <1>2, ElementOfSeq
  <2>2. R = <<a>>
    <3>1. CASE k = 0
      <4>1. w = [i \in 1 .. 1 |-> w[i]]
        BY <1>1, <1>2
      <4>2. w = <<a>>
        BY <4>1
      <4> QED BY <3>1, <4>2 DEF LinkWords
    <3>2. CASE k # 0
      <4>1. R = [i \in 1 .. 1 |-> w[(1 - i) + 1]]
        BY <1>2, <3>2 DEF Seqs!Reverse, LinkWords
      <4> QED BY <4>1
    <3> QED BY <3>1, <3>2
  <2>3. Ridden(w, v) = On(a, v)
    BY <1>2 DEF Ridden
  <2> HIDE DEF a, R
  <2> QED BY <2>1, <2>2, <2>3, KeptOn DEF R
<1>3. CASE Len(w) = 2
  <2>1. a \in Word /\ b \in Word
    BY <1>1, <1>3, ElementOfSeq
  <2>2. R = <<b, a>>
    <3>1. k # 0
      BY <1>3
    <3>2. R = [i \in 1 .. 2 |-> w[(2 - i) + 1]]
      BY <1>3, <3>1 DEF Seqs!Reverse, LinkWords
    <3> QED BY <3>2
  <2>3. Ridden(w, v) = Cat(On(b, v), On(a, v))
    BY <1>3 DEF Ridden
  <2> HIDE DEF a, b, R
  <2>4. R = Cat(<<b>>, <<a>>) /\ <<a>> \in Seq(Word) /\ <<b>> \in Seq(Word)
    <3>1. R = Cat(<<b>>, <<a>>)
      BY <2>1, <2>2, TwoOfThem DEF Cat
    <3>2. <<a>> \in Seq(Word)
      BY <2>1
    <3>3. <<b>> \in Seq(Word)
      BY <2>1
    <3> QED BY <3>1, <3>2, <3>3
  <2>8. R \in Seq(Word)
    BY <2>4, ConcatProperties DEF Cat
  <2>5. Between(s, d, v, R) = Cat(Between(s, d, v, <<b>>), Between(s, d, v, <<a>>))
    <3> DEFINE p == <<b>>
               q == <<a>>
    <3>1. p \in Seq(Word) /\ q \in Seq(Word)
      BY <2>4
    <3> HIDE DEF p, q
    <3>2. Between(s, d, v, Cat(p, q)) = Cat(Between(s, d, v, p), Between(s, d, v, q))
      BY <3>1, KeptOfBoth
    <3> QED BY <2>4, <3>2 DEF p, q
  <2>6. On(a, v) \in Seq(Word) /\ On(b, v) \in Seq(Word)
    <3>1. On(a, v) \in Seq(FlitOn(v)) /\ On(b, v) \in Seq(FlitOn(v))
      BY <2>1, OnIsSeq DEF Word
    <3>2. FlitOn(v) \subseteq Word
      BY DEF FlitOn, Word
    <3> QED BY <3>1, <3>2, FlitsAreWords
  <2>7. Between(s, d, v, Ridden(w, v)) = Cat(Between(s, d, v, On(b, v)), Between(s, d, v, On(a, v)))
    BY <2>3, <2>6, KeptOfBoth
  <2> QED BY <2>5, <2>7, <2>8, KeptOn DEF R
<1> QED BY <1>2, <1>3

LEMMA FifoWordsSeq ==
  ASSUME NEW S, NoFlit \notin S, NEW f \in Fifo(S)
  PROVE  FifoWords(f) \in Seq(S) /\ Len(f.core) \in Nat
         /\ Len(FifoWords(f)) = Len(f.core) + (IF f.out = NoFlit THEN 0 ELSE 1)
<1>1. f.core \in Seq(S) /\ f.out \in S \cup {NoFlit} /\ Len(f.core) \in Nat
  BY LenProperties DEF Fifo
<1>2. CASE f.out = NoFlit
  BY <1>1, <1>2 DEF FifoWords
<1>3. CASE f.out # NoFlit
  <2>1. <<f.out>> \in Seq(S) /\ Len(<<f.out>>) = 1
    BY <1>1, <1>3
  <2>2. <<f.out>> \o f.core \in Seq(S) /\ Len(<<f.out>> \o f.core) = Len(<<f.out>>) + Len(f.core)
    BY <1>1, <2>1, ConcatProperties
  <2> QED BY <1>1, <1>3, <2>1, <2>2 DEF FifoWords
<1> QED BY <1>2, <1>3

\* What is kept of a hop is what is kept of its queue.
LEMMA WordsKept ==
  ASSUME NEW s, NEW d, NEW v, NEW f \in Fifo(FlitOn(v)), NEW w \in Wires, Len(w) \in {1, 2},
         NEW k, k = 0 => Len(w) = 1
  PROVE  /\ WordsOf(f, w, k) \in Seq(Word)
         /\ Between(s, d, v, WordsOf(f, w, k)) = Between(s, d, v, Cat(FifoWords(f), Ridden(w, v)))
<1> DEFINE F == FifoWords(f)
           R == LinkWords(w, k)
           Q == Ridden(w, v)
<1>1. NoFlit \notin FlitOn(v) /\ FlitOn(v) \subseteq Word
  BY NoFlitIsNone DEF FlitOn, Word
<1>2. F \in Seq(Word)
  <2>1. F \in Seq(FlitOn(v))
    BY <1>1, FifoWordsSeq
  <2> QED BY <1>1, <2>1, FlitsAreWords
<1>3. R \in Seq(Word) /\ Between(s, d, v, R) = Between(s, d, v, Q)
  BY WireWords
<1>4. Q \in Seq(Word)
  <2>1. Q \in Seq(FlitOn(v))
    BY RiddenIsSeq
  <2> QED BY <1>1, <2>1, FlitsAreWords
<1>5. WordsOf(f, w, k) = Cat(F, R)
  BY DEF WordsOf
<1> HIDE DEF F, R, Q
<1>6. Cat(F, R) \in Seq(Word)
  BY <1>2, <1>3, ConcatProperties DEF Cat
<1>7. Between(s, d, v, Cat(F, R)) = Cat(Between(s, d, v, F), Between(s, d, v, R))
  BY <1>2, <1>3, KeptOfBoth
<1>8. Between(s, d, v, Cat(F, Q)) = Cat(Between(s, d, v, F), Between(s, d, v, Q))
  BY <1>2, <1>4, KeptOfBoth
<1> QED BY <1>3, <1>5, <1>6, <1>7, <1>8 DEF F, Q

-----------------------------------------------------------------------------
PathHop(s, d, v, k) == <<k, path(s, d, k), v>>

LEMMA PathHops ==
  ASSUME RadixLaw, NEW s \in Port, NEW d \in Port, NEW v \in VC, NEW k \in 0 .. Stages,
         NEW h, h = PathHop(s, d, v, k)
  PROVE  /\ h \in Hop /\ h[1] = k /\ h[2] = path(s, d, k) /\ h[3] = v /\ h[2] \in Port
         /\ \A f \in OnPath(h) : OfLane(s, d, v, f) => h[2] = path(f.src, f.dest, h[1])
         /\ \A i \in Hop : (i[1] = k /\ i[3] = v /\ i[2] = path(s, d, k)) => i = h
<1>1. path(s, d, k) \in Port
  BY PathIs
<1>2. h \in Hop /\ h[1] = k /\ h[2] = path(s, d, k) /\ h[3] = v
  BY <1>1 DEF PathHop, Hop
<1>3. ASSUME NEW i \in Hop, i[1] = k, i[3] = v, i[2] = path(s, d, k) PROVE i = h
  BY <1>3, Triples DEF PathHop
<1> QED BY <1>1, <1>2, <1>3 DEF OfLane

\* A flit of the lane is on no other hop.
LEMMA OnlyHop ==
  ASSUME RadixLaw, NEW s \in Port, NEW d \in Port, NEW v \in VC, NEW h \in Hop,
         NEW f \in OnPath(h), OfLane(s, d, v, f)
  PROVE  h = PathHop(s, d, v, h[1])
<1>1. h[1] \in 0 .. Stages /\ h[2] \in Port /\ h = <<h[1], h[2], h[3]>>
  BY Triples
<1>2. h[3] = v /\ Mixed(h[2], s, d, Above(h[1]))
  BY OnPathFlits DEF OnPath, OfLane
<1>3. h[2] = path(s, d, h[1])
  BY <1>1, <1>2, PathIs
<1> QED BY <1>1, <1>2, <1>3 DEF PathHop

\* A hop of the path, as Transit has it.
LEMMA HopIs ==
  ASSUME RadixLaw, NEW s \in Port, NEW d \in Port, NEW v \in VC, NEW k \in 0 .. Stages,
         NEW h, h = PathHop(s, d, v, k)
  PROVE  /\ hop(s, d, v, k) = WordsOf(FifoOf(h), Wire(h), k)
         /\ hop(s, d, v, k)' = WordsOf(FifoOf(h)', Wire(h)', k)
<1>1. h[1] = k /\ h[2] = path(s, d, k) /\ h[3] = v /\ h = <<k, path(s, d, k), v>>
  BY PathHops DEF PathHop
<1>2. (k = 0 => path(s, d, k) = s) /\ (k = Stages => path(s, d, k) = d)
  BY PathIs
<1>3. hop(s, d, v, k) = WordsOf(FifoOf(h), Wire(h), k)
  BY <1>1, <1>2 DEF hop, WordsOf, LinkWords, FifoOf, Wire, Cat
<1>4. hop(s, d, v, k)' = WordsOf(FifoOf(h)', Wire(h)', k)
  BY <1>1, <1>2 DEF hop, WordsOf, LinkWords, FifoOf, Wire, Cat
<1> QED BY <1>3, <1>4

\* What is taken from a hop at an edge.
Front(h, en) == IF Taking(h, en) THEN <<FifoOf(h).out>> ELSE << >>

LEMMA LaneHop ==
  ASSUME RadixLaw, HopInv, NEW offer, NEW en, NEW kill, Edge(offer, en, kill),
         NEW s \in Port, NEW d \in Port, NEW v \in VC, NEW k \in 0 .. Stages,
         NEW h, h = PathHop(s, d, v, k)
  PROVE  /\ hop(s, d, v, k) \in Seq(Word) /\ hop(s, d, v, k)' \in Seq(Word)
         /\ Len(Between(s, d, v, hop(s, d, v, k))) <= VcDepth
         /\ Between(s, d, v, Arrived(Sent(h))) \in Seq(Word)
         /\ Between(s, d, v, Front(h, en)) \in Seq(Word)
         /\ Passed(Word, Between(s, d, v, Arrived(Sent(h))), Between(s, d, v, Front(h, en)),
                   Between(s, d, v, hop(s, d, v, k)), Between(s, d, v, hop(s, d, v, k)'))
<1> DEFINE K(w) == Between(s, d, v, w)
           a == hop(s, d, v, k)
           b == hop(s, d, v, k)'
           S == FlitOn(v)
<1>1. h \in Hop /\ h[1] = k /\ h[3] = v
  BY PathHops
<1>2. Regs /\ Flits /\ Conserved
  BY DEF HopInv
<1>3. Len(Wire(h)) \in {1, 2} /\ Wire(h) \in Wires /\ (k = 0 => Len(Wire(h)) = 1) /\ FifoOf(h) \in Fifo(S)
  BY <1>1, <1>2, WireEnd DEF Flits
<1>4. /\ FifoOf(h)' \in Fifo(S) /\ Wire(h)' \in Wires /\ Len(Wire(h)') = Len(Wire(h))
      /\ Queue(h) \in Seq(S)
      /\ Queue(h)' = Cat(Left(Takes(h, en), Queue(h)), Arrived(Sent(h)))
      /\ Takes(h, en) = 1 => Queue(h) # << >> /\ Head(Queue(h)) = FifoOf(h).out
  BY <1>1, HopStep
<1>5. a = WordsOf(FifoOf(h), Wire(h), k) /\ b = WordsOf(FifoOf(h)', Wire(h)', k)
  BY HopIs
<1>6. a \in Seq(Word) /\ K(a) = K(Queue(h))
  <2>1. Queue(h) = Cat(FifoWords(FifoOf(h)), Ridden(Wire(h), v))
    BY <1>1 DEF Queue
  <2> QED BY <1>3, <1>5, <2>1, WordsKept
<1>7. b \in Seq(Word) /\ K(b) = K(Queue(h)')
  <2>1. Queue(h)' = Cat(FifoWords(FifoOf(h)'), Ridden(Wire(h)', v))
    BY <1>1 DEF Queue
  <2>2. Len(Wire(h)') \in {1, 2} /\ (k = 0 => Len(Wire(h)') = 1)
    BY <1>3, <1>4
  <2> DEFINE f == FifoOf(h)'
             w == Wire(h)'
  <2>3. f \in Fifo(S) /\ w \in Wires /\ Len(w) \in {1, 2} /\ (k = 0 => Len(w) = 1)
    BY <1>4, <2>2
  <2> HIDE DEF f, w
  <2>4. WordsOf(f, w, k) \in Seq(Word) /\ K(WordsOf(f, w, k)) = K(Cat(FifoWords(f), Ridden(w, v)))
    BY <2>3, WordsKept
  <2> QED BY <1>5, <2>1, <2>4 DEF f, w
<1>8. Queue(h) \in Seq(Word) /\ Len(Queue(h)) <= VcDepth
  <2>1. S \subseteq Word
    BY DEF FlitOn, Word
  <2>2. Queue(h) \in Seq(Word) /\ Len(Queue(h)) \in Nat
    BY <1>4, <2>1, FlitsAreWords, LenProperties
  <2>3. Credit(h) \in Nat /\ Held(h) \in Nat
    BY <1>1, <1>2, Counts
  <2>4. Credit(h) + Len(Queue(h)) + Held(h) = VcDepth
    BY <1>1, <1>2 DEF Conserved
  <2> QED BY <2>2, <2>3, <2>4, DepthsAssumption
<1>9. Len(K(a)) <= VcDepth
  <2>1. K(Queue(h)) \in Seq(Word) /\ Len(K(Queue(h))) <= Len(Queue(h))
    BY <1>8, KeptTypes
  <2>2. Len(K(Queue(h))) \in Nat /\ Len(Queue(h)) \in Nat
    BY <1>8, <2>1, LenProperties
  <2> QED BY <1>6, <1>8, <2>1, <2>2, DepthsAssumption
<1>10. Sent(h) \in Word /\ Arrived(Sent(h)) \in Seq(Word)
  <2>1. Sent(h) \in FlitOn(h[3]) \cup {NoFlit}
    BY <1>1, <1>2, TakeFacts
  <2>2. Sent(h) \in Word
    BY <2>1 DEF FlitOn, Word
  <2> QED BY <2>2, EmptySeq DEF Arrived
<1>11. Front(h, en) \in Seq(Word) /\ Front(h, en) = IF Takes(h, en) = 1 THEN <<Head(Queue(h))>> ELSE << >>
  <2>1. CASE Taking(h, en)
    <3>1. Takes(h, en) = 1 /\ Front(h, en) = <<FifoOf(h).out>> /\ Head(Queue(h)) = FifoOf(h).out
      BY <1>4, <2>1 DEF Takes, Front
    <3>2. FifoOf(h).out \in Word
      BY <1>1, <1>2, <2>1, TakeFacts DEF FlitOn, Word
    <3> QED BY <3>1, <3>2
  <2>2. CASE ~Taking(h, en)
    BY <2>2, EmptySeq DEF Takes, Front
  <2> QED BY <2>1, <2>2
<1>12. Passed(Word, Arrived(Sent(h)), Front(h, en), Queue(h), Queue(h)')
  <2> DEFINE w == Queue(h)
             n == Takes(h, en)
             x == Sent(h)
  <2>1. w \in Seq(Word) /\ n \in {0, 1} /\ (n = 1 => w # << >>)
    BY <1>4, <1>8 DEF Takes
  <2> HIDE DEF w, n, x
  <2>2. Passed(Word, Arrived(x), IF n = 1 THEN <<Head(w)>> ELSE << >>, w, Cat(Left(n, w), Arrived(x)))
    BY <2>1, PassedEdge
  <2> QED BY <1>4, <1>11, <2>2 DEF w, n, x
<1>13. Passed(Word, K(Arrived(Sent(h))), K(Front(h, en)), K(Queue(h)), K(Queue(h)'))
  BY <1>10, <1>11, <1>12, PassedKept
<1>14. K(Arrived(Sent(h))) \in Seq(Word) /\ K(Front(h, en)) \in Seq(Word)
  BY <1>10, <1>11, KeptTypes
<1> HIDE DEF a, b, K
<1> QED BY <1>6, <1>7, <1>9, <1>13, <1>14 DEF a, b, K

-----------------------------------------------------------------------------
\* A flit of the lane enters a hop of its path in the cycle in which it leaves the hop before,
\* and there is no other way in and no other way out.
LEMMA LaneLink ==
  ASSUME RadixLaw, Regs, Flits, Sourced, NEW g \in Ghost, Whole(g), Straight(g), NEW en,
         NEW s \in Port, NEW d \in Port, NEW v \in VC, NEW k \in Stage,
         NEW h, h = PathHop(s, d, v, k), NEW j, j = PathHop(s, d, v, k + 1)
  PROVE  Between(s, d, v, Front(h, en)) = Between(s, d, v, Arrived(Sent(j)))
<1> DEFINE In  == Sending(j) /\ OfLane(s, d, v, Offered(j))
           Out == Taking(h, en) /\ OfLane(s, d, v, FifoOf(h).out)
<1>1. k \in 0 .. Stages /\ k + 1 \in 0 .. Stages /\ k # Stages /\ k + 1 # 0 /\ k + 1 - 1 = k
  BY FabricAssumption DEF Stage
<1>2. h \in Hop /\ j \in Hop /\ h[1] = k /\ h[3] = v /\ j[1] = k + 1 /\ j[3] = v
  BY <1>1, PathHops
<1>3. (Taking(h, en) <=> h \in Pops(Sends)) /\ FifoOf(h) = sw_fifo[h]
  BY <1>1, <1>2 DEF Taking, FifoOf
<1>4. (Sending(j) <=> Behind(j) \in Sends) /\ Offered(j) = head(Source(Behind(j)))
  BY <1>1, <1>2 DEF Sending, Offered
<1>5. \A c \in Sends : /\ c \in Buffer /\ Source(c) \in Buffer /\ Source(c) \in Hop
                       /\ Source(c)[1] = c[1] /\ Source(c)[3] = c[3]
                       /\ FifoOf(Source(c)) = sw_fifo[Source(c)] /\ head(Source(c)) # NoFlit
  <2> SUFFICES ASSUME NEW c \in Sends
               PROVE  /\ c \in Buffer /\ Source(c) \in Buffer /\ Source(c) \in Hop
                      /\ Source(c)[1] = c[1] /\ Source(c)[3] = c[3]
                      /\ FifoOf(Source(c)) = sw_fifo[Source(c)] /\ head(Source(c)) # NoFlit
    OBVIOUS
  <2>1. /\ c \in Buffer /\ Source(c) \in Buffer /\ sw_lock[c] \in Local
        /\ Source(c) = <<c[1], Global_of(c[1], c[2], sw_lock[c]), c[3]>>
        /\ head(Source(c)) \in FlitOn(c[3])
    BY SendFacts
  <2>2. sw_lock[c] # Free /\ head(Source(c)) # NoFlit
    BY <2>1, NoFlitIsNone, FabricAssumption DEF Local, Free, FlitOn
  <2> QED BY <2>1, <2>2, OwnerFacts
<1>6. In => Out /\ FifoOf(h).out = Offered(j)
  <2> SUFFICES ASSUME In PROVE Out /\ FifoOf(h).out = Offered(j)
    OBVIOUS
  <2> DEFINE c == Behind(j)
             b == Source(c)
  <2>1. c \in Sends /\ c[1] = k /\ c[3] = v
    BY <1>1, <1>2, <1>4 DEF Behind
  <2>2. b \in Hop /\ b[1] = k /\ FifoOf(b).out = Offered(j) /\ FifoOf(b).out # NoFlit
    BY <1>4, <1>5, <2>1 DEF head
  <2>3. FifoOf(b).out \in OnPath(b)
    BY <2>2, FrontOnPath
  <2>4. b = h
    <3> HIDE DEF b
    <3> QED BY <2>2, <2>3, OnlyHop
  <2>5. h \in Pops(Sends)
    BY <2>1, <2>4 DEF Pops
  <2> QED BY <1>3, <2>2, <2>4, <2>5
<1>7. Out => In
  <2> SUFFICES ASSUME Out PROVE In
    OBVIOUS
  <2>1. PICK c \in Sends : h = Source(c)
    BY <1>3 DEF Pops
  <2>2. c \in Buffer /\ c[1] = k /\ c[3] = v /\ c = <<c[1], c[2], c[3]>> /\ c[2] \in Port
    BY <1>2, <1>5, <2>1, Triples
  <2>3. Beyond(c) \in Hop /\ Behind(Beyond(c)) = c /\ Beyond(c)[1] = k + 1
    BY <1>1, <2>2, Triples DEF Beyond
  <2>4. Sending(Beyond(c)) /\ Offered(Beyond(c)) = FifoOf(h).out
    BY <1>1, <1>3, <2>1, <2>3 DEF Sending, Offered, head
  <2>5. Offered(Beyond(c)) \in OnPath(Beyond(c))
    BY <2>3, <2>4, SendStraight
  <2>6. Beyond(c) = j
    BY <2>3, <2>4, <2>5, OnlyHop
  <2> QED BY <2>4, <2>6
<1>8. CASE In
  <2>1. Front(h, en) = <<Offered(j)>>
    BY <1>6, <1>8 DEF Front
  <2>2. Arrived(Sent(j)) = <<Offered(j)>>
    BY <1>8 DEF Sent, Arrived, OfLane
  <2> QED BY <2>1, <2>2
<1>9. CASE ~In
  <2>1. Between(s, d, v, Front(h, en)) = << >>
    <3>1. CASE Taking(h, en)
      <4>1. ~OfLane(s, d, v, FifoOf(h).out) /\ Front(h, en) = <<FifoOf(h).out>>
        BY <1>7, <1>9, <3>1 DEF Front
      <4> QED BY <4>1, KeptOne
    <3>2. CASE ~Taking(h, en)
      BY <3>2, KeptNone DEF Front
    <3> QED BY <3>1, <3>2
  <2>2. Between(s, d, v, Arrived(Sent(j))) = << >>
    <3>1. CASE Sending(j)
      <4>1. ~OfLane(s, d, v, Offered(j)) /\ Sent(j) = Offered(j)
        BY <1>9, <3>1 DEF Sent
      <4>2. CASE Offered(j) = NoFlit
        BY <4>1, <4>2, KeptNone DEF Arrived
      <4>3. CASE Offered(j) # NoFlit
        <5>1. Arrived(Sent(j)) = <<Offered(j)>>
          BY <4>1, <4>3 DEF Arrived
        <5> QED BY <4>1, <5>1, KeptOne
      <4> QED BY <4>2, <4>3
    <3>2. CASE ~Sending(j)
      BY <3>2, KeptNone DEF Sent, Arrived
    <3> QED BY <3>1, <3>2
  <2> QED BY <2>1, <2>2
<1> QED BY <1>8, <1>9

\* The buffer of the source.
LEMMA LaneSource ==
  ASSUME RadixLaw, Flits, NEW offer \in Presented, NEW en, NEW kill, Edge(offer, en, kill),
         NEW s \in Port, NEW d \in Port, NEW v \in VC,
         NEW h, h = PathHop(s, d, v, 0), NEW x, x = Of(New(offer, s), v)
  PROVE  /\ FifoWords(ing_fifo[s][v]) \in Seq(Word) /\ FifoWords(ing_fifo'[s][v]) \in Seq(Word)
         /\ x \in FlitOn(v) \cup {NoFlit}
         /\ x # NoFlit => Len(FifoWords(ing_fifo[s][v])) <= EndDepth
         /\ Passed(Word, Between(s, d, v, Arrived(x)), Between(s, d, v, Arrived(Sent(h))),
                   Between(s, d, v, FifoWords(ing_fifo[s][v])), Between(s, d, v, FifoWords(ing_fifo'[s][v])))
<1> DEFINE f == ing_fifo[s][v]
           n == IF v \in send_grant(s) THEN 1 ELSE 0
           S == FlitOn(v)
           w == FifoWords(f)
           u == FifoWords(ing_fifo'[s][v])
<1>1. NoFlit \notin S /\ S \subseteq Word /\ EndDepth \in Nat
  BY NoFlitIsNone, DepthsAssumption DEF FlitOn, Word
<1>2. f \in Fifo(S) /\ n \in {0, 1} /\ (n = 1 => f.out # NoFlit)
  BY GrantOne DEF Flits, send_grant, send_req
<1>3. x \in S \cup {NoFlit} /\ (x # NoFlit => Len(f.core) < EndDepth)
  <2>1. New(offer, s) \in Flit \cup {NoFlit}
        /\ (New(offer, s) # NoFlit => Len(ing_fifo[s][New(offer, s).vc].core) < EndDepth)
    BY NewTypes
  <2> QED BY <2>1, OnIsSeq DEF Of
<1>4. ing_fifo'[s][v] = FifoNext(f, x, n, EndDepth)
  BY IngressMoves
<1>5. 0 \in 0 .. Stages
  BY FabricAssumption
<1>6. Arrived(Sent(h)) = IF n = 1 THEN <<f.out>> ELSE << >>
  <2>1. h[1] = 0 /\ h[2] = s /\ h[3] = v
    <3>1. h[1] = 0 /\ h[2] = path(s, d, 0) /\ h[3] = v
      BY <1>5, PathHops
    <3> QED BY <1>5, <3>1, PathIs
  <2>2. Sent(h) = IF v \in send_grant(s) THEN f.out ELSE NoFlit
    BY <2>1 DEF Sent, Sending, Offered
  <2>3. CASE v \in send_grant(s)
    BY <1>2, <2>2, <2>3 DEF Arrived
  <2>4. CASE v \notin send_grant(s)
    BY <2>2, <2>4 DEF Arrived
  <2> QED BY <2>3, <2>4
<1> HIDE DEF f, n, S
<1>7. /\ w \in Seq(S) /\ FifoNext(f, x, n, EndDepth) \in Fifo(S)
      /\ FifoWords(FifoNext(f, x, n, EndDepth)) = Cat(Left(n, w), Arrived(x))
      /\ f.out # NoFlit => w # << >> /\ Head(w) = f.out
  BY <1>1, <1>2, <1>3, FifoStep
<1>8. w \in Seq(Word) /\ u \in Seq(Word)
  <2>1. u \in Seq(S)
    BY <1>1, <1>4, <1>7, FifoWordsSeq
  <2> QED BY <1>1, <1>7, <2>1, FlitsAreWords
<1>9. x # NoFlit => Len(w) <= EndDepth
  <2>1. Len(f.core) \in Nat /\ (Len(w) = Len(f.core) \/ Len(w) = Len(f.core) + 1)
    <3>1. Len(FifoWords(f)) = Len(f.core) + (IF f.out = NoFlit THEN 0 ELSE 1) /\ Len(f.core) \in Nat
      BY <1>1, <1>2, FifoWordsSeq
    <3>2. CASE f.out = NoFlit
      BY <3>1, <3>2
    <3>3. CASE f.out # NoFlit
      BY <3>1, <3>3
    <3> QED BY <3>2, <3>3
  <2> HIDE DEF w
  <2> QED BY <1>1, <1>3, <2>1
<1>10. u = Cat(Left(n, w), Arrived(x))
  BY <1>4, <1>7
<1> HIDE DEF w, u
<1>11. Passed(Word, Arrived(x), IF n = 1 THEN <<Head(w)>> ELSE << >>, w, Cat(Left(n, w), Arrived(x)))
  BY <1>2, <1>7, <1>8, PassedEdge
<1>12. Arrived(Sent(h)) = IF n = 1 THEN <<Head(w)>> ELSE << >>
  BY <1>2, <1>6, <1>7
<1>13. Passed(Word, Arrived(x), Arrived(Sent(h)), w, u)
  BY <1>10, <1>11, <1>12
<1>14. Arrived(x) \in Seq(Word) /\ Arrived(Sent(h)) \in Seq(Word)
  <2>1. Arrived(x) \in Seq(Word)
    BY <1>1, <1>3, EmptySeq DEF Arrived
  <2>2. n = 1 => f.out \in Word
    BY <1>1, <1>2 DEF Fifo
  <2>3. Arrived(Sent(h)) \in Seq(Word)
    <3>1. CASE n = 1
      <4>1. Arrived(Sent(h)) = <<f.out>> /\ f.out \in Word
        BY <1>6, <2>2, <3>1
      <4>2. <<f.out>> \in Seq(Word)
        BY <4>1
      <4> QED BY <4>1, <4>2
    <3>2. CASE n = 0
      <4>1. Arrived(Sent(h)) = << >>
        BY <1>6, <3>2
      <4> QED BY <4>1, EmptySeq
    <3> QED BY <1>2, <3>1, <3>2
  <2> QED BY <2>1, <2>3
<1>15. Passed(Word, Between(s, d, v, Arrived(x)), Between(s, d, v, Arrived(Sent(h))),
              Between(s, d, v, w), Between(s, d, v, u))
  BY <1>13, <1>14, PassedKept
<1> QED BY <1>3, <1>8, <1>9, <1>15 DEF w, u, f, S

-----------------------------------------------------------------------------
\* The hops of a lane are one queue: flits come in where its source frames them and leave
\* where they are taken from its egress.
LEMMA LaneChain ==
  ASSUME RadixLaw, HopInv, Sourced, NEW g \in Ghost, Whole(g), Straight(g),
         NEW offer \in Presented, NEW en, NEW kill, Edge(offer, en, kill),
         NEW s \in Port, NEW d \in Port, NEW v \in VC,
         NEW x, x = Of(New(offer, s), v), NEW e, e = PathHop(s, d, v, Stages)
  PROVE  /\ Passed(Word, Between(s, d, v, Arrived(x)), Between(s, d, v, Front(e, en)),
                   Transit(s, d, v), Transit(s, d, v)')
         /\ Transit(s, d, v) \in Seq(Word)
         /\ x # NoFlit => Len(Transit(s, d, v)) <= EndDepth + (Stages + 1) * VcDepth
<1> DEFINE K(w)    == Between(s, d, v, w)
           W       == FifoWords(ing_fifo[s][v])
           U       == FifoWords(ing_fifo'[s][v])
           H       == [k \in 0 .. Stages |-> hop(s, d, v, k)]
           G       == [k \in 0 .. Stages |-> hop(s, d, v, k)']
           J(n)    == Joined(W, H, n)
           L(n)    == Joined(U, G, n)
           Gate(n) == IF n = Stages + 1 THEN K(Front(e, en))
                      ELSE K(Arrived(Sent(PathHop(s, d, v, n))))
           I       == K(Arrived(x))
<1>1. Regs /\ Flits
  BY DEF HopInv
<1>2. Stages \in Nat /\ Stages >= 1 /\ 0 \in 0 .. Stages /\ VcDepth \in Nat
  BY FabricAssumption, DepthsAssumption
<1>3. /\ W \in Seq(Word) /\ U \in Seq(Word) /\ x \in FlitOn(v) \cup {NoFlit}
      /\ x # NoFlit => Len(W) <= EndDepth
      /\ Passed(Word, I, K(Arrived(Sent(PathHop(s, d, v, 0)))), K(W), K(U))
  BY <1>1, LaneSource
<1>4. I \in Seq(Word)
  <2>1. Arrived(x) \in Seq(Word)
    <3>1. CASE x = NoFlit
      <4>1. Arrived(x) = << >>
        BY <3>1 DEF Arrived
      <4> QED BY <4>1, EmptySeq
    <3>2. CASE x # NoFlit
      <4>1. Arrived(x) = <<x>> /\ x \in Word
        BY <1>3, <3>2 DEF Arrived, Word, FlitOn
      <4>2. <<x>> \in Seq(Word)
        BY <4>1
      <4> QED BY <4>1, <4>2
    <3> QED BY <3>1, <3>2
  <2>2. K(Arrived(x)) \in Seq(Word)
    BY <2>1, KeptTypes
  <2> QED BY <2>2
<1>5. ASSUME NEW k \in 0 .. Stages
      PROVE  /\ H[k] \in Seq(Word) /\ G[k] \in Seq(Word) /\ Len(K(H[k])) <= VcDepth
             /\ Gate(k) \in Seq(Word) /\ Gate(k + 1) \in Seq(Word)
             /\ Passed(Word, Gate(k), Gate(k + 1), K(H[k]), K(G[k]))
  <2> DEFINE h == PathHop(s, d, v, k)
             j == PathHop(s, d, v, k + 1)
  <2>1. H[k] = hop(s, d, v, k) /\ G[k] = hop(s, d, v, k)'
    OBVIOUS
  <2>2. /\ hop(s, d, v, k) \in Seq(Word) /\ hop(s, d, v, k)' \in Seq(Word)
        /\ Len(K(hop(s, d, v, k))) <= VcDepth
        /\ K(Arrived(Sent(h))) \in Seq(Word) /\ K(Front(h, en)) \in Seq(Word)
        /\ Passed(Word, K(Arrived(Sent(h))), K(Front(h, en)), K(hop(s, d, v, k)), K(hop(s, d, v, k)'))
    BY LaneHop
  <2>3. Gate(k) = K(Arrived(Sent(h)))
    BY <1>2
  <2>4. Gate(k + 1) = K(Front(h, en))
    <3>1. CASE k = Stages
      BY <3>1
    <3>2. CASE k # Stages
      <4>1. k \in Stage /\ k + 1 # Stages + 1
        BY <1>2, <3>2 DEF Stage
      <4>2. Gate(k + 1) = K(Arrived(Sent(j)))
        BY <4>1
      <4>3. K(Front(h, en)) = K(Arrived(Sent(j)))
        BY <1>1, <4>1, LaneLink
      <4> QED BY <4>2, <4>3
    <3> QED BY <3>1, <3>2
  <2> HIDE DEF K, H, G, Gate, h
  <2> QED BY <2>1, <2>2, <2>3, <2>4
<1>6. J(0) = W /\ L(0) = U /\ \A n \in Nat : J(n + 1) = Cat(H[n], J(n)) /\ L(n + 1) = Cat(G[n], L(n))
  <2>1. J(0) = W /\ L(0) = U
    BY <1>2, JoinedNext
  <2>2. ASSUME NEW n \in Nat PROVE J(n + 1) = Cat(H[n], J(n)) /\ L(n + 1) = Cat(G[n], L(n))
    <3> HIDE DEF W, U, H, G
    <3> QED BY JoinedNext
  <2> QED BY <2>1, <2>2
<1>7. Transit(s, d, v) = K(J(Stages + 1)) /\ Transit(s, d, v)' = K(L(Stages + 1))
  BY DEF Transit
<1>8. Gate(0) = K(Arrived(Sent(PathHop(s, d, v, 0)))) /\ Gate(Stages + 1) = K(Front(e, en))
  BY <1>2
<1>9. Len(W) \in Nat /\ Len(K(W)) <= Len(W) /\ Len(K(W)) \in Nat
  BY <1>3, KeptTypes, LenProperties
<1> HIDE DEF W, U, H, G, J, L, Gate, I
<1> DEFINE T == {n \in Nat : n <= Stages + 1 =>
                   /\ J(n) \in Seq(Word) /\ L(n) \in Seq(Word)
                   /\ Passed(Word, I, Gate(n), K(J(n)), K(L(n)))
                   /\ Len(K(J(n))) <= Len(W) + n * VcDepth}
<1>10. 0 \in T
  <2>1. Len(K(J(0))) <= Len(W) + 0 * VcDepth
    <3> HIDE DEF K
    <3> QED BY <1>2, <1>6, <1>9
  <2>2. J(0) \in Seq(Word) /\ L(0) \in Seq(Word) /\ Passed(Word, I, Gate(0), K(J(0)), K(L(0)))
    BY <1>3, <1>6, <1>8
  <2> QED BY <2>1, <2>2
<1>11. ASSUME NEW n \in Nat, n \in T PROVE n + 1 \in T
  <2> SUFFICES ASSUME n + 1 <= Stages + 1
               PROVE  /\ J(n + 1) \in Seq(Word) /\ L(n + 1) \in Seq(Word)
                      /\ Passed(Word, I, Gate(n + 1), K(J(n + 1)), K(L(n + 1)))
                      /\ Len(K(J(n + 1))) <= Len(W) + (n + 1) * VcDepth
    OBVIOUS
  <2>1. n \in 0 .. Stages /\ n <= Stages + 1
    BY <1>2
  <2>2. /\ J(n) \in Seq(Word) /\ L(n) \in Seq(Word)
        /\ Passed(Word, I, Gate(n), K(J(n)), K(L(n)))
        /\ Len(K(J(n))) <= Len(W) + n * VcDepth
    BY <1>11, <2>1
  <2>3. /\ H[n] \in Seq(Word) /\ G[n] \in Seq(Word) /\ Len(K(H[n])) <= VcDepth
        /\ Gate(n) \in Seq(Word) /\ Gate(n + 1) \in Seq(Word)
        /\ Passed(Word, Gate(n), Gate(n + 1), K(H[n]), K(G[n]))
    BY <1>5, <2>1
  <2>4. J(n + 1) = Cat(H[n], J(n)) /\ L(n + 1) = Cat(G[n], L(n))
    BY <1>6
  <2>5. K(Cat(H[n], J(n))) = Cat(K(H[n]), K(J(n)))
    BY <2>2, <2>3, KeptOfBoth
  <2>6. K(Cat(G[n], L(n))) = Cat(K(G[n]), K(L(n)))
    BY <2>2, <2>3, KeptOfBoth
  <2>7. Passed(Word, I, Gate(n + 1), K(J(n + 1)), K(L(n + 1)))
    <3>1. Passed(Word, I, Gate(n + 1), Cat(K(H[n]), K(J(n))), Cat(K(G[n]), K(L(n))))
      BY <1>4, <2>2, <2>3, PassedChain
    <3> QED BY <2>4, <2>5, <2>6, <3>1
  <2>8. Len(K(J(n + 1))) <= Len(W) + (n + 1) * VcDepth
    <3>1. K(H[n]) \in Seq(Word) /\ K(J(n)) \in Seq(Word)
      BY <2>2, <2>3, KeptTypes
    <3> DEFINE a == K(H[n])
               b == K(J(n))
    <3>5. K(J(n + 1)) = Cat(a, b)
      BY <2>4, <2>5
    <3>6. a \in Seq(Word) /\ b \in Seq(Word)
      BY <3>1
    <3> HIDE DEF a, b
    <3>7. Len(Cat(a, b)) = Len(a) + Len(b)
      BY <3>6, ConcatProperties DEF Cat
    <3>2. Len(K(J(n + 1))) = Len(K(H[n])) + Len(K(J(n)))
      BY <3>5, <3>7 DEF a, b
    <3> HIDE DEF K
    <3>3. Len(K(H[n])) \in Nat /\ Len(K(J(n))) \in Nat
      BY <3>1, LenProperties
    <3>4. (n + 1) * VcDepth = n * VcDepth + VcDepth /\ n * VcDepth \in Nat
      BY <1>2
    <3> QED BY <1>2, <1>9, <2>2, <2>3, <3>2, <3>3, <3>4
  <2>9. J(n + 1) \in Seq(Word) /\ L(n + 1) \in Seq(Word)
    <3> DEFINE a == H[n]
               b == J(n)
               c == G[n]
               f == L(n)
    <3>1. a \in Seq(Word) /\ b \in Seq(Word) /\ c \in Seq(Word) /\ f \in Seq(Word)
      BY <2>2, <2>3
    <3> HIDE DEF a, b, c, f
    <3>2. Cat(a, b) \in Seq(Word) /\ Cat(c, f) \in Seq(Word)
      BY <3>1, ConcatProperties DEF Cat
    <3> QED BY <2>4, <3>2 DEF a, b, c, f
  <2> QED BY <2>7, <2>8, <2>9
<1> HIDE DEF T
<1>12. \A n \in Nat : n \in T
  BY <1>10, <1>11, FromZero
<1>13. /\ J(Stages + 1) \in Seq(Word)
       /\ Passed(Word, I, Gate(Stages + 1), K(J(Stages + 1)), K(L(Stages + 1)))
       /\ Len(K(J(Stages + 1))) <= Len(W) + (Stages + 1) * VcDepth
  <2>1. Stages + 1 \in Nat /\ Stages + 1 <= Stages + 1
    BY <1>2
  <2> QED BY <1>12, <2>1 DEF T
<1>14. K(J(Stages + 1)) \in Seq(Word)
  BY <1>13, KeptTypes
<1>15. x # NoFlit => Len(K(J(Stages + 1))) <= EndDepth + (Stages + 1) * VcDepth
  <2>1. (Stages + 1) * VcDepth \in Nat /\ EndDepth \in Nat
    BY <1>2, DepthsAssumption
  <2>2. Len(K(J(Stages + 1))) \in Nat
    BY <1>14, LenProperties
  <2> HIDE DEF K
  <2> QED BY <1>3, <1>9, <1>13, <2>1, <2>2
<1> QED BY <1>7, <1>8, <1>13, <1>14, <1>15 DEF I

-----------------------------------------------------------------------------
\* What a source frames for a lane is of that lane's data.
LEMMA OfTheLane ==
  ASSUME Flits, Sourced, NEW offer \in Presented, NEW s \in Port, NEW d \in Port, NEW v \in VC,
         NEW x, x = Of(New(offer, s), v), OfLane(s, d, v, x)
  PROVE  x \in FlitOf(s, d, v)
<1>1. x = New(offer, s) /\ x # NoFlit
  BY DEF Of, OfLane
<1>2. x \in Sendable(s) /\ x \in Flit
  BY <1>1, NewTypes, OfferSendable DEF Sendable
<1>3. PICK t \in Traffic : t.src = s /\ t.dest = x.dest /\ t.vc = x.vc /\ t.len = x.len
  BY <1>2 DEF Sendable
<1>4. t.len <= MaxLen /\ t.len \in Nat /\ MaxLen \in Nat /\ x.seq \in 0 .. SeqMod - 1
  BY <1>2, TrafficAssumption DEF Sendable
<1>5. x.src = s /\ x.dest = d /\ x.vc = v
  BY DEF OfLane
<1>6. x.idx \in 1 .. MaxLen
  BY <1>2, <1>3, <1>4 DEF Flit
<1>7. x = [src |-> s, dest |-> d, vc |-> v, len |-> t.len, seq |-> x.seq, idx |-> x.idx]
  BY <1>2, <1>3, <1>5 DEF Flit
<1>8. t \in {u \in Traffic : u.src = s /\ u.dest = d /\ u.vc = v}
  BY <1>3, <1>5
<1> QED BY <1>4, <1>6, <1>7, <1>8 DEF FlitOf

\* One word before a sequence is its head.
LEMMA FrontIsHead ==
  ASSUME NEW S, NEW R \in Seq(S), NEW y \in S, NEW p, p = Cat(<<y>>, R)
  PROVE  p # << >> /\ Head(p) = y /\ Tail(p) = R
<1> DEFINE a == <<y>>
<1>1. a \in Seq(S) /\ Len(a) = 1 /\ a[1] = y
  OBVIOUS
<1> HIDE DEF a
<1>2. a # << >> /\ Head(a) = y /\ Tail(a) = << >>
  BY DEF a
<1>3. Cat(a, R) # << >> /\ Head(Cat(a, R)) = Head(a) /\ Tail(Cat(a, R)) = Cat(Tail(a), R)
  BY <1>1, <1>2, TailOfConcat DEF Cat
<1>4. Cat(<< >>, R) = R
  BY ConcatEmptySeq DEF Cat
<1> QED BY <1>2, <1>3, <1>4 DEF a

\* One edge of a lane: a flit comes in or none, and a flit leaves from the output register of
\* its egress or none.
LEMMA LaneStep ==
  ASSUME RadixLaw, HopInv, Sourced, NEW g \in Ghost, Whole(g), Straight(g),
         NEW offer \in Presented, NEW en, NEW kill, Edge(offer, en, kill),
         NEW s \in Port, NEW d \in Port, NEW v \in VC
  PROVE  \/ UNCHANGED Transit(s, d, v)
         \/ Lane(s, d, v)!Put
         \/ AtExit(s, d, v) /\ (Lane(s, d, v)!Get \/ Lane(s, d, v)!PutGet)
<1> DEFINE x   == Of(New(offer, s), v)
           e   == PathHop(s, d, v, Stages)
           y   == egr_fifo[d][v].out
           P   == Transit(s, d, v)
           Q   == Transit(s, d, v)'
           in  == Between(s, d, v, Arrived(x))
           out == Between(s, d, v, Front(e, en))
           cap == EndDepth + 1 + (Stages + 1) * VcDepth
<1>1. Passed(Word, in, out, P, Q) /\ P \in Seq(Word)
      /\ (x # NoFlit => Len(P) <= EndDepth + (Stages + 1) * VcDepth)
  BY LaneChain
<1>2. in = << >> \/ (in = <<x>> /\ OfLane(s, d, v, x) /\ x # NoFlit)
  <2>1. CASE x = NoFlit
    <3>1. Arrived(x) = << >>
      BY <2>1 DEF Arrived
    <3> QED BY <3>1, KeptNone
  <2>2. CASE x # NoFlit
    <3>1. Arrived(x) = <<x>>
      BY <2>2 DEF Arrived
    <3>2. in = IF OfLane(s, d, v, x) THEN <<x>> ELSE << >>
      BY <3>1, KeptOne
    <3> HIDE DEF in, x
    <3> QED BY <2>2, <3>2
  <2> QED BY <2>1, <2>2
<1>3. out = << >> \/ (out = <<y>> /\ y \in Word)
  <2>1. Stages \in 0 .. Stages /\ Stages \in Nat
    BY FabricAssumption
  <2>2. e \in Hop /\ e[1] = Stages /\ e[2] = d /\ e[3] = v
    BY <2>1, PathHops, PathIs
  <2>3. FifoOf(e) = egr_fifo[d][v]
    BY <2>2 DEF FifoOf
  <2>4. CASE Taking(e, en)
    <3>1. Front(e, en) = <<y>>
      BY <2>3, <2>4 DEF Front
    <3>2. y \in Word
      <4>1. FifoOf(e).out \in FlitOn(e[3])
        BY <2>2, <2>4, TakeFacts DEF HopInv
      <4> QED BY <2>3, <4>1 DEF FlitOn, Word
    <3>3. out = IF OfLane(s, d, v, y) THEN <<y>> ELSE << >>
      BY <3>1, KeptOne
    <3> HIDE DEF out, y
    <3> QED BY <3>2, <3>3
  <2>5. CASE ~Taking(e, en)
    <3>1. Front(e, en) = << >>
      BY <2>5 DEF Front
    <3> QED BY <3>1, KeptNone
  <2> QED BY <2>4, <2>5
<1>4. PICK R \in Seq(Word) : P = Cat(out, R) /\ Q = Cat(R, in)
  BY <1>1 DEF Passed
<1>5. x # NoFlit => Len(P) < cap
  <2>1. Len(P) \in Nat
    BY <1>1, LenProperties
  <2>2. EndDepth \in Nat /\ (Stages + 1) * VcDepth \in Nat
    BY DepthsAssumption, FabricAssumption
  <2> HIDE DEF P, x
  <2> QED BY <1>1, <2>1, <2>2
<1>6. OfLane(s, d, v, x) => x \in FlitOf(s, d, v)
  BY OfTheLane DEF HopInv
<1>7. ASSUME in = <<x>>, x # NoFlit, OfLane(s, d, v, x)
      PROVE  Q = Append(R, x)
  <2>1. x \in Word
    <3>1. New(offer, s) \in Flit \cup {NoFlit}
      BY NewTypes DEF HopInv
    <3> QED BY <3>1 DEF Of, Word
  <2>2. R \o <<x>> = Append(R, x)
    <3> HIDE DEF x
    <3> QED BY <2>1, AppendIsConcat
  <2> QED BY <1>4, <1>7, <2>2 DEF Cat
<1>8. in = << >> => Q = R
  BY <1>4, ConcatEmptySeq DEF Cat
<1>9. out = << >> => P = R
  BY <1>4, ConcatEmptySeq DEF Cat
<1>10. out = <<y>> /\ y \in Word => P # << >> /\ Head(P) = y /\ Tail(P) = R
  BY <1>4, FrontIsHead
<1>11. P # << >> /\ Head(P) = y => AtExit(s, d, v)
  BY DEF AtExit
<1>12. ASSUME Len(P) < cap, x \in FlitOf(s, d, v), Q = Append(P, x) PROVE Lane(s, d, v)!Put
  BY <1>12 DEF Lane!Put
<1>13. ASSUME P # << >>, Q = Tail(P) PROVE Lane(s, d, v)!Get
  BY <1>13 DEF Lane!Get
<1>14. ASSUME P # << >>, Len(P) < cap, x \in FlitOf(s, d, v), Q = Append(Tail(P), x)
       PROVE  Lane(s, d, v)!PutGet
  BY <1>14 DEF Lane!PutGet
<1>15. Q = P => UNCHANGED Transit(s, d, v)
  OBVIOUS
<1>16. CASE out = << >>
  <2>1. CASE in = << >>
    BY <1>8, <1>9, <1>15, <1>16, <2>1, Zenon
  <2>2. CASE in = <<x>> /\ OfLane(s, d, v, x) /\ x # NoFlit
    <3>1. Q = Append(P, x) /\ Len(P) < cap /\ x \in FlitOf(s, d, v)
      BY <1>5, <1>6, <1>7, <1>9, <1>16, <2>2, Zenon
    <3> QED BY <1>12, <3>1, Zenon
  <2> QED BY <1>2, <2>1, <2>2
<1>17. CASE out = <<y>> /\ y \in Word
  <2>1. CASE in = << >>
    BY <1>8, <1>10, <1>11, <1>13, <1>17, <2>1, Zenon
  <2>2. CASE in = <<x>> /\ OfLane(s, d, v, x) /\ x # NoFlit
    <3>1. Q = Append(R, x) /\ Len(P) < cap /\ x \in FlitOf(s, d, v)
      BY <1>5, <1>6, <1>7, <2>2, Zenon
    <3>2. P # << >> /\ Tail(P) = R /\ AtExit(s, d, v)
      BY <1>10, <1>11, <1>17, Zenon
    <3> QED BY <1>14, <3>1, <3>2, Zenon
  <2> QED BY <1>2, <2>1, <2>2
<1> QED BY <1>3, <1>16, <1>17

-----------------------------------------------------------------------------
(* The lanes are queues.                                                   *)

\* What PacketInv says, and that every flit is on the path from its source.
OrderInv == HopInv /\ Sourced /\ \E g \in Ghost : Whole(g) /\ Straight(g)

LEMMA OrderInit == RadixLaw /\ Init => OrderInv
<1> SUFFICES ASSUME RadixLaw, Init PROVE OrderInv
  OBVIOUS
<1>1. HopInv
  BY HopInit
<1> DEFINE g == [h \in Hop |-> NoFlit]
<1>2. g \in Ghost /\ \A h \in Hop : g[h] = NoFlit
  BY DEF Ghost
<1> HIDE DEF g
<1>3. Whole(g)
  BY <1>2, WholeInit
<1>4. Straight(g)
  <2>1. \A h \in Hop : Queue(h) = << >>
    BY EmptyQueues
  <2> QED BY <1>2, <2>1, EmptySeq DEF Straight
<1>5. Sourced
  <2>1. \A p \in Port, v \in VC : ing_open[p] = NoFlit /\ ing_seq[p][v] = 0 /\ ing_fifo[p][v] = EmptyFifo
    BY DEF Init, IngressInit
  <2>2. \A p \in Port : ing_open[p] = NoFlit
    BY DEF Init, IngressInit
  <2>3. 0 \in 0 .. SeqMod - 1
    BY TrafficAssumption
  <2>4. \A S : EmptyFifo \in Fifo(S)
    BY EmptySeq DEF EmptyFifo, Fifo
  <2> QED BY <2>1, <2>2, <2>3, <2>4 DEF Sourced
<1> QED BY <1>1, <1>2, <1>3, <1>4, <1>5 DEF OrderInv

LEMMA OrderNext == RadixLaw /\ OrderInv /\ [Next]_vars => OrderInv'
<1> SUFFICES ASSUME RadixLaw, OrderInv, [Next]_vars PROVE OrderInv'
  OBVIOUS
<1>1. HopInv /\ Regs /\ Flits /\ Sourced
  BY DEF OrderInv, HopInv
<1>2. HopInv'
  BY <1>1, HopNext
<1>3. PICK g \in Ghost : Whole(g) /\ Straight(g)
  BY DEF OrderInv
<1>4. CASE Next
  <2>1. PICK offer \in Presented, en \in Taken, kill \in SUBSET Withheld : Edge(offer, en, kill)
    BY <1>4 DEF Next
  <2>2. PICK k \in Ghost : Passes(g, k, en)
    BY <1>1, GhostStep
  <2>3. Whole(k)' /\ Straight(k)'
    BY <1>1, <1>3, <2>1, <2>2, WholeStep, StraightStep
  <2>4. Sourced'
    BY <1>1, <2>1, SourcedStep
  <2> QED BY <1>2, <2>2, <2>3, <2>4 DEF OrderInv, Ghost
<1>5. CASE UNCHANGED vars
  <2>1. Whole(g)'
    BY <1>3, <1>5, WholeStays
  <2>2. Straight(g)'
    <3>1. \A h : Queue(h)' = Queue(h)
      BY <1>5 DEF Queue, FifoOf, Wire, vars, ingVars, swVars, egrVars
    <3> QED BY <1>3, <3>1 DEF Straight, OnPath, Above, Mixed
  <2>3. Sourced'
    BY <1>1, <1>5 DEF Sourced, Sendable, Home, vars, ingVars
  <2> QED BY <1>2, <1>3, <2>1, <2>2, <2>3 DEF OrderInv, Ghost
<1> QED BY <1>4, <1>5

\* At first a lane is empty.
LEMMA LaneInit ==
  ASSUME RadixLaw, Init, NEW s \in Port, NEW d \in Port, NEW v \in VC
  PROVE  Transit(s, d, v) = << >>
<1> DEFINE K(w) == Between(s, d, v, w)
           W    == FifoWords(ing_fifo[s][v])
           H    == [k \in 0 .. Stages |-> hop(s, d, v, k)]
           J(n) == Joined(W, H, n)
           e    == << >>
<1>1. Stages \in Nat
  BY FabricAssumption
<1>2. e \in Seq(Word) /\ K(e) = e /\ Cat(e, e) = e
  <2>1. e \in Seq(Word) /\ K(e) = e
    BY EmptySeq, KeptNone
  <2> QED BY <2>1 DEF Cat
<1>3. W = e
  <2>1. ing_fifo[s][v] = EmptyFifo
    BY DEF Init, IngressInit
  <2> QED BY <2>1 DEF FifoWords, EmptyFifo
<1>4. ASSUME NEW k \in 0 .. Stages PROVE H[k] \in Seq(Word) /\ K(H[k]) = e
  <2> DEFINE h == PathHop(s, d, v, k)
  <2>1. h \in Hop /\ h[1] = k /\ h[3] = v
    BY PathHops
  <2>2. H[k] = WordsOf(FifoOf(h), Wire(h), k)
    BY HopIs
  <2>3. /\ FifoOf(h) \in Fifo(FlitOn(v)) /\ Wire(h) \in Wires /\ Len(Wire(h)) \in {1, 2}
        /\ k = 0 => Len(Wire(h)) = 1
    <3>1. HopInv
      BY HopInit
    <3> QED BY <2>1, <3>1, WireEnd DEF HopInv, Flits
  <2>4. Cat(FifoWords(FifoOf(h)), Ridden(Wire(h), v)) = e
    <3>1. Queue(h) = << >>
      BY <2>1, EmptyQueues
    <3> QED BY <2>1, <3>1 DEF Queue
  <2> DEFINE f == FifoOf(h)
             w == Wire(h)
             q == Cat(FifoWords(f), Ridden(w, v))
  <2> HIDE DEF f, w, h
  <2>5. WordsOf(f, w, k) \in Seq(Word) /\ K(WordsOf(f, w, k)) = K(q)
    BY <2>3, WordsKept DEF f, w
  <2>6. H[k] = WordsOf(f, w, k) /\ q = e
    BY <2>2, <2>4 DEF f, w
  <2> QED BY <1>2, <2>5, <2>6
<1>5. J(0) = W /\ \A n \in Nat : J(n + 1) = Cat(H[n], J(n))
  <2> HIDE DEF W, H
  <2>1. 0 \in Nat
    OBVIOUS
  <2> QED BY <2>1, JoinedNext
<1>6. Transit(s, d, v) = K(J(Stages + 1))
  BY DEF Transit
<1> HIDE DEF W, H, J
<1> DEFINE T == {n \in Nat : n <= Stages + 1 => J(n) \in Seq(Word) /\ K(J(n)) = e}
<1>7. 0 \in T
  BY <1>2, <1>3, <1>5
<1>8. ASSUME NEW n \in Nat, n \in T PROVE n + 1 \in T
  <2> SUFFICES ASSUME n + 1 <= Stages + 1 PROVE J(n + 1) \in Seq(Word) /\ K(J(n + 1)) = e
    OBVIOUS
  <2> DEFINE a == H[n]
             b == J(n)
  <2>1. n \in 0 .. Stages /\ b \in Seq(Word) /\ K(b) = e
    BY <1>1, <1>8
  <2>2. a \in Seq(Word) /\ K(a) = e
    BY <1>4, <2>1
  <2> HIDE DEF a, b, e
  <2>3. Cat(a, b) \in Seq(Word) /\ K(Cat(a, b)) = Cat(K(a), K(b))
    <3>1. Between(s, d, v, Cat(a, b)) = Cat(Between(s, d, v, a), Between(s, d, v, b))
      BY <2>1, <2>2, KeptOfBoth
    <3>2. Cat(a, b) \in Seq(Word)
      BY <2>1, <2>2, ConcatProperties DEF Cat
    <3> QED BY <3>1, <3>2
  <2> QED BY <1>2, <1>5, <2>1, <2>2, <2>3 DEF a, b
<1> HIDE DEF T
<1>9. \A n \in Nat : n \in T
  BY <1>7, <1>8, FromZero
<1>10. K(J(Stages + 1)) = e
  <2>1. Stages + 1 \in Nat /\ Stages + 1 <= Stages + 1
    BY <1>1
  <2> QED BY <1>9, <2>1 DEF T
<1> QED BY <1>6, <1>10

\* Order is kept within a (source, channel, destination) triple, and nothing is lost,
\* duplicated or invented, for every geometry, every depth and every traffic: what is inside
\* the fabric of a triple is at every edge a queue that only its source puts into and only the
\* output register of its egress gets out of (IsFifoPerLane; pkt_fabric.sv section 1).
THEOREM LanesAreFifos == PowersOfRadix => (Spec => IsFifoPerLane)
<1> SUFFICES ASSUME PowersOfRadix PROVE Spec => IsFifoPerLane
  OBVIOUS
<1>0. \A t \in Traffic : t.src \in Port /\ t.dest \in Port /\ t.vc \in VC
  BY TrafficAssumption
<1>1. Init => OrderInv
  BY OrderInit, PowersMultiply
<1>2. OrderInv /\ [Next]_vars => OrderInv'
  BY OrderNext, PowersMultiply
<1>3. ASSUME Init PROVE \A t \in Traffic : Lane(t.src, t.dest, t.vc)!Init
  <2> TAKE t \in Traffic
  <2>1. Transit(t.src, t.dest, t.vc) = << >>
    BY <1>0, <1>3, LaneInit, PowersMultiply
  <2> QED BY <2>1 DEF Lane!Init
<1>4. ASSUME OrderInv, [Next]_vars
      PROVE  [\A t \in Traffic :
                \/ UNCHANGED Transit(t.src, t.dest, t.vc)
                \/ Lane(t.src, t.dest, t.vc)!Put
                \/ /\ AtExit(t.src, t.dest, t.vc)
                   /\ Lane(t.src, t.dest, t.vc)!Get \/ Lane(t.src, t.dest, t.vc)!PutGet]_vars
  <2>1. CASE UNCHANGED vars
    BY <2>1
  <2>2. CASE Next
    <3>1. PICK offer \in Presented, en \in Taken, kill \in SUBSET Withheld : Edge(offer, en, kill)
      BY <2>2 DEF Next
    <3>2. PICK g \in Ghost : Whole(g) /\ Straight(g)
      BY <1>4 DEF OrderInv
    <3>3. RadixLaw /\ HopInv /\ Sourced
      BY <1>4, PowersMultiply DEF OrderInv
    <3>4. ASSUME NEW t \in Traffic
          PROVE  \/ UNCHANGED Transit(t.src, t.dest, t.vc)
                 \/ Lane(t.src, t.dest, t.vc)!Put
                 \/ AtExit(t.src, t.dest, t.vc)
                    /\ (Lane(t.src, t.dest, t.vc)!Get \/ Lane(t.src, t.dest, t.vc)!PutGet)
      <4> DEFINE s == t.src
                 d == t.dest
                 v == t.vc
      <4>1. s \in Port /\ d \in Port /\ v \in VC
        BY <1>0
      <4> HIDE DEF s, d, v
      <4>2. \/ UNCHANGED Transit(s, d, v)
            \/ Lane(s, d, v)!Put
            \/ AtExit(s, d, v) /\ (Lane(s, d, v)!Get \/ Lane(s, d, v)!PutGet)
        BY <3>1, <3>2, <3>3, <4>1, LaneStep
      <4> QED BY <4>2 DEF s, d, v
    <3> QED BY <3>4
  <2> QED BY <1>4, <2>1, <2>2
<1> QED BY <1>1, <1>2, <1>3, <1>4, PTL DEF Spec, IsFifoPerLane

=============================================================================
