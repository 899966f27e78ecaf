--------------------------- MODULE PtpClient_proof ---------------------------
(***************************************************************************)
(* The safety properties of the client proved: for any clocks, offsets and *)
(* units, any number of synchronisations and any network that does not     *)
(* duplicate datagrams.                                                    *)
(***************************************************************************)
EXTENDS PtpClient, TLAPS

-----------------------------------------------------------------------------
(* Sequences. *)

\* What RemoveAt leaves, and where.
LEMMA Removed ==
  ASSUME NEW S, NEW s \in Seq(S), NEW i \in 1..Len(s)
  PROVE  /\ RemoveAt(s, i) \in Seq(S)
         /\ Len(RemoveAt(s, i)) = Len(s) - 1
         /\ \A j \in 1..(Len(s) - 1) :
              RemoveAt(s, i)[j] = IF j < i THEN s[j] ELSE s[j + 1]
<1> DEFINE a == SubSeq(s, 1, i - 1)
           b == SubSeq(s, i + 1, Len(s))
<1>1. /\ a \in Seq(S) /\ Len(a) = i - 1
      /\ \A j \in 1..(i - 1) : a[j] = s[j]
  OBVIOUS
<1>2. /\ b \in Seq(S) /\ Len(b) = Len(s) - i
      /\ \A j \in 1..(Len(s) - i) : b[j] = s[j + i]
  OBVIOUS
<1>3. RemoveAt(s, i) = a \o b
  BY DEF RemoveAt
<1> HIDE DEF a, b
<1>4. \A j \in 1..(Len(s) - 1) : (a \o b)[j] = IF j < i THEN s[j] ELSE s[j + 1]
  <2> TAKE j \in 1..(Len(s) - 1)
  <2>1. Len(s) \in Nat /\ i \in Int /\ j \in Int
    OBVIOUS
  <2>2. CASE j < i
    <3>1. j \in 1..(i - 1) /\ j \in 1..Len(a)
      BY <2>1, <2>2, <1>1
    <3>2. (a \o b)[j] = a[j]
      BY <3>1, <1>1, <1>2
    <3> QED BY <2>2, <3>1, <3>2, <1>1
  <2>3. CASE j >= i
    <3>1. j - (i - 1) \in 1..(Len(s) - i)
      BY <2>1, <2>3
    <3>2. b[j - (i - 1)] = s[(j - (i - 1)) + i] /\ (j - (i - 1)) + i = j + 1
      BY <3>1, <2>1, <1>2
    <3>3. (a \o b)[j] = b[j - (i - 1)]
      BY <2>1, <2>3, <1>1, <1>2
    <3> QED BY <2>1, <2>3, <3>2, <3>3
  <2>4. j < i \/ j >= i
    BY <2>1
  <2> QED BY <2>2, <2>3, <2>4
<1>5. a \o b \in Seq(S) /\ Len(a \o b) = Len(s) - 1
  <2>1. a \in Seq(S) /\ b \in Seq(S)
    BY <1>1, <1>2
  <2>2. a \o b \in Seq(S) /\ Len(a \o b) = Len(a) + Len(b)
    BY <2>1
  <2>3. Len(s) \in Nat /\ i \in Int
    OBVIOUS
  <2>4. Len(a) + Len(b) = Len(s) - 1
    BY <2>3, <1>1, <1>2
  <2> QED BY <2>2, <2>4
<1> QED BY <1>3, <1>4, <1>5, Zenon

\* Removing an element leaves the others where they were, or one place before.
LEMMA RemovedOfKind ==
  ASSUME NEW s \in Seq(Reply), NEW i \in 1..Len(s), NEW kind,
         NEW j \in OfKind(RemoveAt(s, i), kind)
  PROVE  (IF j < i THEN j ELSE j + 1) \in OfKind(s, kind) \ {i}
<1>1. /\ RemoveAt(s, i) \in Seq(Reply)
      /\ Len(RemoveAt(s, i)) = Len(s) - 1
      /\ \A k \in 1..(Len(s) - 1) :
           RemoveAt(s, i)[k] = IF k < i THEN s[k] ELSE s[k + 1]
  BY Removed
<1>2. j \in 1..(Len(s) - 1) /\ RemoveAt(s, i)[j].kind = kind
  BY <1>1 DEF OfKind
<1>3. RemoveAt(s, i)[j] = IF j < i THEN s[j] ELSE s[j + 1]
  BY <1>1, <1>2
<1> QED BY <1>2, <1>3 DEF OfKind

LEMMA RemovedSet ==
  ASSUME NEW s \in Seq(Reply), NEW i \in 1..Len(s)
  PROVE  ToSet(RemoveAt(s, i)) \subseteq ToSet(s)
<1>1. /\ RemoveAt(s, i) \in Seq(Reply)
      /\ Len(RemoveAt(s, i)) = Len(s) - 1
      /\ \A k \in 1..(Len(s) - 1) :
           RemoveAt(s, i)[k] = IF k < i THEN s[k] ELSE s[k + 1]
  BY Removed
<1>2. ASSUME NEW k \in DOMAIN RemoveAt(s, i)
      PROVE  \E j \in DOMAIN s : RemoveAt(s, i)[k] = s[j]
  <2>1. k \in 1..(Len(s) - 1) /\ Len(s) \in Nat
    BY <1>1
  <2>2. k \in DOMAIN s /\ k + 1 \in DOMAIN s
    BY <2>1
  <2> QED BY <1>1, <2>1, <2>2
<1> QED BY <1>2 DEF ToSet

LEMMA AppendOfKind ==
  ASSUME NEW s \in Seq(Reply), NEW r \in Reply, NEW kind
  PROVE  OfKind(Append(s, r), kind) =
           OfKind(s, kind) \cup (IF r.kind = kind THEN {Len(s) + 1} ELSE {})
BY DEF OfKind

LEMMA TailOfKind ==
  ASSUME NEW s \in Seq(Reply), s # <<>>, NEW kind,
         NEW j \in OfKind(Tail(s), kind)
  PROVE  j + 1 \in OfKind(s, kind) \ {1} /\ j \in Nat
BY DEF OfKind

-----------------------------------------------------------------------------
(* Numbers. *)

\* What division loses is less than the divisor.
LEMMA DivisionLoss ==
  ASSUME NEW x \in Nat, NEW m \in Nat \ {0}
  PROVE  x \div m \in Nat /\ x - (x \div m) * m \in 0..(m - 1)
<1>1. x % m \in 0..(m - 1) /\ x \div m \in Nat
  OBVIOUS
<1>2. x = m * (x \div m) + (x % m)
  OBVIOUS
<1>3. (x \div m) * m = m * (x \div m)
  BY <1>1
<1> QED BY <1>1, <1>2, <1>3

LEMMA SmallRemainder ==
  ASSUME NEW m \in Nat \ {0}, NEW x \in 0..(m - 1)
  PROVE  x % m = x
OBVIOUS

\* The offset in an announce message is a number, and if it fits into the field
\* it is that of the clock less a part of a second.
LEMMA OffsetInSeconds ==
  /\ WholeSeconds \in Int /\ CurrentOffset \in Int
  /\ CurrentOffset * Second \in Int
  /\ WholeSeconds \in (-HalfRange)..(HalfRange - 1) =>
       Abs(CurrentOffset * Second - Offset) < Second
<1> USE ClientAssumption
<1>1. WholeSeconds \in Int
  <2>1. CASE Offset >= 0
    BY <2>1, DivisionLoss DEF WholeSeconds
  <2>2. CASE Offset < 0
    BY <2>2, DivisionLoss DEF WholeSeconds
  <2> QED BY <2>1, <2>2
<1>2. Abs(WholeSeconds * Second - Offset) < Second
  <2>1. CASE Offset >= 0
    <3>1. Offset - WholeSeconds * Second \in 0..(Second - 1)
      BY <2>1, DivisionLoss DEF WholeSeconds
    <3>2. WholeSeconds * Second \in Int
      BY <1>1
    <3> QED BY <3>1, <3>2 DEF Abs
  <2>2. CASE Offset < 0
    <3> DEFINE d == (-Offset) \div Second
    <3>0. -Offset \in Nat
      BY <2>2
    <3>1. d \in Nat /\ (-Offset) - d * Second \in 0..(Second - 1)
      BY <3>0, DivisionLoss
    <3>2. WholeSeconds = -d
      BY <2>2 DEF WholeSeconds
    <3> HIDE DEF d
    <3>3. (-d) * Second = -(d * Second) /\ d * Second \in Int
      BY <3>1
    <3> QED BY <3>1, <3>2, <3>3 DEF Abs
  <2> QED BY <2>1, <2>2
<1>3. CurrentOffset \in Int
  <2>1. (WholeSeconds + HalfRange) % (2 * HalfRange) \in Int
    BY <1>1
  <2> QED BY <2>1 DEF CurrentOffset
<1>4. ASSUME WholeSeconds \in (-HalfRange)..(HalfRange - 1)
      PROVE  CurrentOffset = WholeSeconds
  <2>1. WholeSeconds + HalfRange \in 0..(2 * HalfRange - 1)
    BY <1>1, <1>4
  <2>2. (WholeSeconds + HalfRange) % (2 * HalfRange) = WholeSeconds + HalfRange
    BY <2>1, SmallRemainder
  <2> QED BY <1>1, <2>2 DEF CurrentOffset
<1>5. CurrentOffset * Second \in Int
  BY <1>3
<1> QED BY <1>1, <1>2, <1>3, <1>4, <1>5

\* A float next to n is off by at most half a step, and an integer that is not
\* spaced by 1 is even.
LEMMA NearestLoss ==
  ASSUME NEW n \in 0..(2 * Abs(Skew) + MaxTime)
  PROVE  /\ Nearest(n) \in Nat
         /\ \/ Nearest(n) = n
            \/ \E w \in Nat \ {0} : /\ n >= Precision * w
                                    /\ Nearest(n) - n \in (-w)..w
                                    /\ Nearest(n) % 2 = 0
<1> USE FloatAssumption, ClientAssumption
<1> DEFINE u == CHOOSE v \in Spacings : SpacedBy(n, v)
           rest == n % u
           whole == n \div u
<1>1. n \in Nat
  BY DEF Abs
<1>2. \E v \in Spacings : SpacedBy(n, v)
  OBVIOUS
<1>3. u \in Spacings /\ SpacedBy(n, u)
  BY <1>2
<1>4. u \in Nat \ {0} /\ (u # 1 => u % 2 = 0)
  BY <1>3
<1>5. Nearest(n) = IF 2 * rest < u \/ (2 * rest = u /\ whole % 2 = 0)
                   THEN n - rest ELSE n - rest + u
  BY DEF Nearest
<1> HIDE DEF u
<1>6. rest \in 0..(u - 1) /\ whole \in Nat /\ n = u * whole + rest
  BY <1>1, <1>4
<1> HIDE DEF rest, whole
<1>7. CASE u = 1
  BY <1>1, <1>5, <1>6, <1>7
<1>8. CASE u # 1
  <2> DEFINE w == u \div 2
  <2>1. w \in Nat \ {0} /\ u = 2 * w
    BY <1>4, <1>8
  <2>2. n >= Precision * w
    BY <1>1, <1>3, <1>8 DEF SpacedBy, Abs
  <2> HIDE DEF w
  <2>3. u * whole = 2 * (w * whole) /\ w * whole \in Nat
    BY <1>6, <2>1
  <2> DEFINE k == w * whole
  <2> HIDE DEF k
  <2>4. k \in Nat /\ n - rest = 2 * k /\ rest \in 0..(2 * w - 1) /\ rest \in Nat
    BY <1>1, <1>6, <2>1, <2>3 DEF k
  <2>5. \/ (Nearest(n) = 2 * k /\ rest <= w)
        \/ (Nearest(n) = 2 * (k + w) /\ rest >= w)
    BY <1>5, <2>1, <2>4
  <2>6. Nearest(n) \in Nat /\ Nearest(n) % 2 = 0
    BY <2>1, <2>4, <2>5
  <2>7. Nearest(n) - n \in (-w)..w
    BY <1>1, <2>1, <2>4, <2>5
  <2> QED BY <2>1, <2>2, <2>6, <2>7
<1> QED BY <1>7, <1>8

\* Halving loses the odd nanosecond, or what the float is off.
LEMMA HalfLoss ==
  ASSUME NEW span \in 0..MaxTime,
         NEW x \in Int, Abs(x) <= 2 * Abs(Skew) + span
  PROVE  Half(x) \in Int /\ Abs(2 * Half(x) - x) <= Loss(span) /\ Loss(span) \in Nat
<1> DEFINE n == Abs(x)
           size == 2 * Abs(Skew) + span
<1>1. /\ n \in Nat /\ size \in Nat /\ n <= size
      /\ n \in 0..(2 * Abs(Skew) + MaxTime)
      /\ Precision \in Nat \ {0}
  BY ClientAssumption, FloatAssumption DEF Abs
<1>2. Half(x) = IF x >= 0 THEN Nearest(n) \div 2 ELSE -(Nearest(n) \div 2)
  BY DEF Half, Abs
<1>3. (x = n /\ x >= 0) \/ (x = -n /\ x < 0)
  BY DEF Abs
<1>4. Loss(span) = IF size < Precision THEN 1 ELSE size \div Precision
  BY DEF Loss
<1>5. Nearest(n) \in Nat
  BY <1>1, NearestLoss
<1> HIDE DEF n, size
<1> DEFINE m == Nearest(n)
           h == m \div 2
           q == size \div Precision
<1> HIDE DEF m
<1>6. h \in Nat /\ m - 2 * h \in 0..1 /\ (m % 2 = 0 => m = 2 * h)
  BY <1>5 DEF m
<1>7. q \in Nat /\ size - q * Precision \in 0..(Precision - 1)
  BY <1>1, DivisionLoss
<1>8. size >= Precision => q >= 1
  BY <1>1, <1>7
<1>9. Loss(span) \in Nat /\ Loss(span) >= 1
  BY <1>1, <1>4, <1>7, <1>8
<1>10. 2 * h - n <= Loss(span) /\ n - 2 * h <= Loss(span)
  <2>1. CASE m = n
    BY <1>1, <1>6, <1>9, <2>1
  <2>2. CASE m # n
    <3>1. PICK w \in Nat \ {0} : n >= Precision * w /\ m - n \in (-w)..w /\ m % 2 = 0
      BY <1>1, <2>2, NearestLoss DEF m
    <3>2. size >= Precision * w /\ Precision * w >= Precision
      BY <1>1, <3>1
    <3>3. w <= q
      <4>1. SUFFICES ASSUME q + 1 <= w PROVE FALSE
        BY <1>7, <3>1
      <4>2. Precision * (q + 1) <= Precision * w
        BY <1>1, <1>7, <3>1, <4>1
      <4>3. Precision * (q + 1) = q * Precision + Precision
        BY <1>1, <1>7
      <4> QED BY <1>1, <1>7, <3>2, <4>2, <4>3
    <3>4. Loss(span) = q
      BY <1>1, <1>4, <3>1, <3>2
    <3>5. m = 2 * h
      BY <1>6, <3>1
    <3> HIDE DEF h, q
    <3> QED BY <1>1, <1>6, <1>7, <3>1, <3>3, <3>4, <3>5
  <2> QED BY <2>1, <2>2
<1>11. (Half(x) = h /\ x = n) \/ (Half(x) = -h /\ x = -n)
  BY <1>2, <1>3 DEF m
<1> HIDE DEF h
<1>12. Abs(2 * Half(x) - x) <= Loss(span)
  BY <1>1, <1>6, <1>9, <1>10, <1>11 DEF Abs
<1> QED BY <1>6, <1>9, <1>11, <1>12

-----------------------------------------------------------------------------
(* What may happen to the replies in flight. *)

\* No reply comes into being, and none is doubled.
Dwindle == /\ inbox' \in Seq(Reply)
           /\ replies' \in Seq(Reply)
           /\ InFlight' \subseteq InFlight
           /\ \A kind : NoneOf(kind) => NoneOf(kind)'
           /\ \A kind : AtMostOne(kind) => AtMostOne(kind)'

LEMMA RepliesStay ==
  ASSUME TypeOK, UNCHANGED <<inbox, replies>>
  PROVE  Dwindle
<1>1. inbox' = inbox /\ replies' = replies
  OBVIOUS
<1>2. inbox' \in Seq(Reply) /\ replies' \in Seq(Reply)
  BY <1>1 DEF TypeOK
<1>3. InFlight' = InFlight
  BY <1>1 DEF InFlight
<1>4. \A kind : NoneOf(kind)' <=> NoneOf(kind)
  BY <1>1 DEF NoneOf
<1>5. \A kind : AtMostOne(kind)' <=> AtMostOne(kind)
  BY <1>1 DEF AtMostOne
<1> QED BY <1>2, <1>3, <1>4, <1>5 DEF Dwindle

\* The reply taken was in flight; if it was the only one of its kind there is
\* none left.
LEMMA ReceiveTakes ==
  ASSUME TypeOK, Receive, UNCHANGED replies
  PROVE  /\ Dwindle
         /\ Head(inbox) \in InFlight /\ Head(inbox) \in Reply
         /\ ~NoneOf(Head(inbox).kind)
         /\ \A kind : kind = Head(inbox).kind /\ AtMostOne(kind) => NoneOf(kind)'
<1>1. /\ inbox \in Seq(Reply) /\ replies \in Seq(Reply)
      /\ inbox # <<>> /\ inbox' = Tail(inbox) /\ replies' = replies
  BY DEF TypeOK, Receive
<1>2. inbox' \in Seq(Reply) /\ \A i \in DOMAIN inbox' : \E j \in DOMAIN inbox : inbox'[i] = inbox[j]
  BY <1>1
<1>3. InFlight' \subseteq InFlight
  BY <1>1, <1>2 DEF InFlight, ToSet
<1>4. ASSUME NEW kind
      PROVE  /\ NoneOf(kind) => NoneOf(kind)'
             /\ AtMostOne(kind) => AtMostOne(kind)'
  <2>1. \A i \in OfKind(inbox', kind) : i + 1 \in OfKind(inbox, kind) /\ i \in Nat
    BY <1>1, TailOfKind
  <2>2. NoneOf(kind) => NoneOf(kind)'
    BY <1>1, <2>1 DEF NoneOf
  <2>3. AtMostOne(kind) => AtMostOne(kind)'
    <3>1. SUFFICES ASSUME AtMostOne(kind) PROVE AtMostOne(kind)'
      OBVIOUS
    <3>2. \A i, j \in OfKind(inbox', kind) : i = j
      BY <2>1, <3>1 DEF AtMostOne
    <3>3. OfKind(inbox', kind) = {} \/ OfKind(replies, kind) = {}
      BY <2>1, <3>1 DEF AtMostOne
    <3> QED BY <1>1, <3>1, <3>2, <3>3 DEF AtMostOne
  <2> QED BY <2>2, <2>3
<1>5. Head(inbox) = inbox[1] /\ 1 \in DOMAIN inbox
  BY <1>1
<1>6. Head(inbox) \in InFlight /\ Head(inbox) \in Reply
  BY <1>1, <1>5 DEF InFlight, ToSet
<1>7. 1 \in OfKind(inbox, Head(inbox).kind)
  BY <1>5 DEF OfKind
<1>8. ~NoneOf(Head(inbox).kind)
  BY <1>7 DEF NoneOf
<1>9. ASSUME NEW kind, kind = Head(inbox).kind, AtMostOne(kind)
      PROVE  NoneOf(kind)'
  <2>1. \A i \in OfKind(inbox', kind) : i + 1 \in OfKind(inbox, kind) \ {1}
    BY <1>1, TailOfKind
  <2>2. \A i, j \in OfKind(inbox, kind) : i = j
    BY <1>9 DEF AtMostOne
  <2>3. OfKind(inbox', kind) = {}
    BY <1>7, <1>9, <2>1, <2>2
  <2>4. OfKind(replies', kind) = {}
    BY <1>1, <1>7, <1>9 DEF AtMostOne
  <2> QED BY <2>3, <2>4 DEF NoneOf
<1> QED BY <1>1, <1>2, <1>3, <1>4, <1>6, <1>8, <1>9 DEF Dwindle

LEMMA DeliverMoves ==
  ASSUME TypeOK, NEW i \in 1..Len(replies), Deliver(i)
  PROVE  Dwindle
<1> DEFINE r == replies[i]
<1>1. /\ inbox \in Seq(Reply) /\ replies \in Seq(Reply) /\ r \in Reply
      /\ inbox' = Append(inbox, r) /\ replies' = RemoveAt(replies, i)
  BY DEF TypeOK, Deliver
<1>2. inbox' \in Seq(Reply)
  BY <1>1
<1>3. /\ replies' \in Seq(Reply)
      /\ Len(replies') = Len(replies) - 1
      /\ \A j \in 1..(Len(replies) - 1) :
           replies'[j] = IF j < i THEN replies[j] ELSE replies[j + 1]
  BY <1>1, Removed
<1>4. InFlight' \subseteq InFlight
  <2>1. ToSet(replies') \subseteq ToSet(replies)
    BY <1>1, RemovedSet
  <2>2. ToSet(inbox') \subseteq ToSet(inbox) \cup {r}
    BY <1>1 DEF ToSet
  <2>3. r \in ToSet(replies)
    BY <1>1 DEF ToSet
  <2> QED BY <2>1, <2>2, <2>3 DEF InFlight
<1>5. ASSUME NEW kind
      PROVE  /\ NoneOf(kind) => NoneOf(kind)'
             /\ AtMostOne(kind) => AtMostOne(kind)'
  <2>1. OfKind(inbox', kind) =
          OfKind(inbox, kind) \cup (IF r.kind = kind THEN {Len(inbox) + 1} ELSE {})
    BY <1>1, AppendOfKind
  <2>2. \A j \in OfKind(replies', kind) :
          /\ (IF j < i THEN j ELSE j + 1) \in OfKind(replies, kind) \ {i}
          /\ j \in Int
    BY <1>1, <1>3, RemovedOfKind DEF OfKind
  <2>3. r.kind = kind <=> i \in OfKind(replies, kind)
    BY <1>1 DEF OfKind
  <2>4. NoneOf(kind) => NoneOf(kind)'
    BY <2>1, <2>2, <2>3 DEF NoneOf
  <2>5. ASSUME AtMostOne(kind) PROVE AtMostOne(kind)'
    <3>1. CASE r.kind = kind
      <4>1. OfKind(replies', kind) = {}
        BY <2>2, <2>3, <2>5, <3>1 DEF AtMostOne
      <4>2. OfKind(inbox', kind) = {Len(inbox) + 1}
        BY <2>1, <2>3, <2>5, <3>1 DEF AtMostOne
      <4> QED BY <4>1, <4>2 DEF AtMostOne
    <3>2. CASE r.kind # kind
      <4>1. OfKind(inbox', kind) = OfKind(inbox, kind)
        BY <2>1, <3>2
      <4>2. \A j, k \in OfKind(replies', kind) : j = k
        BY <2>2, <2>5 DEF AtMostOne
      <4>3. OfKind(replies, kind) = {} => OfKind(replies', kind) = {}
        BY <2>2
      <4> QED BY <2>5, <4>1, <4>2, <4>3 DEF AtMostOne
    <3> QED BY <3>1, <3>2
  <2> QED BY <2>4, <2>5
<1> QED BY <1>2, <1>3, <1>4, <1>5 DEF Dwindle

LEMMA LoseReplyTakes ==
  ASSUME TypeOK, NEW i \in 1..Len(replies), LoseReply(i)
  PROVE  Dwindle
<1>1. /\ inbox \in Seq(Reply) /\ replies \in Seq(Reply)
      /\ inbox' = inbox /\ replies' = RemoveAt(replies, i)
  BY DEF TypeOK, LoseReply
<1>2. /\ replies' \in Seq(Reply)
      /\ Len(replies') = Len(replies) - 1
      /\ \A j \in 1..(Len(replies) - 1) :
           replies'[j] = IF j < i THEN replies[j] ELSE replies[j + 1]
  BY <1>1, Removed
<1>3. InFlight' \subseteq InFlight
  <2>1. ToSet(replies') \subseteq ToSet(replies)
    BY <1>1, RemovedSet
  <2> QED BY <1>1, <2>1 DEF InFlight
<1>4. ASSUME NEW kind
      PROVE  /\ NoneOf(kind) => NoneOf(kind)'
             /\ AtMostOne(kind) => AtMostOne(kind)'
  <2>1. \A j \in OfKind(replies', kind) :
          /\ (IF j < i THEN j ELSE j + 1) \in OfKind(replies, kind) \ {i}
          /\ j \in Int
    BY <1>1, <1>2, RemovedOfKind DEF OfKind
  <2>2. NoneOf(kind) => NoneOf(kind)'
    BY <1>1, <2>1 DEF NoneOf
  <2>3. ASSUME AtMostOne(kind) PROVE AtMostOne(kind)'
    <3>1. \A j, k \in OfKind(replies', kind) : j = k
      BY <2>1, <2>3 DEF AtMostOne
    <3>2. OfKind(replies, kind) = {} => OfKind(replies', kind) = {}
      BY <2>1
    <3> QED BY <1>1, <2>3, <3>1, <3>2 DEF AtMostOne
  <2> QED BY <2>2, <2>3
<1> QED BY <1>1, <1>2, <1>3, <1>4 DEF Dwindle

\* Where there is none of a kind, there is at most one, and it is not in flight.
LEMMA NoneIsFew ==
  ASSUME NEW kind, NoneOf(kind)
  PROVE  AtMostOne(kind) /\ \A r \in InFlight : r.kind # kind
BY DEF NoneOf, AtMostOne, InFlight, OfKind, ToSet

\* Between two exchanges nothing decisive is in flight or being asked for.
LEMMA BetweenExchanges ==
  ASSUME IInv, Running, pc \notin DOMAIN Expected
  PROVE  /\ \A q \in requests : q.kind = "description"
         /\ \A kind \in Decisive : NoneOf(kind)
         /\ \A r \in InFlight : r.kind \notin Decisive
<1>1. Due = {} /\ pc \notin DOMAIN Asking
  BY DEF Due, Asking, Expected
<1>2. OneExchange /\ Running
  BY DEF IInv
<1>3. \A q \in requests : q.kind = "description"
  BY <1>1, <1>2 DEF OneExchange
<1>4. \A kind \in Decisive : NoneOf(kind)
  BY <1>1, <1>2 DEF OneExchange
<1> QED BY <1>3, <1>4, NoneIsFew

-----------------------------------------------------------------------------
(* Steps that leave the client where it is. *)

LEMMA InitInvariant == Init => IInv
<1> SUFFICES ASSUME Init PROVE IInv
  OBVIOUS
<1>1. TypeOK
  BY ClientAssumption DEF Init, TypeOK, Control, Waiting, Policy
<1>2. \A kind : NoneOf(kind)
  BY DEF Init, NoneOf, OfKind
<1>3. \A kind : AtMostOne(kind)
  BY <1>2, NoneIsFew
<1>4. InFlight = {}
  BY DEF Init, InFlight, ToSet
<1>5. requests = {} /\ result = None /\ pc = "ask_description" /\ begun = 0 /\ now = 0
  BY DEF Init
<1>6. OneExchange
  BY <1>2, <1>3, <1>5 DEF OneExchange
<1>7. Recent /\ RoundsLeft /\ Timeline /\ OffsetKnown /\ SyncAccuracy
  BY <1>4, <1>5, ClientAssumption DEF Init, Recent, RoundsLeft, Timeline, OffsetKnown, SyncAccuracy
<1> QED BY <1>1, <1>6, <1>7 DEF IInv

\* Nothing arrives that was not in flight, and time does not go back.
LEMMA DwindleKeeps ==
  ASSUME IInv, Dwindle, requests' \subseteq requests,
         UNCHANGED <<setting, pc, policy, times, offset, round, sent, begun,
                     result>>,
         now' \in 0..MaxTime, now' >= now
  PROVE  IInv'
<1> USE DEF IInv
<1>1. /\ setting' = setting /\ pc' = pc /\ policy' = policy /\ times' = times
      /\ offset' = offset /\ round' = round /\ sent' = sent
      /\ begun' = begun /\ result' = result
  OBVIOUS
<1>2. TypeOK'
  BY <1>1 DEF TypeOK, Dwindle
<1>3. Running' = Running /\ Due' = Due
  BY <1>1 DEF Running, Due
<1>4. OneExchange'
  <2> SUFFICES ASSUME Running'
               PROVE  /\ \A q \in requests' : q.kind # "description" =>
                           /\ pc' \in DOMAIN Asking
                           /\ q = [kind |-> Asking[pc'], to |-> sent',
                                   policy |-> policy']
                           /\ \A kind \in Decisive : NoneOf(kind)'
                      /\ \A kind \in Decisive :
                           AtMostOne(kind)' /\ (kind \notin Due' => NoneOf(kind)')
    BY DEF OneExchange
  <2>1. OneExchange /\ Running
    BY <1>3
  <2>2. ASSUME NEW q \in requests', q.kind # "description"
        PROVE  /\ pc \in DOMAIN Asking
               /\ q = [kind |-> Asking[pc], to |-> sent, policy |-> policy]
               /\ \A kind \in Decisive : NoneOf(kind)
    BY <2>1, <2>2 DEF OneExchange
  <2>3. ASSUME NEW kind \in Decisive
        PROVE  AtMostOne(kind) /\ (kind \notin Due => NoneOf(kind))
    BY <2>1 DEF OneExchange
  <2> QED BY <1>1, <1>3, <2>2, <2>3 DEF Dwindle
<1>5. Recent'
  <2> SUFFICES ASSUME Running', NEW r \in InFlight'
               PROVE  /\ r.kind \in Decisive => r.to = sent'
                      /\ r.kind = "announce" => r.value = CurrentOffset
                      /\ r.kind = "sync" => r.value - Skew \in begun'..now'
                      /\ r.kind = "delay_response" =>
                           r.value - Skew \in times.t3'..now'
    BY DEF Recent
  <2>1. r \in InFlight
    BY DEF Dwindle
  <2>2. r \in Reply
    BY <2>1 DEF InFlight, ToSet, TypeOK
  <2>3. r.value \in Int /\ now \in Int /\ now' \in Int /\ Skew \in Int /\ begun \in Int
        /\ times.t3 \in Int
    BY <2>2, ClientAssumption DEF Reply, TypeOK
  <2>4. /\ r.kind \in Decisive => r.to = sent
        /\ r.kind = "announce" => r.value = CurrentOffset
        /\ r.kind = "sync" => r.value - Skew \in begun..now
        /\ r.kind = "delay_response" => r.value - Skew \in times.t3..now
    BY <1>3, <2>1 DEF Recent
  <2> QED BY <1>1, <2>3, <2>4
<1>6. Timeline'
  BY <1>1, ClientAssumption DEF Timeline, TypeOK
<1>7. RoundsLeft' /\ OffsetKnown' /\ SyncAccuracy'
  BY <1>1 DEF RoundsLeft, Running, OffsetKnown, SyncAccuracy
<1> QED BY <1>2, <1>4, <1>5, <1>6, <1>7

LEMMA StutterKeeps == IInv /\ UNCHANGED vars => IInv'
<1> SUFFICES ASSUME IInv, UNCHANGED vars PROVE IInv'
  OBVIOUS
<1>1. TypeOK
  BY DEF IInv
<1>2. Dwindle
  BY <1>1, RepliesStay DEF vars
<1>3. now' \in 0..MaxTime /\ now' >= now
  BY <1>1 DEF vars, TypeOK
<1> QED BY <1>2, <1>3, DwindleKeeps DEF vars

LEMMA NetworkKeeps == IInv /\ Network => IInv'
<1> SUFFICES ASSUME IInv, Network PROVE IInv'
  OBVIOUS
<1>1. TypeOK /\ now \in 0..MaxTime
  BY DEF IInv, TypeOK
<1>2. ASSUME NEW i \in 1..Len(replies), Deliver(i) PROVE IInv'
  <2>1. Dwindle
    BY <1>1, <1>2, DeliverMoves
  <2> QED BY <1>1, <1>2, <2>1, DwindleKeeps DEF Deliver
<1>3. ASSUME NEW i \in 1..Len(replies), LoseReply(i) PROVE IInv'
  <2>1. Dwindle
    BY <1>1, <1>3, LoseReplyTakes
  <2> QED BY <1>1, <1>3, <2>1, DwindleKeeps DEF LoseReply
<1>4. ASSUME NEW q \in requests, LoseRequest(q) PROVE IInv'
  <2>1. Dwindle
    BY <1>1, <1>4, RepliesStay DEF LoseRequest
  <2> QED BY <1>1, <1>4, <2>1, DwindleKeeps DEF LoseRequest
<1> QED BY <1>2, <1>3, <1>4 DEF Network

LEMMA TickKeeps == IInv /\ Tick => IInv'
<1> SUFFICES ASSUME IInv, Tick PROVE IInv'
  OBVIOUS
<1>1. TypeOK /\ now \in 0..MaxTime
  BY DEF IInv, TypeOK
<1>2. Dwindle
  BY <1>1, RepliesStay DEF Tick
<1>3. now' \in 0..MaxTime /\ now' >= now
  BY <1>1, ClientAssumption DEF Tick
<1> QED BY <1>2, <1>3, DwindleKeeps DEF Tick

-----------------------------------------------------------------------------
(* The client's steps. *)

\* A request made between two exchanges begins one: nothing decisive is left.
LEMMA AskBegins ==
  ASSUME IInv, Running, pc \notin DOMAIN Expected,
         NEW kind \in RequestKind, Send(kind), policy' = policy,
         kind # "description" => pc' \in DOMAIN Asking /\ kind = Asking[pc']
  PROVE  /\ OneExchange' /\ Recent'
         /\ requests' \subseteq Request /\ sent' \in Nat /\ now' = now
         /\ inbox' \in Seq(Reply) /\ replies' \in Seq(Reply)
<1> DEFINE asked == [kind |-> kind, to |-> sent + 1, policy |-> policy]
<1>1. TypeOK
  BY DEF IInv
<1>2. /\ inbox' = inbox /\ replies' = replies /\ now' = now /\ sent' = sent + 1
      /\ requests' = requests \cup {asked}
  BY DEF Send
<1>3. /\ requests' \subseteq Request /\ sent' \in Nat /\ now' = now
      /\ inbox' \in Seq(Reply) /\ replies' \in Seq(Reply)
  BY <1>1, <1>2 DEF TypeOK, Request
<1>4. /\ \A q \in requests : q.kind = "description"
      /\ \A k \in Decisive : NoneOf(k)
      /\ \A r \in InFlight : r.kind \notin Decisive
  BY BetweenExchanges
<1>5. Dwindle
  BY <1>1, <1>2, RepliesStay
<1>6. \A k \in Decisive : NoneOf(k)' /\ AtMostOne(k)'
  <2> TAKE k \in Decisive
  <2>1. NoneOf(k) /\ AtMostOne(k)
    BY <1>4, NoneIsFew
  <2> QED BY <1>5, <2>1 DEF Dwindle
<1>7. OneExchange'
  <2>1. ASSUME NEW q \in requests', q.kind # "description"
        PROVE  /\ pc' \in DOMAIN Asking
               /\ q = [kind |-> Asking[pc'], to |-> sent', policy |-> policy']
    <3>1. q = asked
      BY <1>2, <1>4, <2>1
    <3>2. kind # "description"
      BY <2>1, <3>1
    <3> QED BY <1>2, <3>1, <3>2
  <2> QED BY <1>6, <2>1 DEF OneExchange
<1>8. Recent'
  <2>1. \A r \in InFlight' : r.kind \notin Decisive
    BY <1>4, <1>5 DEF Dwindle
  <2> QED BY <2>1 DEF Recent, Decisive
<1> QED BY <1>3, <1>7, <1>8

\* The kind of reply an await is for may come, but only once.
LEMMA ExpectedIsDecisive ==
  ASSUME pc \in DOMAIN Expected
  PROVE  Expected[pc] \in Decisive /\ Running
BY DEF Expected, Decisive, Running

\* Taking the reply that is expected: it answers the latest request, and there
\* is no other of its kind.
LEMMA TakeAdvances ==
  ASSUME IInv, pc \in DOMAIN Expected, Received(Expected[pc]),
         UNCHANGED <<policy, requests, replies, now, sent, begun>>,
         Due' = Due \ {Expected[pc]},
         Expected[pc] # "delay_response" => times'.t3 = times.t3
  PROVE  /\ OneExchange' /\ Recent'
         /\ inbox' \in Seq(Reply)
         /\ Head(inbox) \in InFlight /\ Head(inbox) \in Reply
         /\ Head(inbox).kind = Expected[pc] /\ Head(inbox).to = sent
<1> DEFINE expected == Expected[pc]
<1>1. TypeOK /\ OneExchange /\ Recent /\ Running /\ expected \in Decisive
  BY ExpectedIsDecisive DEF IInv
<1>2. Receive /\ Head(inbox).kind = expected
  BY DEF Received
<1>3. /\ Dwindle
      /\ Head(inbox) \in InFlight /\ Head(inbox) \in Reply
      /\ ~NoneOf(expected)
      /\ \A kind : kind = Head(inbox).kind /\ AtMostOne(kind) => NoneOf(kind)'
  BY <1>1, <1>2, ReceiveTakes
<1>4. inbox' \in Seq(Reply)
  BY <1>3 DEF Dwindle
<1>5. /\ \A q \in requests : q.kind = "description"
      /\ \A kind \in Decisive : AtMostOne(kind) /\ (kind \notin Due => NoneOf(kind))
  BY <1>1, <1>3 DEF OneExchange
<1>6. ASSUME NEW kind, kind = expected
      PROVE  NoneOf(kind)'
  BY <1>1, <1>2, <1>3, <1>5, <1>6
<1>7. \A kind \in Decisive : AtMostOne(kind)' /\ (kind \notin Due' => NoneOf(kind)')
  <2> TAKE kind \in Decisive
  <2>1. AtMostOne(kind)'
    BY <1>3, <1>5 DEF Dwindle
  <2>2. CASE kind = expected
    BY <1>6, <2>1, <2>2
  <2>3. ASSUME kind # expected, kind \notin Due' PROVE NoneOf(kind)'
    <3>1. kind \notin Due
      BY <2>3
    <3> QED BY <1>3, <1>5, <3>1 DEF Dwindle
  <2> QED BY <2>1, <2>2, <2>3
<1>8. OneExchange'
  BY <1>5, <1>7 DEF OneExchange
<1>9. Recent'
  <2> SUFFICES ASSUME NEW r \in InFlight'
               PROVE  /\ r.kind \in Decisive => r.to = sent'
                      /\ r.kind = "announce" => r.value = CurrentOffset
                      /\ r.kind = "sync" => r.value - Skew \in begun'..now'
                      /\ r.kind = "delay_response" =>
                           r.value - Skew \in times.t3'..now'
    BY DEF Recent
  <2>1. /\ r.kind \in Decisive => r.to = sent
        /\ r.kind = "announce" => r.value = CurrentOffset
        /\ r.kind = "sync" => r.value - Skew \in begun..now
        /\ r.kind = "delay_response" => r.value - Skew \in times.t3..now
    BY <1>1, <1>3 DEF Dwindle, Recent
  <2>2. r.kind # expected
    <3>1. \A kind : NoneOf(kind)' => r.kind # kind
      BY DEF NoneOf, InFlight, OfKind, ToSet
    <3> QED BY <1>6, <3>1
  <2> QED BY <2>1, <2>2
<1> QED BY <1>1, <1>2, <1>3, <1>4, <1>8, <1>9 DEF Recent

LEMMA AskKeeps ==
  ASSUME IInv, AskDescription \/ AskAnnounce \/ AskSync \/ AskDelay,
         UNCHANGED setting
  PROVE  IInv'
<1> USE DEF IInv
<1>1. PICK kind \in RequestKind :
        /\ Send(kind) /\ policy' = policy
        /\ kind # "description" => pc' \in DOMAIN Asking /\ kind = Asking[pc']
        /\ Running /\ pc \notin DOMAIN Expected
  <2>1. CASE AskDescription
    BY <2>1 DEF AskDescription, RequestKind, Running, Expected
  <2>2. CASE AskAnnounce
    BY <2>2 DEF AskAnnounce, RequestKind, Running, Expected, Asking
  <2>3. CASE AskSync
    BY <2>3 DEF AskSync, RequestKind, Running, Expected, Asking
  <2>4. CASE AskDelay
    BY <2>4 DEF AskDelay, RequestKind, Running, Expected, Asking
  <2> QED BY <2>1, <2>2, <2>3, <2>4
<1>2. /\ OneExchange' /\ Recent'
      /\ requests' \subseteq Request /\ sent' \in Nat /\ now' = now
      /\ inbox' \in Seq(Reply) /\ replies' \in Seq(Reply)
  BY <1>1, AskBegins
<1>3. /\ offset' = offset /\ round' = round /\ result' = result
      /\ pc' \in Control
      /\ begun' \in {begun, now} /\ (pc # "ask_sync" => begun' = begun)
      /\ times' \in [t1 : Int, t2 : Int, t3 : Int]
      /\ pc # "ask_delay" => pc' \notin {"ask_delay", "delay_response"}
      /\ pc = "ask_delay" => /\ pc' = "delay_response"
                            /\ times' = [times EXCEPT !.t3 = now]
  BY ClientAssumption
     DEF AskDescription, AskAnnounce, AskSync, AskDelay, Control, Waiting, TypeOK
<1>4. TypeOK'
  BY <1>1, <1>2, <1>3 DEF TypeOK
<1>5. Timeline'
  <2>0. begun \in Int /\ now \in Int
    BY ClientAssumption DEF TypeOK
  <2>1. begun <= now /\ begun' <= now'
    BY <1>2, <1>3, <2>0 DEF Timeline
  <2>2. CASE pc # "ask_delay"
    BY <1>3, <2>1, <2>2 DEF Timeline
  <2>3. CASE pc = "ask_delay"
    <3>1. begun' = begun /\ times'.t1 = times.t1 /\ times'.t2 = times.t2
          /\ times'.t3 = now
      BY <1>3, <2>3 DEF TypeOK
    <3>2. times.t1 - Skew \in begun..times.t2 /\ times.t2 <= now /\ times.t2 \in Int
      BY <2>3 DEF Timeline, TypeOK
    <3> QED BY <1>2, <1>3, <2>1, <3>1, <3>2 DEF Timeline
  <2> QED BY <2>2, <2>3
<1>6. OffsetKnown'
  BY <1>3 DEF OffsetKnown, AskDescription, AskAnnounce, AskSync, AskDelay
<1>7. RoundsLeft' /\ SyncAccuracy'
  BY <1>1, <1>3 DEF RoundsLeft, SyncAccuracy
<1> QED BY <1>2, <1>4, <1>5, <1>6, <1>7

\* A reply to a request for the description, or its failure, is not decisive.
LEMMA DescriptionKeeps ==
  ASSUME IInv, TakeDescription \/ DescriptionFails, UNCHANGED setting
  PROVE  IInv'
<1> USE DEF IInv
<1>1. /\ pc = "description"
      /\ pc' \in {"ask_announce", "ask_description", "failed"}
      /\ policy' \in {policy, "plain"}
      /\ UNCHANGED <<times, offset, round, requests, replies, now, sent, begun,
                     result>>
      /\ Receive \/ UNCHANGED inbox
  BY DEF TakeDescription, DescriptionFails, Received, Unexpected, Timeout
<1>2. Dwindle
  BY <1>1, ReceiveTakes, RepliesStay
<1>3. /\ \A q \in requests : q.kind = "description"
      /\ \A k \in Decisive : NoneOf(k)
      /\ \A r \in InFlight : r.kind \notin Decisive
  BY <1>1, BetweenExchanges DEF Running, Expected
<1>4. \A k \in Decisive : NoneOf(k)' /\ AtMostOne(k)'
  BY <1>2, <1>3, NoneIsFew DEF Dwindle
<1>5. OneExchange'
  BY <1>1, <1>3, <1>4 DEF OneExchange
<1>6. Recent'
  BY <1>2, <1>3 DEF Recent, Decisive, Dwindle
<1>7. TypeOK'
  BY <1>1, <1>2 DEF TypeOK, Dwindle, Control, Waiting, Policy
<1>8. RoundsLeft' /\ Timeline' /\ OffsetKnown' /\ SyncAccuracy'
  BY <1>1 DEF RoundsLeft, Running, Timeline, OffsetKnown, SyncAccuracy
<1> QED BY <1>5, <1>6, <1>7, <1>8

LEMMA GivesUpKeeps ==
  ASSUME IInv, GivesUp, UNCHANGED setting
  PROVE  IInv'
<1> USE DEF IInv
<1>1. /\ pc' = "failed"
      /\ UNCHANGED <<policy, times, offset, round, requests, replies, now, sent,
                     begun, result>>
      /\ Receive \/ UNCHANGED inbox
  BY DEF GivesUp, Unexpected, Timeout
<1>2. Dwindle
  BY <1>1, ReceiveTakes, RepliesStay
<1>3. TypeOK'
  BY <1>1, <1>2 DEF TypeOK, Dwindle, Control
<1>4. /\ OneExchange' /\ Recent' /\ RoundsLeft'
      /\ Timeline' /\ OffsetKnown' /\ SyncAccuracy'
  BY <1>1 DEF OneExchange, Recent, RoundsLeft, Running, Timeline, OffsetKnown,
              SyncAccuracy
<1> QED BY <1>3, <1>4

LEMMA TakeGrantKeeps ==
  ASSUME IInv, TakeGrant, UNCHANGED setting
  PROVE  IInv' /\ Head(inbox).to = sent
<1> USE DEF IInv
<1>1. /\ pc \in {"announce_grant", "sync_grant"}
      /\ pc' = IF pc = "announce_grant" THEN "announce" ELSE "sync"
      /\ Received("grant")
      /\ UNCHANGED <<policy, times, offset, round, requests, replies, now, sent,
                     begun, result>>
  BY DEF TakeGrant
<1>2. /\ pc \in DOMAIN Expected /\ Expected[pc] = "grant"
      /\ Due' = Due \ {Expected[pc]}
  BY <1>1 DEF Expected, Due
<1>3. /\ OneExchange' /\ Recent' /\ inbox' \in Seq(Reply) /\ Head(inbox).to = sent
  BY <1>1, <1>2, TakeAdvances
<1>4. TypeOK'
  BY <1>1, <1>3 DEF TypeOK, Control, Waiting
<1>5. RoundsLeft' /\ Timeline' /\ OffsetKnown' /\ SyncAccuracy'
  BY <1>1 DEF RoundsLeft, Running, Timeline, OffsetKnown, SyncAccuracy
<1> QED BY <1>3, <1>4, <1>5

LEMMA TakeAnnounceKeeps ==
  ASSUME IInv, TakeAnnounce, UNCHANGED setting
  PROVE  IInv' /\ Head(inbox).to = sent
<1> USE DEF IInv
<1>1. /\ pc = "announce" /\ pc' = "ask_sync"
      /\ Received("announce")
      /\ offset' = Head(inbox).value * Second
      /\ UNCHANGED <<policy, times, round, requests, replies, now, sent, begun,
                     result>>
  BY DEF TakeAnnounce
<1>2. /\ pc \in DOMAIN Expected /\ Expected[pc] = "announce"
      /\ Due' = Due \ {Expected[pc]} /\ Running
  BY <1>1 DEF Expected, Due, Running
<1>3. /\ OneExchange' /\ Recent' /\ inbox' \in Seq(Reply) /\ Head(inbox).to = sent
      /\ Head(inbox) \in InFlight /\ Head(inbox).kind = "announce"
  BY <1>1, <1>2, TakeAdvances
<1>4. offset' = CurrentOffset * Second /\ offset' \in Int
  BY <1>1, <1>2, <1>3, OffsetInSeconds DEF Recent
<1>5. TypeOK'
  BY <1>1, <1>3, <1>4 DEF TypeOK, Control, Waiting
<1>6. RoundsLeft' /\ Timeline' /\ OffsetKnown' /\ SyncAccuracy'
  BY <1>1, <1>4 DEF RoundsLeft, Running, Timeline, OffsetKnown, SyncAccuracy
<1> QED BY <1>3, <1>5, <1>6

LEMMA TakeSyncKeeps ==
  ASSUME IInv, TakeSync, UNCHANGED setting
  PROVE  IInv' /\ Head(inbox).to = sent
<1> USE DEF IInv
<1>1. /\ pc = "sync" /\ pc' = "ask_delay"
      /\ Received("sync")
      /\ times' = [times EXCEPT !.t1 = Head(inbox).value, !.t2 = now]
      /\ UNCHANGED <<policy, offset, round, requests, replies, now, sent, begun,
                     result>>
  BY DEF TakeSync
<1>2. /\ pc \in DOMAIN Expected /\ Expected[pc] = "sync"
      /\ Due' = Due \ {Expected[pc]} /\ Running
      /\ times' = [t1 |-> Head(inbox).value, t2 |-> now, t3 |-> times.t3]
  BY <1>1 DEF Expected, Due, Running, TypeOK
<1>3. /\ OneExchange' /\ Recent' /\ inbox' \in Seq(Reply) /\ Head(inbox).to = sent
      /\ Head(inbox) \in InFlight /\ Head(inbox) \in Reply
      /\ Head(inbox).kind = "sync"
  BY <1>1, <1>2, TakeAdvances
<1>4. Head(inbox).value - Skew \in begun..now /\ Head(inbox).value \in Int
  BY <1>2, <1>3 DEF Recent, Reply
<1>5. now \in Int
  BY ClientAssumption DEF TypeOK
<1>6. TypeOK'
  BY <1>1, <1>2, <1>3, <1>4, <1>5 DEF TypeOK, Control, Waiting
<1>7. Timeline'
  BY <1>1, <1>2, <1>4, <1>5 DEF Timeline
<1>8. RoundsLeft' /\ OffsetKnown' /\ SyncAccuracy'
  BY <1>1 DEF RoundsLeft, Running, OffsetKnown, SyncAccuracy
<1> QED BY <1>3, <1>6, <1>7, <1>8

\* Each way counts for half of the result, and each took no longer than the
\* times taken in front of it and behind it leave.
LEMMA TakeDelayResponseKeeps ==
  ASSUME IInv, TakeDelayResponse, UNCHANGED setting
  PROVE  IInv' /\ Head(inbox).to = sent
<1> USE DEF IInv
<1> DEFINE t4 == Head(inbox).value
           x == (times.t1 + t4) - (times.t2 + times.t3)
<1>1. /\ pc = "delay_response" /\ pc' \in {"ask_sync", "done"}
      /\ Received("delay_response")
      /\ result' = [error |-> Half(x), span |-> now - begun]
      /\ round' = round + 1 /\ (round' < Syncs \/ pc' = "done")
      /\ UNCHANGED <<policy, times, offset, requests, replies, now, sent, begun>>
  BY DEF TakeDelayResponse
<1>2. /\ pc \in DOMAIN Expected /\ Expected[pc] = "delay_response"
      /\ Due' = Due \ {Expected[pc]} /\ Running
  BY <1>1 DEF Expected, Due, Running
<1>3. /\ OneExchange' /\ Recent' /\ inbox' \in Seq(Reply) /\ Head(inbox).to = sent
      /\ Head(inbox) \in InFlight /\ Head(inbox) \in Reply
      /\ Head(inbox).kind = "delay_response"
  BY <1>1, <1>2, TakeAdvances
<1>4. t4 - Skew \in times.t3..now /\ t4 \in Int
  BY <1>2, <1>3 DEF Recent, Reply
<1>5. /\ times.t1 \in Int /\ times.t2 \in Int /\ times.t3 \in Int
      /\ now \in Int /\ begun \in Int /\ Skew \in Int
  BY ClientAssumption DEF TypeOK
<1>6. times.t1 - Skew \in begun..times.t2 /\ times.t3 \in times.t2..now
  BY <1>1 DEF Timeline
<1>7. x \in Int /\ x - 2 * Skew \in (begun - now)..(now - begun)
  BY <1>4, <1>5, <1>6
<1> HIDE DEF x
<1> DEFINE span == now - begun
<1>13. span \in 0..MaxTime /\ span \in Nat
  BY <1>5, <1>6, ClientAssumption DEF TypeOK, Timeline
<1>14. Abs(x) <= 2 * Abs(Skew) + span
  BY <1>5, <1>7, <1>13 DEF Abs
<1>8. Half(x) \in Int /\ Abs(2 * Half(x) - x) <= Loss(span) /\ Loss(span) \in Nat
  BY <1>7, <1>13, <1>14, HalfLoss
<1>9. SyncAccuracy'
  <2>1. result'.error = Half(x) /\ result'.span = now - begun
    BY <1>1
  <2>2. 2 * Abs(Half(x) - Skew) <= span + Loss(span)
    BY <1>5, <1>7, <1>8 DEF Abs
  <2> QED BY <2>1, <2>2 DEF SyncAccuracy
<1>10. TypeOK' /\ RoundsLeft'
  <2>1. round \in Nat /\ round < Syncs /\ Syncs \in Nat
    BY <1>2, ClientAssumption DEF TypeOK, RoundsLeft
  <2>2. round' \in 0..Syncs /\ RoundsLeft'
    BY <1>1, <2>1 DEF RoundsLeft, Running
  <2>3. result' \in [error : Int, span : Int]
    BY <1>1, <1>5, <1>8
  <2> QED BY <1>1, <1>3, <2>2, <2>3 DEF TypeOK, Control, Waiting
<1>11. Timeline' /\ OffsetKnown'
  BY <1>1 DEF Timeline, OffsetKnown
<1> QED BY <1>3, <1>9, <1>10, <1>11

-----------------------------------------------------------------------------
(* The server's step. *)

LEMMA OneReply ==
  ASSUME NEW a \in ReplyKind
  PROVE  /\ <<a>> \in Seq(ReplyKind)
         /\ \A i \in 1..Len(<<a>>) : i = 1 /\ <<a>>[i] = a
OBVIOUS

LEMMA TwoReplies ==
  ASSUME NEW a \in ReplyKind, NEW b \in ReplyKind, a # b
  PROVE  /\ <<a, b>> \in Seq(ReplyKind)
         /\ \A i \in 1..Len(<<a, b>>) :
              \/ i = 1 /\ <<a, b>>[i] = a
              \/ i = 2 /\ <<a, b>>[i] = b
<1>1. <<a, b>> \in Seq(ReplyKind) /\ Len(<<a, b>>) = 2
  OBVIOUS
<1>2. <<a, b>>[1] = a /\ <<a, b>>[2] = b
  OBVIOUS
<1> DEFINE s == <<a, b>>
<1>3. s[1] = a /\ s[2] = b /\ s \in Seq(ReplyKind) /\ Len(s) = 2
  BY <1>1, <1>2
<1> HIDE DEF s
<1>4. \A i \in 1..Len(s) :
        \/ i = 1 /\ s[i] = a
        \/ i = 2 /\ s[i] = b
  BY <1>3
<1> QED BY <1>3, <1>4 DEF s

\* Each request gets each kind of reply at most once, and no decisive one but
\* those the client waits for.
LEMMA AnswersOnce ==
  ASSUME NEW q \in Request, NEW kinds \in Answers(q)
  PROVE  /\ kinds \in Seq(ReplyKind)
         /\ \A i, j \in 1..Len(kinds) : kinds[i] = kinds[j] => i = j
         /\ \A i \in 1..Len(kinds) :
              \/ kinds[i] \notin Decisive
              \/ q.kind = "announce" /\ kinds[i] \in {"grant", "announce"}
              \/ q.kind = "sync" /\ kinds[i] \in {"grant", "sync"}
              \/ q.kind = "delay" /\ kinds[i] = "delay_response"
<1>1. q.kind \in {"description", "announce", "sync", "delay"}
  BY DEF Request, RequestKind
<1>6. /\ {"description", "refused", "error"} \subseteq ReplyKind \ Decisive
  BY DEF ReplyKind, Decisive
<1>2. CASE q.kind = "description"
  <2>1. kinds \in {<<"description">>, <<"error">>}
    BY <1>2 DEF Answers
  <2>2. CASE kinds = <<"description">>
    BY <2>2, <1>6, OneReply
  <2>3. CASE kinds = <<"error">>
    BY <2>3, <1>6, OneReply
  <2> QED BY <2>1, <2>2, <2>3
<1>3. CASE q.kind = "announce"
  <2>1. kinds \in {<<"grant", "announce">>, <<"refused", "error">>, <<"error">>}
    BY <1>3 DEF Answers
  <2>2. CASE kinds = <<"grant", "announce">>
    <3>1. "grant" \in ReplyKind /\ "announce" \in ReplyKind
      BY DEF ReplyKind
    <3> QED BY <1>3, <2>2, <3>1, TwoReplies
  <2>3. CASE kinds = <<"refused", "error">>
    BY <2>3, <1>6, TwoReplies
  <2>4. CASE kinds = <<"error">>
    BY <2>4, <1>6, OneReply
  <2> QED BY <2>1, <2>2, <2>3, <2>4
<1>4. CASE q.kind = "sync"
  <2>1. kinds \in {<<"grant", "sync">>, <<"refused", "error">>, <<"error">>}
    BY <1>4 DEF Answers
  <2>2. CASE kinds = <<"grant", "sync">>
    <3>1. "grant" \in ReplyKind /\ "sync" \in ReplyKind
      BY DEF ReplyKind
    <3> QED BY <1>4, <2>2, <3>1, TwoReplies
  <2>3. CASE kinds = <<"refused", "error">>
    BY <2>3, <1>6, TwoReplies
  <2>4. CASE kinds = <<"error">>
    BY <2>4, <1>6, OneReply
  <2> QED BY <2>1, <2>2, <2>3, <2>4
<1>5. CASE q.kind = "delay"
  <2>1. kinds \in {<<"delay_response">>, <<"error">>}
    BY <1>5 DEF Answers
  <2>2. "delay_response" \in ReplyKind
    BY DEF ReplyKind
  <2>3. CASE kinds = <<"delay_response">>
    BY <1>5, <2>2, <2>3, OneReply
  <2>4. CASE kinds = <<"error">>
    BY <2>4, <1>6, OneReply
  <2> QED BY <2>1, <2>3, <2>4
<1> QED BY <1>1, <1>2, <1>3, <1>4, <1>5

LEMMA ConcatOfKind ==
  ASSUME NEW s \in Seq(Reply), NEW t \in Seq(Reply), NEW kind,
         NEW j \in OfKind(s \o t, kind)
  PROVE  \/ j \in OfKind(s, kind)
         \/ j - Len(s) \in OfKind(t, kind) /\ j \in Int
<1>1. /\ s \o t \in Seq(Reply) /\ Len(s \o t) = Len(s) + Len(t)
      /\ Len(s) \in Nat /\ Len(t) \in Nat
  OBVIOUS
<1>2. j \in 1..(Len(s) + Len(t)) /\ (s \o t)[j].kind = kind
  BY <1>1 DEF OfKind
<1>3. CASE j <= Len(s)
  BY <1>1, <1>2, <1>3 DEF OfKind
<1>4. CASE j > Len(s)
  <2>1. j - Len(s) \in 1..Len(t) /\ (s \o t)[j] = t[j - Len(s)]
    BY <1>1, <1>2, <1>4
  <2> QED BY <1>2, <2>1 DEF OfKind
<1> QED BY <1>1, <1>2, <1>3, <1>4

LEMMA ServerPollKeeps ==
  ASSUME IInv, NEW q \in requests, ServerPoll(q)
  PROVE  IInv'
<1> USE DEF IInv
<1> DEFINE value(kind) == IF kind = "announce" THEN CurrentOffset ELSE now + Skew
           New(kinds) == [i \in 1..Len(kinds) |-> [kind |-> kinds[i], to |-> q.to,
                                                   value |-> value(kinds[i])]]
<1>1. PICK kinds \in Answers(q) : replies' = replies \o New(kinds)
  BY DEF ServerPoll
<1> DEFINE new == New(kinds)
<1>2. /\ requests' = requests \ {q}
      /\ UNCHANGED <<setting, pc, policy, inbox, times, offset, round, now,
                     sent, begun, result>>
  BY DEF ServerPoll
<1>3. q \in Request /\ replies \in Seq(Reply) /\ inbox \in Seq(Reply)
      /\ now \in Int /\ begun \in Int /\ times.t3 \in Int /\ Skew \in Int
  BY ClientAssumption DEF TypeOK
<1>4. /\ kinds \in Seq(ReplyKind)
      /\ \A i, j \in 1..Len(kinds) : kinds[i] = kinds[j] => i = j
      /\ \A i \in 1..Len(kinds) :
           \/ kinds[i] \notin Decisive
           \/ q.kind = "announce" /\ kinds[i] \in {"grant", "announce"}
           \/ q.kind = "sync" /\ kinds[i] \in {"grant", "sync"}
           \/ q.kind = "delay" /\ kinds[i] = "delay_response"
  BY <1>1, <1>3, AnswersOnce
<1>5. /\ new \in Seq(Reply) /\ Len(new) = Len(kinds)
      /\ \A i \in 1..Len(kinds) :
           /\ new[i].kind = kinds[i] /\ new[i].to = q.to
           /\ new[i].value = value(kinds[i])
  <2>1. \A i \in 1..Len(kinds) :
          [kind |-> kinds[i], to |-> q.to, value |-> value(kinds[i])] \in Reply
    BY <1>3, <1>4, OffsetInSeconds DEF Reply, Request
  <2>2. new \in Seq(Reply) /\ Len(new) = Len(kinds)
    BY <1>4, <2>1
  <2> QED BY <2>2
<1> HIDE DEF new
<1>6. replies' = replies \o new
  BY <1>1 DEF new
<1>7. TypeOK'
  BY <1>2, <1>3, <1>5, <1>6 DEF TypeOK
<1>8. \A r \in InFlight' : r \in InFlight \/ \E i \in 1..Len(kinds) : r = new[i]
  <2>1. \A i \in DOMAIN (replies \o new) :
          \/ \E j \in DOMAIN replies : (replies \o new)[i] = replies[j]
          \/ \E j \in 1..Len(kinds) : (replies \o new)[i] = new[j]
    BY <1>3, <1>5
  <2> QED BY <1>2, <1>6, <2>1 DEF InFlight, ToSet
<1>9. ASSUME NEW kind
      PROVE  \A j \in OfKind(replies', kind) :
               \/ j \in OfKind(replies, kind)
               \/ /\ j - Len(replies) \in 1..Len(kinds)
                  /\ kinds[j - Len(replies)] = kind
                  /\ j \in Int
  <2> TAKE j \in OfKind(replies', kind)
  <2>1. \/ j \in OfKind(replies, kind)
        \/ j - Len(replies) \in OfKind(new, kind) /\ j \in Int
    BY <1>3, <1>5, <1>6, ConcatOfKind
  <2> QED BY <1>5, <2>1 DEF OfKind
<1>10. ASSUME Running, q.kind = "description"
       PROVE  OneExchange' /\ Recent'
  <2>1. Running /\ Running' = Running /\ Due' = Due
    BY <1>2, <1>10 DEF Running, Due
  <2>2. \A i \in 1..Len(kinds) : kinds[i] \notin Decisive
    BY <1>4, <1>10
  <2>3. \A kind \in Decisive : OfKind(replies', kind) \subseteq OfKind(replies, kind)
    BY <1>9, <2>2
  <2>4. \A kind \in Decisive :
          /\ NoneOf(kind) => NoneOf(kind)'
          /\ AtMostOne(kind) => AtMostOne(kind)'
    BY <1>2, <2>3 DEF NoneOf, AtMostOne
  <2>5. OneExchange'
    BY <1>2, <2>1, <2>4 DEF OneExchange
  <2>6. Recent'
    <3>1. ASSUME NEW r \in InFlight', r.kind \in Decisive
          PROVE  r \in InFlight
      BY <1>5, <1>8, <2>2, <3>1
    <3>2. \A r \in InFlight' :
            /\ r.kind \in Decisive => r.to = sent
            /\ r.kind = "announce" => r.value = CurrentOffset
            /\ r.kind = "sync" => r.value - Skew \in begun..now
            /\ r.kind = "delay_response" => r.value - Skew \in times.t3..now
      <4> TAKE r \in InFlight'
      <4>1. CASE r.kind \in Decisive
        BY <2>1, <3>1, <4>1 DEF Recent
      <4>2. CASE r.kind \notin Decisive
        BY <4>2 DEF Decisive
      <4> QED BY <4>1, <4>2
    <3> QED BY <1>2, <3>2 DEF Recent
  <2> QED BY <2>5, <2>6
<1>11. ASSUME Running, q.kind # "description"
       PROVE  OneExchange' /\ Recent'
  <2>1. /\ pc \in DOMAIN Asking
        /\ q.kind = Asking[pc] /\ q.to = sent
        /\ \A kind \in Decisive : NoneOf(kind)
        /\ \A p \in requests' : p.kind = "description"
    BY <1>2, <1>11 DEF OneExchange
  <2>2. Running' /\ Due' = Due
    BY <1>2, <1>11 DEF Running, Due
  <2>3. \A i \in 1..Len(kinds) : kinds[i] \in Decisive => kinds[i] \in Due
    BY <1>4, <2>1 DEF Asking, Due
  <2>4. ASSUME NEW kind \in Decisive
        PROVE  AtMostOne(kind)' /\ (kind \notin Due' => NoneOf(kind)')
    <3>1. OfKind(replies, kind) = {} /\ OfKind(inbox', kind) = {}
      BY <1>2, <2>1 DEF NoneOf
    <3>2. \A j \in OfKind(replies', kind) :
            /\ j - Len(replies) \in 1..Len(kinds)
            /\ kinds[j - Len(replies)] = kind
            /\ j \in Int
      BY <1>9, <3>1
    <3>3. \A i, j \in OfKind(replies', kind) : i = j
      <4> TAKE i, j \in OfKind(replies', kind)
      <4>1. i - Len(replies) = j - Len(replies)
        BY <1>4, <3>2
      <4>2. i \in Int /\ j \in Int /\ Len(replies) \in Int
        BY <1>3, <3>2
      <4> QED BY <4>1, <4>2
    <3>4. kind \notin Due => OfKind(replies', kind) = {}
      BY <2>3, <3>2
    <3> QED BY <2>2, <3>1, <3>3, <3>4 DEF AtMostOne, NoneOf
  <2>5. OneExchange'
    BY <2>1, <2>4 DEF OneExchange
  <2>6. Recent'
    <3> SUFFICES ASSUME NEW r \in InFlight', r.kind \in Decisive
                 PROVE  /\ r.to = sent
                        /\ r.kind = "announce" => r.value = CurrentOffset
                        /\ r.kind = "sync" => r.value - Skew \in begun..now
                        /\ r.kind = "delay_response" =>
                             r.value - Skew \in times.t3..now
      BY <1>2 DEF Recent, Decisive
    <3>1. r \notin InFlight
      BY <2>1, NoneIsFew
    <3>2. PICK i \in 1..Len(kinds) : r = new[i]
      BY <1>8, <3>1
    <3>3. r.kind = kinds[i] /\ r.to = sent /\ r.value = value(r.kind)
      BY <1>5, <2>1, <3>2
    <3>4. begun <= now
      BY DEF Timeline
    <3>5. r.kind = "delay_response" => times.t3 <= now
      <4>1. r.kind = "delay_response" => pc = "delay_response"
        BY <2>3, <3>3 DEF Due
      <4> QED BY <1>3, <4>1 DEF Timeline
    <3> QED BY <1>3, <3>3, <3>4, <3>5
  <2> QED BY <2>5, <2>6
<1>12. OneExchange' /\ Recent'
  <2>1. ~Running => OneExchange' /\ Recent'
    BY <1>2 DEF Running, OneExchange, Recent
  <2> QED BY <1>10, <1>11, <2>1
<1>13. RoundsLeft' /\ Timeline' /\ OffsetKnown' /\ SyncAccuracy'
  BY <1>2 DEF RoundsLeft, Running, Timeline, OffsetKnown, SyncAccuracy
<1> QED BY <1>7, <1>12, <1>13

-----------------------------------------------------------------------------
(* The theorems. *)

\* No step of the client, the server, the network or time breaks the invariant.
LEMMA StepKeeps == IInv /\ [Next]_vars => IInv'
<1> SUFFICES ASSUME IInv, [Next]_vars PROVE IInv'
  OBVIOUS
<1>1. CASE Client
  BY <1>1, AskKeeps, DescriptionKeeps, TakeGrantKeeps, TakeAnnounceKeeps,
     TakeSyncKeeps, TakeDelayResponseKeeps, GivesUpKeeps DEF Client
<1>2. CASE \E q \in requests : ServerPoll(q)
  BY <1>2, ServerPollKeeps
<1>3. CASE Network
  BY <1>3, NetworkKeeps
<1>4. CASE Tick
  BY <1>4, TickKeeps
<1>5. CASE UNCHANGED vars
  BY <1>5, StutterKeeps
<1> QED BY <1>1, <1>2, <1>3, <1>4, <1>5 DEF Next

\* IInv holds in every reachable state: there is never more than one exchange
\* under way that could get the client on.
THEOREM ClientInvariant == Spec => []IInv
BY InitInvariant, StepKeeps, PTL DEF Spec

\* The state has its types, for every choice of the constants.
THEOREM ClientTypeCorrect == Spec => []TypeOK
<1>1. IInv => TypeOK
  BY DEF IInv
<1> QED BY ClientInvariant, <1>1, PTL

\* A result is as exact as the time it took allows.
THEOREM SyncAccuracyHolds == Spec => []SyncAccuracy
<1>1. IInv => SyncAccuracy
  BY DEF IInv
<1> QED BY ClientInvariant, <1>1, PTL

\* The time shown is within a second more of the clock's.
THEOREM TimeShownHolds == Spec => []TimeShown
<1>1. IInv => TimeShown
  <2> SUFFICES ASSUME IInv, result # None,
                      WholeSeconds \in (-HalfRange)..(HalfRange - 1)
               PROVE  2 * Abs(ShownError) < 2 * Second + result.span + Loss(result.span)
    BY DEF TimeShown
  <2>1. /\ offset = CurrentOffset * Second
        /\ 2 * Abs(result.error - Skew) <= result.span + Loss(result.span)
        /\ result.error \in Int /\ result.span \in Int
    BY DEF IInv, TypeOK, OffsetKnown, SyncAccuracy
  <2>2. Abs(offset - Offset) < Second /\ offset \in Int
    BY <2>1, OffsetInSeconds
  <2>3. Loss(result.span) \in Int
    <3>1. Abs(Skew) \in Int
      BY ClientAssumption DEF Abs
    <3> QED BY <2>1, <3>1, FloatAssumption DEF Loss
  <2>5. 2 * Abs((result.error + offset) - (Skew + Offset)) < 2 * Second + result.span + Loss(result.span)
    <3> DEFINE l == Loss(result.span)
               e == result.error
               sp == result.span
    <3>1. l \in Int /\ e \in Int /\ sp \in Int /\ 2 * Abs(e - Skew) <= sp + l
      BY <2>1, <2>3
    <3> HIDE DEF l, e, sp
    <3>2. 2 * Abs((e + offset) - (Skew + Offset)) < 2 * Second + sp + l
      BY ONLY <3>1, <2>2, ClientAssumption DEF Abs
    <3> QED BY <3>2 DEF l, e, sp
  <2> QED BY <2>5 DEF ShownError
<1> QED BY ClientInvariant, <1>1, PTL

\* What gets the client on is an answer to its last request.
THEOREM OwnAnswersHolds == Spec => OwnAnswers
<1> DEFINE A == (Receive /\ pc # "description" /\ pc' # "failed") =>
                  Head(inbox).to = sent
<1>1. IInv /\ [Next]_vars => [A]_vars
  <2> SUFFICES ASSUME IInv, Next, Receive, pc # "description", pc' # "failed"
               PROVE  Head(inbox).to = sent
    OBVIOUS
  <2>1. inbox \in Seq(Reply) /\ inbox # <<>> /\ Len(inbox') = Len(inbox) - 1
        /\ Len(inbox) \in Nat
    BY DEF IInv, TypeOK, Receive
  <2>2. CASE Client
    <3>1. ~(AskDescription \/ AskAnnounce \/ AskSync \/ AskDelay)
      BY <2>1 DEF AskDescription, AskAnnounce, AskSync, AskDelay, Send
    <3>2. ~(TakeDescription \/ DescriptionFails \/ GivesUp)
      BY DEF TakeDescription, DescriptionFails, GivesUp
    <3> QED BY <2>2, <3>1, <3>2, TakeGrantKeeps, TakeAnnounceKeeps,
               TakeSyncKeeps, TakeDelayResponseKeeps DEF Client
  <2>3. ASSUME NEW q \in requests, ServerPoll(q) PROVE FALSE
    BY <2>1, <2>3 DEF ServerPoll
  <2>4. ASSUME NEW i \in 1..Len(replies), Deliver(i) PROVE FALSE
    <3>1. inbox' = Append(inbox, replies[i])
      BY <2>4 DEF Deliver
    <3>2. Len(inbox') = Len(inbox) + 1
      BY <2>1, <3>1
    <3> QED BY <2>1, <3>2
  <2>5. ASSUME NEW i \in 1..Len(replies), LoseReply(i) PROVE FALSE
    BY <2>1, <2>5 DEF LoseReply
  <2>6. ASSUME NEW q \in requests, LoseRequest(q) PROVE FALSE
    BY <2>1, <2>6 DEF LoseRequest
  <2>7. ~Tick
    BY <2>1 DEF Tick
  <2> QED BY <2>2, <2>3, <2>4, <2>5, <2>6, <2>7 DEF Next, Network
<1> QED BY ClientInvariant, <1>1, PTL DEF Spec, OwnAnswers

-----------------------------------------------------------------------------
(* How long the client runs: what ClientEnds rests on besides fairness. *)

\* A bound on the steps of the client until it is done, from where it is, the
\* synchronisations still to do and the policy still to try.
TurnsLeft ==
  LET turns(n) == n + 5 * (Syncs - round - 1) + IF policy = "hmac" THEN 2 ELSE 0
  IN CASE pc = "ask_description" -> turns(10)
       [] pc = "description"     -> turns(9)
       [] pc = "ask_announce"    -> turns(8)
       [] pc = "announce_grant"  -> turns(7)
       [] pc = "announce"        -> turns(6)
       [] pc = "ask_sync"        -> turns(5)
       [] pc = "sync_grant"      -> turns(4)
       [] pc = "sync"            -> turns(3)
       [] pc = "ask_delay"       -> turns(2)
       [] pc = "delay_response"  -> turns(1)
       [] OTHER                  -> 0

LEMMA TurnsBounded ==
  ASSUME TypeOK, RoundsLeft
  PROVE  /\ TurnsLeft \in 0..(5 * Syncs + 7)
         /\ TurnsLeft = 0 <=> ~Running
<1>1. /\ round \in 0..Syncs /\ Syncs \in Nat \ {0}
      /\ pc \in Control /\ policy \in {"hmac", "plain"}
      /\ Running => round < Syncs
  BY ClientAssumption DEF TypeOK, Policy, RoundsLeft
<1>2. CASE Running
  <2>1. \E n \in 1..10 : TurnsLeft = n + 5 * (Syncs - round - 1)
                                      + IF policy = "hmac" THEN 2 ELSE 0
    BY <1>1, <1>2 DEF TurnsLeft, Running, Control, Waiting
  <2>2. 5 * (Syncs - round - 1) \in 0..(5 * Syncs - 5)
    BY <1>1, <1>2
  <2> QED BY <1>1, <1>2, <2>1, <2>2
<1>3. CASE ~Running
  <2>1. TurnsLeft = 0
    BY <1>3 DEF TurnsLeft, Running
  <2>2. 0 \in 0..(5 * Syncs + 7)
    BY <1>1
  <2> QED BY <1>3, <2>1, <2>2
<1> QED BY <1>2, <1>3

\* Every step of the client is one turn less: it asks on, takes a reply and goes
\* on, tries the other policy once, or gives up.
LEMMA ClientTurns ==
  ASSUME TypeOK, RoundsLeft, Client
  PROVE  TurnsLeft' < TurnsLeft
<1>1. /\ round \in 0..Syncs /\ Syncs \in Nat
      /\ policy \in {"hmac", "plain"}
      /\ Running => round < Syncs
  BY ClientAssumption DEF TypeOK, Policy, RoundsLeft
<1>2. CASE AskDescription \/ AskAnnounce \/ AskSync \/ AskDelay
  BY <1>1, <1>2
     DEF AskDescription, AskAnnounce, AskSync, AskDelay, TurnsLeft
<1>3. CASE TakeDescription \/ TakeGrant \/ TakeAnnounce \/ TakeSync
  BY <1>1, <1>3
     DEF TakeDescription, TakeGrant, TakeAnnounce, TakeSync, TurnsLeft
<1>4. CASE DescriptionFails
  BY <1>1, <1>4 DEF DescriptionFails, TurnsLeft, Running
<1>5. CASE TakeDelayResponse
  BY <1>1, <1>5 DEF TakeDelayResponse, TurnsLeft, Running
<1>6. CASE GivesUp
  BY <1>1, <1>6 DEF GivesUp, TurnsLeft, Running, Waiting
<1> QED BY <1>2, <1>3, <1>4, <1>5, <1>6 DEF Client

\* The client makes at most 5 * Syncs + 7 steps, whatever network and server do;
\* it asks for a description twice and for nothing else again.
THEOREM ClientBounded ==
  Spec => /\ [](TurnsLeft \in 0..(5 * Syncs + 7) /\ (TurnsLeft = 0 <=> ~Running))
          /\ [][IF Client THEN TurnsLeft' < TurnsLeft
                          ELSE TurnsLeft' = TurnsLeft]_vars
<1>1. IInv => TurnsLeft \in 0..(5 * Syncs + 7) /\ (TurnsLeft = 0 <=> ~Running)
  BY TurnsBounded DEF IInv
<1>2. IInv /\ [Next]_vars =>
        [IF Client THEN TurnsLeft' < TurnsLeft ELSE TurnsLeft' = TurnsLeft]_vars
  <2>1. IInv /\ Client => TurnsLeft' < TurnsLeft
    BY ClientTurns DEF IInv
  <2>2. Next /\ ~Client => UNCHANGED <<pc, policy, round>>
    BY DEF Next, ServerPoll, Network, Deliver, LoseReply, LoseRequest, Tick
  <2>3. UNCHANGED <<pc, policy, round>> => TurnsLeft' = TurnsLeft
    BY DEF TurnsLeft
  <2> QED BY <2>1, <2>2, <2>3
<1> QED BY ClientInvariant, <1>1, <1>2, PTL DEF Spec

-----------------------------------------------------------------------------
(* What the client gets from a network that works: what ReliableSucceeds      *)
(* rests on besides fairness.                                                 *)

\* The replies that have not been taken, in the order in which they will be.
Coming == inbox \o replies

OfKinds(s, kinds) ==
  Len(s) = Len(kinds) /\ \A i \in 1..Len(kinds) : s[i].kind = kinds[i]

\* What the client asked for last, and the replies to it that are to come.
AskedFor == CASE pc = "description"    -> "description"
              [] pc = "announce_grant" -> "announce"
              [] pc = "sync_grant"     -> "sync"
              [] pc = "delay_response" -> "delay"
              [] OTHER                 -> "nothing"

Expecting == CASE pc = "description"    -> IF Admits(policy) THEN <<"description">>
                                                             ELSE <<"error">>
               [] pc = "announce_grant" -> <<"grant", "announce">>
               [] pc = "announce"       -> <<"announce">>
               [] pc = "sync_grant"     -> <<"grant", "sync">>
               [] pc = "sync"           -> <<"sync">>
               [] pc = "delay_response" -> <<"delay_response">>
               [] OTHER                 -> <<>>

\* Either the request is on its way and nothing else, or the replies to it are,
\* in the order in which the client takes them.  Behind the description the
\* policy is one the clock admits.
InStep ==
  setting.reliable =>
    /\ pc # "failed"
    /\ pc \in {"ask_description", "description"} \/ Admits(policy)
    /\ policy = "plain" => Admits(policy)
    /\ \/ requests = {} /\ OfKinds(Coming, Expecting)
       \/ /\ OfKinds(Coming, <<>>)
          /\ \E q \in Request : /\ requests = {q}
                                /\ q.kind = AskedFor /\ q.policy = policy

\* A sequence behind another.
LEMMA Behind ==
  ASSUME NEW S, NEW s \in Seq(S), NEW t \in Seq(S)
  PROVE  /\ s \o t \in Seq(S)
         /\ Len(s \o t) = Len(s) + Len(t)
         /\ \A i \in 1..Len(s) : (s \o t)[i] = s[i]
         /\ \A i \in 1..Len(t) : (s \o t)[Len(s) + i] = t[i]
OBVIOUS

\* What the client takes is the first of them.
LEMMA ComingTaken ==
  ASSUME TypeOK, Receive, replies' = replies,
         NEW kinds \in Seq(ReplyKind), OfKinds(Coming, kinds)
  PROVE  /\ Len(kinds) >= 1
         /\ Head(inbox).kind = kinds[1]
         /\ Len(Coming') = Len(kinds) - 1
         /\ \A i \in 1..(Len(kinds) - 1) : Coming'[i].kind = kinds[i + 1]
<1>1. /\ inbox \in Seq(Reply) /\ replies \in Seq(Reply)
      /\ inbox # <<>> /\ inbox' = Tail(inbox)
      /\ Len(kinds) \in Nat
  BY DEF TypeOK, Receive
<1>2. /\ Len(inbox) \in Nat /\ Len(inbox) >= 1 /\ Len(replies) \in Nat
      /\ Head(inbox) = inbox[1]
      /\ inbox' \in Seq(Reply) /\ Len(inbox') = Len(inbox) - 1
      /\ \A i \in 1..(Len(inbox) - 1) : inbox'[i] = inbox[i + 1]
  BY <1>1
<1>3. /\ Len(Coming) = Len(inbox) + Len(replies)
      /\ \A i \in 1..Len(inbox) : Coming[i] = inbox[i]
      /\ \A i \in 1..Len(replies) : Coming[Len(inbox) + i] = replies[i]
  BY <1>1, Behind DEF Coming
<1>4. /\ Len(Coming') = Len(inbox') + Len(replies)
      /\ \A i \in 1..Len(inbox') : Coming'[i] = inbox'[i]
      /\ \A i \in 1..Len(replies) : Coming'[Len(inbox') + i] = replies[i]
  <2>1. Coming' = inbox' \o replies
    BY DEF Coming
  <2> QED BY <1>1, <1>2, <2>1, Behind
<1>5. Len(kinds) = Len(Coming) /\ \A i \in 1..Len(kinds) : Coming[i].kind = kinds[i]
  BY DEF OfKinds
<1>6. ASSUME NEW i \in 1..(Len(kinds) - 1)
      PROVE  Coming'[i] = Coming[i + 1]
  <2>1. CASE i <= Len(inbox) - 1
    <3>1. i \in 1..Len(inbox') /\ i + 1 \in 1..Len(inbox)
          /\ i \in 1..(Len(inbox) - 1)
      BY <1>2, <2>1
    <3> QED BY <1>2, <1>3, <1>4, <3>1
  <2>2. CASE i > Len(inbox) - 1
    <3> DEFINE j == i - (Len(inbox) - 1)
    <3>1. /\ j \in 1..Len(replies)
          /\ i = Len(inbox') + j /\ i + 1 = Len(inbox) + j
      BY <1>1, <1>2, <1>3, <1>5, <2>2
    <3> HIDE DEF j
    <3>2. Coming'[Len(inbox') + j] = replies[j] /\ Coming[Len(inbox) + j] = replies[j]
      BY <1>3, <1>4, <3>1
    <3> QED BY <3>1, <3>2
  <2>3. i <= Len(inbox) - 1 \/ i > Len(inbox) - 1
    BY <1>2
  <2> QED BY <2>1, <2>2, <2>3
<1>7. Len(kinds) >= 1 /\ 1 \in 1..Len(kinds) /\ 1 \in 1..Len(inbox)
  BY <1>1, <1>2, <1>3, <1>5
<1>8. \A i \in 1..(Len(kinds) - 1) : i + 1 \in 1..Len(kinds)
  BY <1>1
<1> QED BY <1>2, <1>3, <1>4, <1>5, <1>6, <1>7, <1>8

LEMMA SomethingCame ==
  ASSUME TypeOK, Receive
  PROVE  ~OfKinds(Coming, <<>>)
<1>1. /\ inbox \in Seq(Reply) /\ replies \in Seq(Reply)
      /\ Len(inbox) \in Nat \ {0} /\ Len(replies) \in Nat
  BY DEF TypeOK, Receive
<1>2. Len(Coming) = Len(inbox) + Len(replies)
  BY <1>1, Behind DEF Coming
<1>3. Len(Coming) # 0
  BY <1>1, <1>2
<1> QED BY <1>3 DEF OfKinds

\* A reliable network delivers the first reply that was sent: the order stays.
LEMMA ComingDelivered ==
  ASSUME TypeOK, Deliver(1), NEW kinds \in Seq(ReplyKind), OfKinds(Coming, kinds)
  PROVE  OfKinds(Coming', kinds)
<1>1. /\ inbox \in Seq(Reply) /\ replies \in Seq(Reply)
      /\ 1 \in 1..Len(replies)
      /\ inbox' = Append(inbox, replies[1])
      /\ replies' = RemoveAt(replies, 1)
      /\ Len(kinds) \in Nat
  BY DEF TypeOK, Deliver
<1>2. /\ Len(inbox) \in Nat /\ Len(replies) \in Nat /\ Len(replies) >= 1
      /\ inbox' \in Seq(Reply) /\ Len(inbox') = Len(inbox) + 1
      /\ \A i \in 1..Len(inbox) : inbox'[i] = inbox[i]
      /\ inbox'[Len(inbox) + 1] = replies[1]
  BY <1>1
<1>3. /\ replies' \in Seq(Reply) /\ Len(replies') = Len(replies) - 1
      /\ \A i \in 1..(Len(replies) - 1) : replies'[i] = replies[i + 1]
  <2>1. /\ RemoveAt(replies, 1) \in Seq(Reply)
        /\ Len(RemoveAt(replies, 1)) = Len(replies) - 1
        /\ \A j \in 1..(Len(replies) - 1) :
             RemoveAt(replies, 1)[j] = IF j < 1 THEN replies[j] ELSE replies[j + 1]
    BY <1>1, Removed
  <2>2. replies' = RemoveAt(replies, 1)
    BY <1>1
  <2>3. \A j \in 1..(Len(replies) - 1) : ~(j < 1)
    BY <1>2
  <2> HIDE DEF RemoveAt
  <2> QED BY <2>1, <2>2, <2>3
<1>4. /\ Len(Coming) = Len(inbox) + Len(replies)
      /\ \A i \in 1..Len(inbox) : Coming[i] = inbox[i]
      /\ \A i \in 1..Len(replies) : Coming[Len(inbox) + i] = replies[i]
  BY <1>1, Behind DEF Coming
<1>5. /\ Len(Coming') = Len(inbox') + Len(replies')
      /\ \A i \in 1..Len(inbox') : Coming'[i] = inbox'[i]
      /\ \A i \in 1..Len(replies') : Coming'[Len(inbox') + i] = replies'[i]
  <2>1. Coming' = inbox' \o replies'
    BY DEF Coming
  <2>2. inbox' \in Seq(Reply) /\ replies' \in Seq(Reply)
    BY <1>2, <1>3
  <2> QED BY <2>1, <2>2, Behind
<1>6. ASSUME NEW i \in 1..Len(Coming)
      PROVE  Coming'[i] = Coming[i]
  <2>1. CASE i <= Len(inbox)
    <3>1. i \in 1..Len(inbox) /\ i \in 1..Len(inbox')
      BY <1>2, <2>1
    <3> QED BY <1>2, <1>4, <1>5, <3>1
  <2>2. CASE i = Len(inbox) + 1
    <3>1. i \in 1..Len(inbox') /\ 1 \in 1..Len(replies)
      BY <1>2, <2>2
    <3> QED BY <1>2, <1>4, <1>5, <2>2, <3>1
  <2>3. CASE i > Len(inbox) + 1
    <3> DEFINE j == i - (Len(inbox) + 1)
    <3>1. /\ j \in 1..(Len(replies) - 1) /\ j + 1 \in 1..Len(replies)
          /\ i = Len(inbox') + j /\ i = Len(inbox) + (j + 1)
      BY <1>2, <1>4, <2>3
    <3> HIDE DEF j
    <3>2. /\ replies'[j] = replies[j + 1] /\ j \in 1..Len(replies')
          /\ Coming[Len(inbox) + (j + 1)] = replies[j + 1]
      BY <1>3, <1>4, <3>1
    <3>3. Coming'[Len(inbox') + j] = replies'[j]
      BY <1>5, <3>2
    <3> QED BY <3>1, <3>2, <3>3
  <2>4. i <= Len(inbox) \/ i = Len(inbox) + 1 \/ i > Len(inbox) + 1
    BY <1>2
  <2> QED BY <2>1, <2>2, <2>3, <2>4
<1>7. Len(Coming') = Len(Coming)
  BY <1>2, <1>3, <1>4, <1>5
<1> QED BY <1>6, <1>7 DEF OfKinds

\* The replies to a poll are all that is to come, if nothing was.
LEMMA ComingPolled ==
  ASSUME TypeOK, OfKinds(Coming, <<>>), inbox' = inbox, replies' \in Seq(Reply),
         NEW kinds \in Seq(ReplyKind), NEW new \in Seq(Reply),
         OfKinds(new, kinds), replies' = replies \o new
  PROVE  OfKinds(Coming', kinds)
<1>1. /\ inbox \in Seq(Reply) /\ replies \in Seq(Reply)
      /\ Len(inbox) + Len(replies) = 0
  BY Behind DEF TypeOK, OfKinds, Coming
<1>2. /\ Len(inbox) = 0 /\ Len(replies) = 0
  BY <1>1
<1>3. Coming' = inbox \o (replies \o new)
  BY DEF Coming
<1>4. /\ replies \o new \in Seq(Reply)
      /\ Len(replies \o new) = Len(new)
      /\ \A i \in 1..Len(new) : (replies \o new)[i] = new[i]
  <2>1. /\ replies \o new \in Seq(Reply)
        /\ Len(replies \o new) = 0 + Len(new)
        /\ \A i \in 1..Len(new) : (replies \o new)[0 + i] = new[i]
    BY <1>1, <1>2, Behind
  <2> QED BY <2>1
<1>5. /\ Len(Coming') = Len(new)
      /\ \A i \in 1..Len(new) : Coming'[i] = new[i]
  <2>1. /\ Len(Coming') = 0 + Len(replies \o new)
        /\ \A i \in 1..Len(replies \o new) :
             Coming'[0 + i] = (replies \o new)[i]
    BY <1>1, <1>2, <1>3, <1>4, Behind
  <2> QED BY <1>4, <2>1
<1> QED BY <1>5 DEF OfKinds

\* The parts of InStep on a reliable network.
LEMMA InStepParts ==
  ASSUME TypeOK, InStep, setting.reliable
  PROVE  /\ pc \in Control \ {"failed"} /\ policy \in Policy
         /\ setting.policy \in {"none", "plain", "hmac"}
         /\ Expecting \in Seq(ReplyKind)
         /\ \/ requests = {} /\ OfKinds(Coming, Expecting)
            \/ OfKinds(Coming, <<>>)
         /\ pc \notin {"description", "announce_grant", "sync_grant",
                       "delay_response"} =>
              requests = {} /\ OfKinds(Coming, Expecting)
         /\ Expecting = <<>> => OfKinds(Coming, <<>>)
<1>1. /\ pc \in Control \ {"failed"} /\ policy \in Policy
      /\ setting.policy \in {"none", "plain", "hmac"}
  BY ClientAssumption DEF TypeOK, InStep
<1>2. /\ <<>> \in Seq(ReplyKind) /\ <<"description">> \in Seq(ReplyKind)
      /\ <<"error">> \in Seq(ReplyKind) /\ <<"grant", "announce">> \in Seq(ReplyKind)
      /\ <<"announce">> \in Seq(ReplyKind) /\ <<"grant", "sync">> \in Seq(ReplyKind)
      /\ <<"sync">> \in Seq(ReplyKind) /\ <<"delay_response">> \in Seq(ReplyKind)
  <2>1. <<>> \in Seq(ReplyKind)
    OBVIOUS
  <2>2. ASSUME NEW a \in ReplyKind PROVE <<a>> \in Seq(ReplyKind)
    OBVIOUS
  <2>3. ASSUME NEW a \in ReplyKind, NEW b \in ReplyKind PROVE <<a, b>> \in Seq(ReplyKind)
    OBVIOUS
  <2>4. /\ "description" \in ReplyKind /\ "error" \in ReplyKind /\ "grant" \in ReplyKind
        /\ "announce" \in ReplyKind /\ "sync" \in ReplyKind
        /\ "delay_response" \in ReplyKind
    BY DEF ReplyKind
  <2> QED BY <2>1, <2>2, <2>3, <2>4, Zenon
<1>3. Expecting \in Seq(ReplyKind)
  BY <1>2, Zenon DEF Expecting
<1>4. /\ \/ requests = {} /\ OfKinds(Coming, Expecting)
         \/ OfKinds(Coming, <<>>)
      /\ pc \notin {"description", "announce_grant", "sync_grant",
                    "delay_response"} =>
           requests = {} /\ OfKinds(Coming, Expecting)
  BY DEF InStep, AskedFor, Request, RequestKind
<1>5. Expecting = <<>> => OfKinds(Coming, <<>>)
  BY <1>4
<1> QED BY <1>1, <1>3, <1>4, <1>5

\* Requests.
LEMMA InStepAsk ==
  ASSUME TypeOK, TypeOK', InStep, setting.reliable, setting' = setting,
         AskDescription \/ AskAnnounce \/ AskSync \/ AskDelay
  PROVE  InStep'
<1>1. /\ pc \in {"ask_description", "ask_announce", "ask_sync", "ask_delay"}
      /\ policy' = policy /\ inbox' = inbox /\ replies' = replies
  BY DEF AskDescription, AskAnnounce, AskSync, AskDelay, Send
<1>2. requests = {} /\ OfKinds(Coming, <<>>)
  BY <1>1, InStepParts DEF Expecting
<1>3. OfKinds(Coming', <<>>)
  BY <1>1, <1>2 DEF Coming
<1>4. \E q \in Request : /\ requests' = {q}
                         /\ q.kind = AskedFor' /\ q.policy = policy'
  <2> DEFINE q(kind) == [kind |-> kind, to |-> sent + 1, policy |-> policy]
  <2>1. requests' = {q(AskedFor')} /\ AskedFor' \in RequestKind
    BY <1>2 DEF AskDescription, AskAnnounce, AskSync, AskDelay, Send, AskedFor,
                RequestKind
  <2>2. q(AskedFor') \in Request
    BY <2>1 DEF TypeOK, Request
  <2>3. /\ q(AskedFor').kind = AskedFor'
        /\ q(AskedFor').policy = policy'
    BY <1>1
  <2> HIDE DEF q
  <2> QED BY <2>1, <2>2, <2>3
<1>5. /\ pc' # "failed"
      /\ pc' \in {"ask_description", "description"} \/ Admits(policy)
      /\ policy = "plain" => Admits(policy)
  BY DEF InStep, AskDescription, AskAnnounce, AskSync, AskDelay
<1>6. Admits(policy)' <=> Admits(policy)
  BY <1>1 DEF Admits
<1> QED BY <1>1, <1>3, <1>4, <1>5, <1>6 DEF InStep

\* A reply that is expected gets the client on to expect the next.
LEMMA InStepTake ==
  ASSUME TypeOK, TypeOK', InStep, setting.reliable, setting' = setting,
         \/ TakeDescription \/ TakeGrant \/ TakeAnnounce \/ TakeSync
         \/ TakeDelayResponse
  PROVE  InStep'
<1>1. /\ Receive /\ policy' = policy /\ replies' = replies
      /\ requests' = requests
      /\ pc \in {"description", "announce_grant", "announce", "sync_grant",
                 "sync", "delay_response"}
      /\ pc = "description" => Head(inbox).kind = "description"
  BY DEF TakeDescription, TakeGrant, TakeAnnounce, TakeSync, TakeDelayResponse,
         Received
<1>2. ~OfKinds(Coming, <<>>)
  BY <1>1, SomethingCame
<1>3. requests = {} /\ OfKinds(Coming, Expecting)
      /\ Expecting \in Seq(ReplyKind)
  BY <1>2, InStepParts
<1>4. /\ Head(inbox).kind = Expecting[1]
      /\ Len(Coming') = Len(Expecting) - 1
      /\ \A i \in 1..(Len(Expecting) - 1) : Coming'[i].kind = Expecting[i + 1]
  BY <1>1, <1>3, ComingTaken
<1>5. OfKinds(Coming', Expecting')
  <2>1. CASE TakeDescription \/ TakeAnnounce \/ TakeSync \/ TakeDelayResponse
    <3>1. Len(Expecting) = 1 /\ Expecting' = <<>>
      BY <2>1 DEF Expecting, TakeDescription, TakeAnnounce, TakeSync,
                  TakeDelayResponse
    <3> QED BY <1>4, <3>1 DEF OfKinds
  <2>2. CASE TakeGrant /\ pc = "announce_grant"
    <3>1. Expecting = <<"grant", "announce">> /\ Expecting' = <<"announce">>
      BY <2>2 DEF Expecting, TakeGrant
    <3> QED BY <1>4, <3>1 DEF OfKinds
  <2>3. CASE TakeGrant /\ pc = "sync_grant"
    <3>1. Expecting = <<"grant", "sync">> /\ Expecting' = <<"sync">>
      BY <2>3 DEF Expecting, TakeGrant
    <3> QED BY <1>4, <3>1 DEF OfKinds
  <2> QED BY <2>1, <2>2, <2>3 DEF TakeGrant
<1>6. Admits(policy)
  <2>1. pc = "description" => Admits(policy)
    <3>1. pc = "description" /\ ~Admits(policy) => Expecting[1] = "error"
      BY DEF Expecting
    <3> QED BY <1>1, <1>4, <3>1
  <2> QED BY <1>1, <2>1 DEF InStep
<1>7. Admits(policy)' <=> Admits(policy)
  BY <1>1 DEF Admits
<1>8. pc' # "failed"
  BY DEF TakeDescription, TakeGrant, TakeAnnounce, TakeSync, TakeDelayResponse
<1> QED BY <1>1, <1>3, <1>5, <1>6, <1>7, <1>8 DEF InStep

\* The clock refuses a description only for its policy, and then admits the
\* other one.
LEMMA InStepFails ==
  ASSUME TypeOK, TypeOK', InStep, setting.reliable, setting' = setting,
         DescriptionFails
  PROVE  InStep'
<1>1. /\ Receive /\ replies' = replies /\ requests' = requests
      /\ pc = "description" /\ Head(inbox).kind # "description"
      /\ policy' = "plain"
      /\ pc' = IF policy = "hmac" THEN "ask_description" ELSE "failed"
  BY DEF DescriptionFails, Unexpected, Timeout
<1>2. ~OfKinds(Coming, <<>>)
  BY <1>1, SomethingCame
<1>3. requests = {} /\ OfKinds(Coming, Expecting)
      /\ Expecting \in Seq(ReplyKind)
  BY <1>2, InStepParts
<1>4. /\ Head(inbox).kind = Expecting[1]
      /\ Len(Coming') = Len(Expecting) - 1
  BY <1>1, <1>3, ComingTaken
<1>5. ~Admits(policy) /\ Len(Expecting) = 1
  BY <1>1, <1>4 DEF Expecting
<1>6. policy = "hmac" /\ setting.policy = "plain"
  BY <1>5, InStepParts DEF InStep, Admits, Policy
<1>7. pc' = "ask_description" /\ Expecting' = <<>>
  BY <1>1, <1>6 DEF Expecting
<1>8. OfKinds(Coming', Expecting')
  BY <1>4, <1>5, <1>7 DEF OfKinds
<1>9. Admits(policy)'
  BY <1>1, <1>6 DEF Admits
<1> QED BY <1>1, <1>3, <1>7, <1>8, <1>9 DEF InStep

\* Nothing unexpected comes.
LEMMA InStepGivesUp ==
  ASSUME TypeOK, InStep, setting.reliable, GivesUp
  PROVE  FALSE
<1>1. /\ Receive /\ replies' = replies
      /\ pc \in Waiting \ {"description"}
      /\ Head(inbox).kind # Expected[pc]
  BY DEF GivesUp, Unexpected, Timeout
<1>2. ~OfKinds(Coming, <<>>)
  BY <1>1, SomethingCame
<1>3. OfKinds(Coming, Expecting) /\ Expecting \in Seq(ReplyKind)
  BY <1>2, InStepParts
<1>4. Head(inbox).kind = Expecting[1]
  BY <1>1, <1>3, ComingTaken
<1>5. Expecting[1] = Expected[pc]
  BY <1>1 DEF Expecting, Expected, Waiting
<1> QED BY <1>1, <1>4, <1>5

\* The server admits the request, except for a description it must refuse, and
\* sends what the client expects.
LEMMA InStepPoll ==
  ASSUME TypeOK, TypeOK', InStep, setting.reliable,
         NEW q \in requests, ServerPoll(q)
  PROVE  InStep'
<1> DEFINE value(kind) == IF kind = "announce" THEN CurrentOffset ELSE now + Skew
           New(kinds) == [i \in 1..Len(kinds) |-> [kind |-> kinds[i], to |-> q.to,
                                                   value |-> value(kinds[i])]]
<1>1. PICK kinds \in Answers(q) : replies' = replies \o New(kinds)
  BY DEF ServerPoll
<1>2. /\ requests' = requests \ {q}
      /\ UNCHANGED <<setting, pc, policy, inbox>>
  BY DEF ServerPoll
<1>3. /\ OfKinds(Coming, <<>>)
      /\ requests = {q} /\ q \in Request
      /\ q.kind = AskedFor /\ q.policy = policy
  BY DEF InStep
<1>4. /\ pc \in {"ask_description", "description"} \/ Admits(policy)
      /\ q.kind # "description" => Admits(policy)
  BY <1>3 DEF InStep, AskedFor, Request, RequestKind
<1>5. kinds = Expecting
  BY <1>1, <1>3, <1>4
     DEF Answers, AskedFor, Expecting, Request, RequestKind
<1>6. kinds \in Seq(ReplyKind)
  BY <1>1, <1>3, AnswersOnce
<1>7. New(kinds) \in Seq(Reply) /\ OfKinds(New(kinds), kinds)
  <2>1. now + Skew \in Int /\ CurrentOffset \in Int /\ q.to \in Nat
    BY <1>3, OffsetInSeconds, ClientAssumption DEF TypeOK, Request
  <2>2. \A i \in 1..Len(kinds) :
          [kind |-> kinds[i], to |-> q.to, value |-> value(kinds[i])] \in Reply
    BY <1>6, <2>1 DEF Reply
  <2>3. New(kinds) \in Seq(Reply) /\ Len(New(kinds)) = Len(kinds)
    BY <1>6, <2>2
  <2> QED BY <1>6, <2>3 DEF OfKinds
<1> HIDE DEF New
<1>8. OfKinds(Coming', kinds)
  BY <1>1, <1>2, <1>3, <1>6, <1>7, ComingPolled DEF TypeOK
<1>9. Expecting' = Expecting /\ (Admits(policy)' <=> Admits(policy))
  BY <1>2 DEF Expecting, Admits
<1>10. requests' = {}
  BY <1>2, <1>3
<1> QED BY <1>2, <1>5, <1>8, <1>9, <1>10 DEF InStep

\* Network and time.
LEMMA InStepNetwork ==
  ASSUME TypeOK, InStep, setting.reliable, Network \/ Tick
  PROVE  InStep'
<1>1. UNCHANGED <<setting, pc, policy, requests>>
  BY DEF Network, Deliver, LoseReply, LoseRequest, Tick
<1>2. ASSUME NEW kinds \in Seq(ReplyKind), OfKinds(Coming, kinds)
      PROVE  OfKinds(Coming', kinds)
  <2>1. CASE Tick
    BY <1>2, <2>1 DEF Tick, Coming
  <2>2. CASE Network
    <3>1. Deliver(1)
      BY <2>2 DEF Network, Deliver, LoseReply, LoseRequest
    <3> QED BY <1>2, <3>1, ComingDelivered
  <2> QED BY <2>1, <2>2
<1>3. /\ OfKinds(Coming, Expecting) => OfKinds(Coming', Expecting)
      /\ OfKinds(Coming, <<>>) => OfKinds(Coming', <<>>)
  <2>1. <<>> \in Seq(ReplyKind) /\ Expecting \in Seq(ReplyKind)
    BY InStepParts
  <2> QED BY <1>2, <2>1
<1>4. /\ Expecting' = Expecting /\ AskedFor' = AskedFor
      /\ Admits(policy)' <=> Admits(policy)
  BY <1>1 DEF Expecting, AskedFor, Admits
<1> QED BY <1>1, <1>3, <1>4 DEF InStep

\* On a reliable network, with a server that answers, the client never fails:
\* it tries the policy the clock has, and the replies come in the order in which
\* it takes them.
THEOREM ReliableNeverFails == Spec => [](setting.reliable => pc # "failed")
<1>1. Init => InStep
  <2>1. Init => /\ requests = {} /\ Coming = <<>> /\ Expecting = <<>>
                /\ pc = "ask_description" /\ policy = "hmac"
    BY DEF Init, Coming, Expecting
  <2>2. OfKinds(<<>>, <<>>)
    BY DEF OfKinds
  <2> QED BY <2>1, <2>2 DEF InStep
<1>2. IInv /\ IInv' /\ InStep /\ [Next]_vars => InStep'
  <2> SUFFICES ASSUME TypeOK, TypeOK', InStep, [Next]_vars
               PROVE  InStep'
    BY DEF IInv
  <2>1. setting' = setting
    BY DEF Next, Client, ServerPoll, Network, Deliver, LoseReply, LoseRequest,
           Tick, vars
  <2>2. CASE ~setting.reliable
    BY <2>1, <2>2 DEF InStep
  <2>3. CASE setting.reliable
    <3>1. CASE Client
      BY <2>1, <2>3, <3>1, InStepAsk, InStepTake, InStepFails, InStepGivesUp
         DEF Client
    <3>2. CASE \E q \in requests : ServerPoll(q)
      BY <2>3, <3>2, InStepPoll
    <3>3. CASE Network \/ Tick
      BY <2>3, <3>3, InStepNetwork
    <3>4. CASE UNCHANGED vars
      <4>1. /\ Coming' = Coming /\ Expecting' = Expecting
            /\ AskedFor' = AskedFor /\ requests' = requests
            /\ pc' = pc /\ policy' = policy
            /\ Admits(policy)' <=> Admits(policy)
        BY <3>4 DEF vars, Coming, Expecting, AskedFor, Admits
      <4> QED BY <2>1, <4>1 DEF InStep
    <3> QED BY <3>1, <3>2, <3>3, <3>4 DEF Next
  <2> QED BY <2>2, <2>3
<1>3. InStep => (setting.reliable => pc # "failed")
  BY DEF InStep
<1> QED BY <1>1, <1>2, <1>3, ClientInvariant, PTL DEF Spec
=============================================================================
