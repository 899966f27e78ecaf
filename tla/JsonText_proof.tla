---------------------------- MODULE JsonText_proof ----------------------------
(***************************************************************************)
(* Proofs about JsonText, for values and texts of every size and depth and *)
(* for every base: whatever is allocated is freed, once, whichever         *)
(* allocation fails; and what is written is the text of the value, and     *)
(* uses the buffer to its last byte.                                       *)
(***************************************************************************)
EXTENDS JsonText, SequenceTheorems, FiniteSetTheorems, NaturalsInduction, WellFoundedInduction, TLAPS

-----------------------------------------------------------------------------
(* Arithmetic and sequences. *)

\* A set of numbers has a least one.
LEMMA LeastNumber ==
  ASSUME NEW S, S \subseteq Nat, S # {}
  PROVE  \E x \in S : \A y \in S : x <= y
<1> DEFINE R == OpToRel(<, Nat)
<1>1. PICK x \in S : \A y \in S : ~ (<<y, x>> \in R)
  <2>1. IsWellFoundedOn(R, Nat)
    BY NatLessThanWellFounded
  <2> HIDE DEF R
  <2> QED BY <2>1, WFMin
<1>2. \A y \in S : x <= y
  <2> SUFFICES ASSUME NEW y \in S PROVE x <= y
    OBVIOUS
  <2>1. ~(y < x)
    BY <1>1 DEF OpToRel
  <2> QED BY <2>1
<1> QED BY <1>2

\* The concatenation of all of m sequences, by way of that of fewer.
Concatenates(p, m, f) ==
  f = [i \in 1..m |-> IF i = 1 THEN p[i] ELSE f[i - 1] \o p[i]]

LEMMA ConcatenationIsOne ==
  ASSUME NEW p, NEW m \in Nat, NEW n \in Nat, NEW f, NEW g,
         Concatenates(p, m, f), Concatenates(p, n, g), m <= n
  PROVE  \A i \in 1..m : f[i] = g[i]
<1> DEFINE Differ == {i \in 1..m : f[i] # g[i]}
<1>1. ASSUME Differ # {} PROVE FALSE
  <2>1. PICK i \in Differ : \A j \in Differ : i <= j
    <3>1. Differ \subseteq Nat
      OBVIOUS
    <3> HIDE DEF Differ
    <3> QED BY <1>1, <3>1, LeastNumber
  <2>2. i # 1 => f[i - 1] = g[i - 1]
    <3>1. i # 1 => i - 1 \in 1..m /\ i - 1 \notin Differ
      BY <2>1
    <3> QED BY <3>1
  <2>3. i \in 1..m /\ i \in 1..n
    OBVIOUS
  <2>4. f[i] = IF i = 1 THEN p[i] ELSE f[i - 1] \o p[i]
    BY <2>3 DEF Concatenates
  <2>5. g[i] = IF i = 1 THEN p[i] ELSE g[i - 1] \o p[i]
    BY <2>3 DEF Concatenates
  <2> QED BY <2>2, <2>4, <2>5
<1> QED BY <1>1

LEMMA ConcatenationExists ==
  ASSUME NEW p, NEW n \in Nat
  PROVE  \E f : Concatenates(p, n, f)
<1> DEFINE Missing == {m \in 0..n : ~\E f : Concatenates(p, m, f)}
<1>1. ASSUME Missing # {} PROVE FALSE
  <2>1. PICK m \in Missing : \A j \in Missing : m <= j
    <3>1. Missing \subseteq Nat
      OBVIOUS
    <3> HIDE DEF Missing
    <3> QED BY <1>1, <3>1, LeastNumber
  <2>2. m # 0
    <3>1. Concatenates(p, 0, [i \in 1..0 |-> 0])
      BY DEF Concatenates
    <3> QED BY <2>1, <3>1
  <2>3. \E f : Concatenates(p, m - 1, f)
    <3>1. m - 1 \in 0..n /\ m - 1 \notin Missing
      BY <2>1, <2>2
    <3> QED BY <3>1
  <2>4. PICK f : Concatenates(p, m - 1, f)
    BY <2>3
  <2> DEFINE g == [i \in 1..m |-> IF i = m
                                  THEN IF m = 1 THEN p[m] ELSE f[m - 1] \o p[m]
                                  ELSE f[i]]
  <2>5. m \in 1..n /\ DOMAIN f = 1..(m - 1)
    BY <2>2, <2>4 DEF Concatenates
  <2>6. ASSUME NEW i \in 1..m
        PROVE  g[i] = IF i = 1 THEN p[i] ELSE g[i - 1] \o p[i]
    <3>1. CASE i = m
      <4>1. m # 1 => g[m - 1] = f[m - 1]
        BY <2>5
      <4> QED BY <3>1, <4>1
    <3>2. CASE i # m
      <4>1. i \in 1..(m - 1) /\ g[i] = f[i] /\ (i # 1 => g[i - 1] = f[i - 1])
        BY <3>2, <2>5
      <4>2. f[i] = IF i = 1 THEN p[i] ELSE f[i - 1] \o p[i]
        BY <4>1, <2>4 DEF Concatenates
      <4> HIDE DEF g
      <4> QED BY <4>1, <4>2
    <3> QED BY <3>1, <3>2
  <2>7. Concatenates(p, m, g)
    <3>1. g = [i \in 1..m |-> g[i]]
      OBVIOUS
    <3> HIDE DEF g
    <3> QED BY <2>6, <3>1 DEF Concatenates
  <2> HIDE DEF g
  <2> QED BY <2>1, <2>7
<1> QED BY <1>1

LEMMA ConcatenationType ==
  ASSUME NEW S, NEW n \in Nat, NEW p \in [1..n -> Seq(S)],
         NEW f, Concatenates(p, n, f)
  PROVE  \A i \in 1..n : f[i] \in Seq(S)
<1> DEFINE Wrong == {i \in 1..n : f[i] \notin Seq(S)}
<1>1. ASSUME Wrong # {} PROVE FALSE
  <2>1. PICK i \in Wrong : \A j \in Wrong : i <= j
    <3>1. Wrong \subseteq Nat
      OBVIOUS
    <3> HIDE DEF Wrong
    <3> QED BY <1>1, <3>1, LeastNumber
  <2>2. i # 1 => f[i - 1] \in Seq(S)
    <3>1. i # 1 => i - 1 \in 1..n /\ i - 1 \notin Wrong
      BY <2>1
    <3> QED BY <3>1
  <2>3. i \in 1..n /\ p[i] \in Seq(S)
    OBVIOUS
  <2>4. f[i] = IF i = 1 THEN p[i] ELSE f[i - 1] \o p[i]
    BY <2>3 DEF Concatenates
  <2>5. f[i] \in Seq(S)
    <3>1. CASE i = 1
      BY <2>3, <2>4, <3>1
    <3>2. CASE i # 1
      <4> DEFINE front == f[i - 1]
                 back == p[i]
      <4>1. front \in Seq(S) /\ back \in Seq(S) /\ f[i] = front \o back
        BY <2>2, <2>3, <2>4, <3>2
      <4> HIDE DEF front, back
      <4> QED BY <4>1
    <3> QED BY <3>1, <3>2
  <2> QED BY <2>5
<1> QED BY <1>1

LEMMA FlattenIs ==
  ASSUME NEW p, NEW n \in Nat, n = Len(p), n > 0, NEW f, Concatenates(p, n, f)
  PROVE  FlattenSeq(p) = f[n]
<1> DEFINE g == CHOOSE h : Concatenates(p, n, h)
<1>1. Concatenates(p, n, g)
  OBVIOUS
<1>2. FlattenSeq(p) = g[n]
  BY DEF FlattenSeq, Concatenates
<1> HIDE DEF g
<1>3. f[n] = g[n]
  BY <1>1, ConcatenationIsOne
<1> QED BY <1>2, <1>3

\* The first k of the pieces, put together.
Joined(p, k) == FlattenSeq(SubSeq(p, 1, k))

LEMMA JoinedIs ==
  ASSUME NEW S, NEW p \in Seq(Seq(S))
  PROVE  /\ \A k \in 0..Len(p) : Joined(p, k) \in Seq(S)
         /\ Joined(p, 0) = <<>>
         /\ \A k \in 1..Len(p) : Joined(p, k) = Joined(p, k - 1) \o p[k]
         /\ FlattenSeq(p) = Joined(p, Len(p))
<1> DEFINE n == Len(p)
<1>1. n \in Nat /\ p \in [1..n -> Seq(S)]
  OBVIOUS
<1>2. PICK f : Concatenates(p, n, f)
  BY <1>1, ConcatenationExists
<1>3. \A i \in 1..n : f[i] \in Seq(S)
  <2> HIDE DEF n
  <2> QED BY <1>1, <1>2, ConcatenationType
<1>4. Joined(p, 0) = <<>>
  <2>1. SubSeq(p, 1, 0) = <<>>
    OBVIOUS
  <2> QED BY <2>1 DEF Joined, FlattenSeq
<1>5. ASSUME NEW k \in 1..n PROVE Joined(p, k) = f[k]
  <2> DEFINE q == SubSeq(p, 1, k)
  <2>1. k \in Nat /\ k = Len(q) /\ k > 0 /\ \A i \in 1..k : q[i] = p[i]
    OBVIOUS
  <2>2. PICK g : Concatenates(q, k, g)
    BY <2>1, ConcatenationExists
  <2> HIDE DEF q
  <2>3. Concatenates(p, k, g)
    BY <2>1, <2>2 DEF Concatenates
  <2>4. FlattenSeq(q) = g[k]
    BY <2>1, <2>2, FlattenIs
  <2>5. g[k] = f[k]
    <3>1. k <= n
      BY <1>1
    <3> HIDE DEF n
    <3>2. \A i \in 1..k : g[i] = f[i]
      BY <1>1, <1>2, <2>1, <2>3, <3>1, ConcatenationIsOne
    <3> QED BY <2>1, <3>2
  <2> QED BY <2>4, <2>5 DEF Joined, q
<1>6. ASSUME NEW k \in 1..n PROVE Joined(p, k) = Joined(p, k - 1) \o p[k]
  <2>1. f[k] = IF k = 1 THEN p[k] ELSE f[k - 1] \o p[k]
    BY <1>2 DEF Concatenates
  <2>2. CASE k = 1
    <3>1. <<>> \o p[1] = p[1]
      BY <1>1, <2>2
    <3>2. Joined(p, k - 1) = <<>>
      BY <1>4, <2>2
    <3> QED BY <1>5, <2>1, <2>2, <3>1, <3>2
  <2>3. CASE k # 1
    <3>1. k - 1 \in 1..n
      BY <2>3
    <3> HIDE DEF n
    <3> QED BY <1>5, <2>1, <2>3, <3>1
  <2> QED BY <2>2, <2>3
<1>7. ASSUME NEW k \in 0..n PROVE Joined(p, k) \in Seq(S)
  <2>1. CASE k = 0
    <3>1. << >> \in Seq(S)
      OBVIOUS
    <3>2. Joined(p, k) = << >>
      BY <1>4, <2>1
    <3> QED BY <3>1, <3>2
  <2>2. CASE k # 0
    <3>1. k \in 1..n
      BY <2>2
    <3>2. Joined(p, k) = f[k]
      BY <1>5, <3>1
    <3> QED BY <1>3, <3>1, <3>2
  <2> QED BY <2>1, <2>2
<1>8. FlattenSeq(p) = Joined(p, n)
  <2>1. SubSeq(p, 1, n) = p
    OBVIOUS
  <2> QED BY <2>1 DEF Joined
<1> QED BY <1>4, <1>6, <1>7, <1>8

-----------------------------------------------------------------------------
(* Numerals. *)

Base == Len(Digits)

Digit(n) == Digits[(n % Base) + 1]

LEMMA BaseType == Base \in Nat /\ Base > 1
  BY JsonAssumption DEF Base

\* Quotient and remainder.
LEMMA DivMod ==
  ASSUME NEW n \in Nat
  PROVE  /\ n = (n \div Base) * Base + (n % Base)
         /\ n % Base \in 0..(Base - 1)
         /\ n \div Base \in Nat
         /\ n >= Base => n \div Base < n /\ n \div Base > 0
         /\ n < Base => n % Base = n
<1>1. /\ n = (n \div Base) * Base + (n % Base)
      /\ n % Base \in 0..(Base - 1)
      /\ n \div Base \in Nat
  BY BaseType
<1> DEFINE q == n \div Base
           r == n % Base
<1>2. n = q * Base + r /\ r \in 0..(Base - 1) /\ q \in Nat
  BY <1>1
<1> HIDE DEF q, r
<1>3. q = 0 => n = r
  BY <1>2, BaseType
<1>4. q > 0 => q * Base >= 2 * q /\ q * Base >= Base
  <2> SUFFICES ASSUME q > 0 PROVE q * Base >= 2 * q /\ q * Base >= Base
    OBVIOUS
  <2>1. q * (Base - 2) >= 0 /\ (q - 1) * Base >= 0
    BY <1>2, BaseType
  <2> QED BY <1>2, <2>1, BaseType
<1>5. n >= Base => q < n /\ q > 0
  BY <1>2, <1>3, <1>4, BaseType
<1>6. n < Base => r = n
  BY <1>2, <1>3, <1>4, BaseType
<1> QED BY <1>1, <1>5, <1>6 DEF q, r

LEMMA DigitType ==
  ASSUME NEW n \in Nat
  PROVE  Digit(n) \in ToSet(Digits)
<1> DEFINE r == n % Base
<1>1. r \in 0..(Base - 1)
  BY DivMod
<1> HIDE DEF r
<1>2. r + 1 \in 1..Len(Digits)
  BY <1>1, BaseType DEF Base
<1> QED BY <1>2, JsonAssumption DEF Digit, ToSet, r

\* The numerals of the numbers up to m.
NumeralsTo(m, f) ==
  f = [n \in 0..m |-> IF n < Base THEN <<Digit(n)>>
                      ELSE f[n \div Base] \o <<Digit(n)>>]

LEMMA NumeralsAreOne ==
  ASSUME NEW m \in Nat, NEW n \in Nat, NEW f, NEW g,
         NumeralsTo(m, f), NumeralsTo(n, g), m <= n
  PROVE  \A i \in 0..m : f[i] = g[i]
<1> DEFINE Differ == {i \in 0..m : f[i] # g[i]}
<1>1. ASSUME Differ # {} PROVE FALSE
  <2>1. PICK i \in Differ : \A j \in Differ : i <= j
    <3>1. Differ \subseteq Nat
      OBVIOUS
    <3> HIDE DEF Differ
    <3> QED BY <1>1, <3>1, LeastNumber
  <2>2. i >= Base => f[i \div Base] = g[i \div Base]
    <3> SUFFICES ASSUME i >= Base PROVE f[i \div Base] = g[i \div Base]
      OBVIOUS
    <3> DEFINE j == i \div Base
    <3>1. i \in Nat
      OBVIOUS
    <3>2. j \in Nat /\ j < i
      BY <3>1, DivMod
    <3> HIDE DEF j
    <3>3. j \in 0..m /\ j \notin Differ
      BY <2>1, <3>2
    <3> QED BY <3>3 DEF j
  <2>3. i \in 0..m /\ i \in 0..n
    OBVIOUS
  <2>4. f[i] = IF i < Base THEN <<Digit(i)>> ELSE f[i \div Base] \o <<Digit(i)>>
    BY <2>3 DEF NumeralsTo
  <2>5. g[i] = IF i < Base THEN <<Digit(i)>> ELSE g[i \div Base] \o <<Digit(i)>>
    BY <2>3 DEF NumeralsTo
  <2>6. i < Base \/ i >= Base
    BY <2>3, BaseType
  <2> QED BY <2>2, <2>4, <2>5, <2>6
<1> QED BY <1>1

LEMMA NumeralsExist ==
  ASSUME NEW n \in Nat
  PROVE  \E f : NumeralsTo(n, f)
<1> DEFINE Missing == {m \in 0..n : ~\E f : NumeralsTo(m, f)}
<1>1. ASSUME Missing # {} PROVE FALSE
  <2>1. PICK m \in Missing : \A j \in Missing : m <= j
    <3>1. Missing \subseteq Nat
      OBVIOUS
    <3> HIDE DEF Missing
    <3> QED BY <1>1, <3>1, LeastNumber
  <2>2. m # 0
    <3>1. NumeralsTo(0, [i \in 0..0 |-> <<Digit(i)>>])
      BY BaseType DEF NumeralsTo
    <3> QED BY <2>1, <3>1
  <2>3. \E f : NumeralsTo(m - 1, f)
    <3>1. m - 1 \in 0..n /\ m - 1 \notin Missing
      BY <2>1, <2>2
    <3> QED BY <3>1
  <2>4. PICK f : NumeralsTo(m - 1, f)
    BY <2>3
  <2> DEFINE g == [i \in 0..m |-> IF i = m
                                  THEN IF m < Base THEN <<Digit(m)>>
                                       ELSE f[m \div Base] \o <<Digit(m)>>
                                  ELSE f[i]]
  <2>5. m \in 1..n
    BY <2>2
  <2>6. ASSUME NEW i \in 0..m
        PROVE  g[i] = IF i < Base THEN <<Digit(i)>>
                      ELSE g[i \div Base] \o <<Digit(i)>>
    <3> DEFINE j == i \div Base
    <3>1. i \in Nat /\ (i >= Base => j \in Nat /\ j < i)
      BY DivMod
    <3> HIDE DEF j
    <3>2. i >= Base => j \in 0..(m - 1)
      BY <2>5, <3>1
    <3>3. i >= Base => g[j] = f[j]
      BY <3>2
    <3>4. i < Base \/ i >= Base
      BY <3>1, BaseType
    <3>5. CASE i = m
      <4>1. g[i] = IF i < Base THEN <<Digit(i)>> ELSE f[j] \o <<Digit(i)>>
        BY <3>5 DEF j
      <4> HIDE DEF g
      <4> QED BY <3>3, <3>4, <4>1 DEF j
    <3>6. CASE i # m
      <4>1. i \in 0..(m - 1) /\ g[i] = f[i]
        BY <3>6
      <4>2. f[i] = IF i < Base THEN <<Digit(i)>> ELSE f[j] \o <<Digit(i)>>
        BY <4>1, <2>4 DEF NumeralsTo, j
      <4> HIDE DEF g
      <4> QED BY <3>3, <3>4, <4>1, <4>2 DEF j
    <3> QED BY <3>5, <3>6
  <2>7. NumeralsTo(m, g)
    <3>1. g = [i \in 0..m |-> g[i]]
      OBVIOUS
    <3> HIDE DEF g
    <3> QED BY <2>6, <3>1 DEF NumeralsTo
  <2> HIDE DEF g
  <2> QED BY <2>1, <2>7
<1> QED BY <1>1

\* The recursive function Numeral is there, and what its equation says.
LEMMA NumeralIs ==
  ASSUME NEW n \in Nat
  PROVE  Numeral[n] = IF n < Base THEN <<Digit(n)>>
                      ELSE Numeral[n \div Base] \o <<Digit(n)>>
<1> DEFINE To(m) == CHOOSE f : NumeralsTo(m, f)
           F == [m \in Nat |-> To(m)[m]]
           Step(g) == [m \in Nat |-> IF m < Base THEN <<Digit(m)>>
                                     ELSE g[m \div Base] \o <<Digit(m)>>]
<1>1. \A m \in Nat : NumeralsTo(m, To(m))
  BY NumeralsExist
<1> HIDE DEF To
<1>2. ASSUME NEW m \in Nat
      PROVE  F[m] = IF m < Base THEN <<Digit(m)>> ELSE F[m \div Base] \o <<Digit(m)>>
  <2>1. To(m)[m] = IF m < Base THEN <<Digit(m)>>
                   ELSE To(m)[m \div Base] \o <<Digit(m)>>
    <3> DEFINE f == To(m)
    <3>1. NumeralsTo(m, f) /\ m \in 0..m
      BY <1>1
    <3> HIDE DEF f
    <3>2. f[m] = IF m < Base THEN <<Digit(m)>> ELSE f[m \div Base] \o <<Digit(m)>>
      BY <3>1 DEF NumeralsTo
    <3> QED BY <3>2 DEF f
  <2>2. m >= Base => To(m)[m \div Base] = F[m \div Base]
    <3> SUFFICES ASSUME m >= Base PROVE To(m)[m \div Base] = F[m \div Base]
      OBVIOUS
    <3> DEFINE j == m \div Base
    <3>1. j \in Nat /\ j <= m
      BY DivMod
    <3> HIDE DEF j
    <3>2. \A i \in 0..j : To(j)[i] = To(m)[i]
      BY <1>1, <3>1, NumeralsAreOne
    <3>3. F[j] = To(j)[j]
      BY <3>1
    <3> QED BY <3>1, <3>2, <3>3 DEF j
  <2>3. m < Base \/ m >= Base
    BY BaseType
  <2>4. F[m] = To(m)[m]
    OBVIOUS
  <2> HIDE DEF F
  <2> QED BY <2>1, <2>2, <2>3, <2>4
<1>3. F = Step(F)
  <2>1. F = [m \in Nat |-> F[m]]
    OBVIOUS
  <2> HIDE DEF F
  <2> QED BY <1>2, <2>1
<1>4. Numeral = CHOOSE g : g = Step(g)
  BY DEF Numeral, Base, Digit
<1>5. Numeral = Step(Numeral)
  <2> HIDE DEF F, Step
  <2> QED BY <1>3, <1>4
<1> QED BY <1>5

LEMMA NumeralType ==
  ASSUME NEW n \in Nat
  PROVE  Numeral[n] \in Seq(ToSet(Digits)) /\ Len(Numeral[n]) > 0
<1> DEFINE Good(m) == Numeral[m] \in Seq(ToSet(Digits)) /\ Len(Numeral[m]) > 0
           Wrong == {m \in 0..n : ~Good(m)}
<1>1. ASSUME Wrong # {} PROVE FALSE
  <2>1. PICK m \in Wrong : \A j \in Wrong : m <= j
    <3>1. Wrong \subseteq Nat
      OBVIOUS
    <3> HIDE DEF Wrong
    <3> QED BY <1>1, <3>1, LeastNumber
  <2> DEFINE q == m \div Base
             last == <<Digit(m)>>
  <2>2. m \in 0..n /\ m \in Nat
    OBVIOUS
  <2>3. Numeral[m] = IF m < Base THEN last ELSE Numeral[q] \o last
    BY <2>2, NumeralIs
  <2>4. last \in Seq(ToSet(Digits)) /\ Len(last) = 1
    BY <2>2, DigitType
  <2>5. m >= Base => q \in 0..n /\ q < m
    BY <2>2, DivMod
  <2>6. m >= Base => Good(q)
    <3> HIDE DEF q, Good
    <3>1. m >= Base => q \notin Wrong
      BY <2>1, <2>2, <2>5
    <3> QED BY <2>5, <3>1
  <2>7. m < Base \/ m >= Base
    BY <2>2, BaseType
  <2>8. Good(m)
    <3> HIDE DEF q, last
    <3>1. CASE m < Base
      <4>1. Numeral[m] = last
        BY <2>3, <3>1
      <4> QED BY <2>4, <4>1
    <3>2. CASE m >= Base
      <4>1. ~(m < Base)
        BY <2>2, <3>2, BaseType
      <4> DEFINE front == Numeral[q]
      <4>2. Numeral[m] = front \o last
        BY <2>3, <4>1
      <4>3. front \in Seq(ToSet(Digits)) /\ Len(front) > 0
        BY <2>6, <3>2
      <4> HIDE DEF front
      <4>4. front \o last \in Seq(ToSet(Digits)) /\ Len(front \o last) > 0
        BY <2>4, <4>3
      <4> QED BY <4>2, <4>4
    <3> QED BY <2>7, <3>1, <3>2
  <2> HIDE DEF Good
  <2> QED BY <2>8
<1>2. n \notin Wrong
  BY <1>1
<1> QED BY <1>2

-----------------------------------------------------------------------------
(* Types of what is written. *)

LEMMA CharacterType ==
  /\ Quote \in Character /\ Escape \in Character /\ " " \in Character
  /\ ToSet(Digits) \subseteq Character
  BY DEF Character, Marks

LEMMA OneCharacter ==
  ASSUME NEW c \in Character
  PROVE  <<c>> \in Seq(Character) /\ Len(<<c>>) = 1
  OBVIOUS

LEMMA MarkType ==
  /\ <<Quote>> \in Seq(Character) /\ <<" ">> \in Seq(Character)
  /\ <<"{">> \in Seq(Character) /\ <<"}">> \in Seq(Character)
  /\ <<":">> \in Seq(Character) /\ <<",">> \in Seq(Character)
<1>1. \A c \in Marks : c \in Character
  BY DEF Character
<1>2. \A c \in Marks : <<c>> \in Seq(Character)
  BY <1>1, OneCharacter
<1> QED BY <1>2 DEF Marks

LEMMA WordType ==
  ASSUME NEW b \in BOOLEAN
  PROVE  Word(b) \in Seq(Character) /\ Len(Word(b)) > 0
<1>1. \A c \in {"t", "r", "u", "e", "f", "a", "l", "s"} : c \in Character
  BY DEF Character, Plain
<1>2. CASE b = TRUE
  BY <1>1, <1>2 DEF Word
<1>3. CASE b = FALSE
  BY <1>1, <1>3 DEF Word
<1> QED BY <1>2, <1>3

\* How a character of a string is written.
Escaping(s) == [i \in 1..Len(s) |->
                  CASE s[i] \in DOMAIN Letter    -> <<Escape, Letter[s[i]]>>
                    [] s[i] \in {Quote, Escape} -> <<Escape, s[i]>>
                    [] OTHER                     -> <<s[i]>>]

\* The letters that clients escape are plain ones, and mean something else.
LEMMA LetterType ==
  ASSUME NEW c \in DOMAIN Letter
  PROVE  /\ Letter[c] \in Character /\ c \in Character /\ c \notin {Quote, Escape}
         /\ Letter[c] \notin DOMAIN Letter
<1>1. Letter[c] \in Plain /\ c \notin Marks /\ Letter[c] \in Character /\ c \in Character
  BY JsonAssumption DEF Character
<1>2. Letter[c] \notin DOMAIN Letter
  BY <1>1, JsonAssumption
<1> QED BY <1>1, <1>2 DEF Marks

LEMMA EscapingType ==
  ASSUME NEW s \in Seq(Character)
  PROVE  /\ Escaping(s) \in Seq(Seq(Character))
         /\ Len(Escaping(s)) = Len(s)
<1>1. ASSUME NEW i \in 1..Len(s)
      PROVE  Escaping(s)[i] \in Seq(Character)
  <2> DEFINE c == s[i]
  <2>1. c \in Character
    OBVIOUS
  <2> HIDE DEF c
  <2>3. Escape \in Character
    BY CharacterType
  <2>2. <<Escape, c>> \in Seq(Character) /\ <<c>> \in Seq(Character)
    BY <2>1, <2>3
  <2>4. Escaping(s)[i] = CASE c \in DOMAIN Letter    -> <<Escape, Letter[c]>>
                           [] c \in {Quote, Escape} -> <<Escape, c>>
                           [] OTHER                  -> <<c>>
    BY DEF Escaping, c
  <2>5. CASE c \in DOMAIN Letter
    <3> DEFINE l == Letter[c]
    <3>1. l \in Character /\ c \notin {Quote, Escape}
      BY <2>5, LetterType
    <3>2. Escaping(s)[i] = <<Escape, l>>
      BY <2>4, <2>5, <3>1
    <3> HIDE DEF l
    <3> QED BY <2>3, <3>1, <3>2
  <2>6. CASE c \notin DOMAIN Letter /\ c \in {Quote, Escape}
    BY <2>2, <2>4, <2>6
  <2>7. CASE c \notin DOMAIN Letter /\ c \notin {Quote, Escape}
    BY <2>2, <2>4, <2>7
  <2> QED BY <2>5, <2>6, <2>7
<1>2. DOMAIN Escaping(s) = 1..Len(s) /\ Len(s) \in Nat
  BY DEF Escaping
<1>3. Escaping(s) = [i \in 1..Len(s) |-> Escaping(s)[i]]
  BY DEF Escaping
<1> QED BY <1>1, <1>2, <1>3

LEMMA QuotedType ==
  ASSUME NEW s \in Seq(Character)
  PROVE  /\ Escaped(s) \in Seq(Character)
         /\ Quoted(s) \in Seq(Character)
<1>1. Escaped(s) \in Seq(Character)
  <2>1. Escaped(s) = FlattenSeq(Escaping(s))
    BY DEF Escaped, Escaping
  <2> DEFINE p == Escaping(s)
  <2>2. p \in Seq(Seq(Character))
    BY EscapingType
  <2> HIDE DEF p
  <2>5. Len(p) \in 0..Len(p)
    BY <2>2
  <2>3. FlattenSeq(p) = Joined(p, Len(p))
    BY <2>2, JoinedIs
  <2>4. Joined(p, Len(p)) \in Seq(Character)
    BY <2>2, <2>5, JoinedIs
  <2> QED BY <2>1, <2>3, <2>4 DEF p
<1> DEFINE e == Escaped(s)
<1>2. <<Quote>> \in Seq(Character)
  BY MarkType
<1> HIDE DEF e
<1>3. <<Quote>> \o e \o <<Quote>> \in Seq(Character)
  BY <1>1, <1>2 DEF e
<1> QED BY <1>1, <1>3 DEF Quoted, e

\* The kinds of items.
LEMMA ItemCases ==
  ASSUME NEW x \in Item
  PROVE  \/ x.type = "string" /\ x.string \in Seq(Character) /\ x # Nothing /\ x # Object
         \/ x.type = "number" /\ x.number \in 0..(Range64 - 1) /\ x # Nothing /\ x # Object
         \/ x.type = "boolean" /\ x.boolean \in BOOLEAN /\ x # Nothing /\ x # Object
         \/ x.type = "object" /\ x = Object /\ x # Nothing
         \/ x.type = "nothing" /\ x = Nothing /\ x # Object
  BY DEF Item, Object, Nothing

LEMMA WrittenType ==
  ASSUME NEW x \in Item, x # Nothing
  PROVE  Written(x) \in Seq(Character)
<1>1. CASE x.type = "string"
  <2>1. Written(x) = Quoted(x.string) /\ x.string \in Seq(Character)
    BY <1>1, ItemCases DEF Written
  <2> QED BY <2>1, QuotedType
<1>2. CASE x.type = "number"
  <2>1. Written(x) = Numeral[x.number] /\ x.number \in Nat
    BY <1>2, ItemCases, JsonAssumption DEF Written
  <2>2. Numeral[x.number] \in Seq(ToSet(Digits))
    BY <2>1, NumeralType
  <2>3. ToSet(Digits) \subseteq Character
    BY CharacterType
  <2> QED BY <2>1, <2>2, <2>3
<1>3. CASE x.type = "boolean"
  <2>1. Written(x) = Word(x.boolean) /\ x.boolean \in BOOLEAN
    BY <1>3, ItemCases DEF Written
  <2> QED BY <2>1, WordType
<1>4. CASE x.type = "object"
  <2>1. Written(x) = <<"{">> 
    BY <1>4 DEF Written
  <2> QED BY <2>1, MarkType
<1> QED BY <1>1, <1>2, <1>3, <1>4, ItemCases

LEMMA ClosingType ==
  ASSUME NEW n \in Nat
  PROVE  Closing(n) \in Seq(Character) /\ Len(Closing(n)) = n
<1> DEFINE c == "}"
<1>1. c \in Character
  BY DEF Character, Marks
<1>2. Closing(n) = [i \in 1..n |-> c]
  BY DEF Closing
<1> HIDE DEF c
<1> QED BY <1>1, <1>2

LEMMA LevelType ==
  ASSUME NEW v \in Seq(Node), NEW i \in 1..Len(v)
  PROVE  Level(v, i) \in Nat /\ v[i].depth \in Nat
<1>1. v[i] \in Node
  OBVIOUS
<1> QED BY <1>1 DEF Level, Node

\* An object, whatever key it has, of which nothing is missing.
Complete(v) ==
  /\ v \in Seq(Node) \ {<<>>}
  /\ v[1].depth = 0
  /\ \A i \in 2..Len(v) : v[i].depth \in 1..Level(v, i - 1)
  /\ \A i \in 1..Len(v) : v[i].item # Nothing

LEMMA ObjectIsComplete ==
  ASSUME NEW v, IsObject(v)
  PROVE  Complete(v)
  BY DEF IsObject, Complete

LEMMA PieceType ==
  ASSUME NEW v, Complete(v), NEW i \in 1..Len(v), NEW space \in Spaces
  PROVE  Piece(v, i, space) \in Seq(Character)
<1>1. v \in Seq(Node) /\ v[i] \in Node
  BY DEF Complete
<1>2. v[i].item \in Item /\ v[i].item # Nothing /\ v[i].key \in Seq(Character)
  BY <1>1 DEF Node, Complete
<1> DEFINE w == Written(v[i].item)
<1>3. w \in Seq(Character)
  BY <1>2, WrittenType
<1>4. CASE i = 1
  BY <1>3, <1>4 DEF Piece
<1>5. CASE i # 1
  <2>1. i - 1 \in 1..Len(v) /\ i \in 2..Len(v)
    BY <1>5
  <2>2. Level(v, i - 1) - v[i].depth \in Nat
    BY <1>1, <2>1, LevelType DEF Complete
  <2> DEFINE closing == Closing(Level(v, i - 1) - v[i].depth)
             colon == <<":">>
             comma == IF HasPairs(v, i - 1) THEN <<>> ELSE <<",">> \o space
             q == Quoted(v[i].key)
  <2>3. closing \in Seq(Character)
    BY <2>2, ClosingType
  <2>4. space \in Seq(Character)
    <3>1. << >> \in Seq(Character)
      OBVIOUS
    <3>2. <<" ">> \in Seq(Character)
      BY MarkType
    <3> QED BY <3>1, <3>2 DEF Spaces
  <2>5. comma \in Seq(Character)
    <3>1. << >> \in Seq(Character)
      OBVIOUS
    <3>2. <<",">> \in Seq(Character)
      BY MarkType
    <3>3. <<",">> \o space \in Seq(Character)
      <4> DEFINE front == <<",">>
      <4> HIDE DEF front
      <4>1. front \in Seq(Character)
        BY <3>2 DEF front
      <4>2. front \o space \in Seq(Character)
        BY <2>4, <4>1
      <4> QED BY <4>2 DEF front
    <3> QED BY <3>1, <3>3
  <2>6. q \in Seq(Character)
    BY <1>2, QuotedType
  <2>7. colon \in Seq(Character)
    BY MarkType
  <2>8. Piece(v, i, space) = closing \o comma \o q \o colon \o space \o w
    BY <1>5 DEF Piece, Between
  <2> HIDE DEF closing, comma, colon, q, w
  <2> QED BY <1>3, <2>3, <2>4, <2>5, <2>6, <2>7, <2>8
<1> QED BY <1>4, <1>5

\* The pieces of a text.
Pieces(v, space) == [i \in 1..Len(v) |-> Piece(v, i, space)]

LEMMA TextType ==
  ASSUME NEW v, Complete(v), NEW space \in Spaces
  PROVE  /\ Pieces(v, space) \in Seq(Seq(Character))
         /\ Len(Pieces(v, space)) = Len(v)
         /\ Text(v, space) = Joined(Pieces(v, space), Len(v)) \o Closing(Level(v, Len(v)))
         /\ Text(v, space) \in Seq(Character)
<1> DEFINE p == Pieces(v, space)
           n == Len(v)
<1>1. n \in Nat \ {0} /\ n \in 1..n /\ v \in Seq(Node)
  BY DEF Complete
<1>2. p \in Seq(Seq(Character)) /\ Len(p) = n
  <2>1. ASSUME NEW i \in 1..n PROVE p[i] \in Seq(Character)
    <3>1. p[i] = Piece(v, i, space)
      BY DEF Pieces
    <3> QED BY <3>1, PieceType
  <2>2. p \in [1..n -> Seq(Character)]
    <3>1. p = [i \in 1..n |-> p[i]]
      BY DEF Pieces
    <3> HIDE DEF p, n
    <3> QED BY <2>1, <3>1
  <2> HIDE DEF p, n
  <2> QED BY <1>1, <2>2
<1>3. FlattenSeq(p) = Joined(p, n) /\ Joined(p, n) \in Seq(Character)
  <2> HIDE DEF p, n
  <2>1. n \in 0..Len(p)
    BY <1>1, <1>2
  <2> QED BY <1>2, <2>1, JoinedIs
<1>4. Text(v, space) = FlattenSeq(p) \o Closing(Level(v, n))
  BY DEF Text, Pieces
<1>5. Closing(Level(v, n)) \in Seq(Character)
  BY <1>1, LevelType, ClosingType
<1> DEFINE front == Joined(p, n)
           back == Closing(Level(v, n))
<1>6. Text(v, space) = front \o back /\ front \in Seq(Character) /\ back \in Seq(Character)
  BY <1>3, <1>4, <1>5
<1>7. front \o back \in Seq(Character)
  <2> HIDE DEF front, back
  <2> QED BY <1>6
<1> QED BY <1>2, <1>6, <1>7

-----------------------------------------------------------------------------
(* Nodes and their blocks. *)

Pointer == {"value", "string", "pairs", "key"}

LEMMA NodeAt ==
  ASSUME NEW t \in Seq(Node), NEW j \in 1..Len(t)
  PROVE  /\ t[j] \in Node
         /\ t[j].depth \in Nat /\ t[j].key \in Seq(Character) /\ t[j].item \in Item
<1> DEFINE node == t[j]
<1>1. node \in Node
  OBVIOUS
<1> HIDE DEF node
<1>2. node.depth \in Nat /\ node.key \in Seq(Character) /\ node.item \in Item
  BY <1>1 DEF Node
<1> QED BY <1>1, <1>2 DEF node

LEMMA PointersAre ==
  ASSUME NEW t \in Seq(Node), NEW j \in 1..Len(t)
  PROVE  /\ "value" \in Pointers(t, j) <=> t[j].item # Nothing
         /\ "string" \in Pointers(t, j) <=> t[j].item.type = "string"
         /\ "pairs" \in Pointers(t, j) <=> t[j].item = Object /\ HasPairs(t, j)
         /\ Pointers(t, j) \subseteq {"value", "string", "pairs"}
<1> DEFINE x == t[j].item
<1>1. x \in Item
  BY NodeAt
<1> HIDE DEF x
<1>2. Pointers(t, j) = CASE x.type = "nothing" -> {}
                         [] x.type = "string"  -> {"value", "string"}
                         [] x.type = "object"  -> IF HasPairs(t, j) THEN {"value", "pairs"}
                                                                   ELSE {"value"}
                         [] OTHER              -> {"value"}
  BY DEF Pointers, x
<1>3. /\ "value" \in Pointers(t, j) <=> x # Nothing
      /\ "string" \in Pointers(t, j) <=> x.type = "string"
      /\ "pairs" \in Pointers(t, j) <=> x = Object /\ HasPairs(t, j)
      /\ Pointers(t, j) \subseteq {"value", "string", "pairs"}
  BY <1>1, <1>2, ItemCases
<1> QED BY <1>3 DEF x

\* The same node has the same pointers, if it has pairs in both values.
LEMMA SamePointers ==
  ASSUME NEW t \in Seq(Node), NEW s \in Seq(Node), NEW j \in 1..Len(t),
         j \in 1..Len(s), s[j] = t[j], NEW p
  PROVE  /\ p # "pairs" => (p \in Pointers(s, j) <=> p \in Pointers(t, j))
         /\ (HasPairs(s, j) <=> HasPairs(t, j)) =>
              (p \in Pointers(s, j) <=> p \in Pointers(t, j))
<1>1. /\ "value" \in Pointers(t, j) <=> t[j].item # Nothing
      /\ "string" \in Pointers(t, j) <=> t[j].item.type = "string"
      /\ "pairs" \in Pointers(t, j) <=> t[j].item = Object /\ HasPairs(t, j)
      /\ Pointers(t, j) \subseteq {"value", "string", "pairs"}
  BY PointersAre
<1>2. /\ "value" \in Pointers(s, j) <=> s[j].item # Nothing
      /\ "string" \in Pointers(s, j) <=> s[j].item.type = "string"
      /\ "pairs" \in Pointers(s, j) <=> s[j].item = Object /\ HasPairs(s, j)
      /\ Pointers(s, j) \subseteq {"value", "string", "pairs"}
  BY PointersAre
<1> QED BY <1>1, <1>2

BuildPC == {"create", "attach"}

\* The node at j holds a block for p, when those of loose are in no object yet, with
\* the program at w: a value that is built gets its key last, one that is parsed has
\* it first.
Holds(t, loose, w, j, p) ==
  /\ j \in 1..Len(t)
  /\ \/ p \in Pointers(t, j) /\ (p = "pairs" => j + 1 \notin loose)
     \/ p = "key" /\ j > 1 /\ (w \in BuildPC => j \notin loose)

IsNext(n, t) == n = Len(t) + 1

IsMore(g, t, node) == g = Append(t, node)

AgreeOn(loose, looser, t) == \A j \in 1..Len(t) : j \in looser <=> j \in loose

\* A node more, which is in no object yet.
LEMMA HoldsMore ==
  ASSUME NEW t \in Seq(Node), NEW node \in Node, NEW n \in Nat, IsNext(n, t),
         NEW g, IsMore(g, t, node),
         NEW loose, NEW looser, NEW w, NEW x, w \in BuildPC <=> x \in BuildPC,
         n = 1 \/ n \in looser,
         AgreeOn(loose, looser, t),
         NEW j \in Nat, NEW p
  PROVE  Holds(g, looser, x, j, p)
           <=> \/ Holds(t, loose, w, j, p)
               \/ j = n /\ p \in Pointers(g, n)
               \/ j = n /\ p = "key" /\ n > 1 /\ w \notin BuildPC
<1>1. g \in Seq(Node) /\ Len(g) = n /\ n \in Nat /\ g[n] = node
      /\ \A i \in 1..Len(t) : g[i] = t[i]
  BY DEF IsNext, IsMore
<1>6. n = Len(t) + 1 /\ Len(t) \in Nat
  BY DEF IsNext
<1>5. \A i \in 1..Len(t) : i \in looser <=> i \in loose
  BY DEF AgreeOn
<1>2. CASE j \in 1..Len(t)
  <2>1. j \in 1..Len(g) /\ j # n /\ g[j] = t[j]
    BY <1>1, <1>2, <1>6
  <2>2. p # "pairs" => (p \in Pointers(g, j) <=> p \in Pointers(t, j))
    BY <1>1, <1>2, <2>1, SamePointers
  <2>3. CASE j = Len(t)
    <3>3. j + 1 = n /\ n # 1
      BY <1>2, <1>6, <2>3
    <3>1. j + 1 \in looser /\ ~HasPairs(t, j)
      BY <2>3, <3>3 DEF HasPairs
    <3>2. "pairs" \notin Pointers(t, j)
      BY <1>2, <3>1, PointersAre
    <3> QED BY <1>2, <1>5, <2>1, <2>2, <3>1, <3>2 DEF Holds
  <2>4. CASE j # Len(t)
    <3>1. j + 1 \in 1..Len(t) /\ g[j + 1] = t[j + 1]
      BY <1>1, <1>2, <2>4
    <3>2. HasPairs(g, j) <=> HasPairs(t, j)
      BY <1>1, <1>2, <2>1, <3>1 DEF HasPairs
    <3>3. "pairs" \in Pointers(g, j) <=> "pairs" \in Pointers(t, j)
      BY <1>1, <1>2, <2>1, <3>2, SamePointers
    <3> QED BY <1>2, <1>5, <2>1, <2>2, <3>1, <3>3 DEF Holds
  <2> QED BY <2>3, <2>4
<1>3. CASE j = n
  <2>1. ~HasPairs(g, n) /\ n \in 1..Len(g) /\ j \notin 1..Len(t)
    BY <1>1, <1>3, <1>6 DEF HasPairs
  <2>2. "pairs" \notin Pointers(g, n)
    BY <1>1, <2>1, PointersAre
  <2> QED BY <1>3, <2>1, <2>2 DEF Holds
<1>4. CASE j \notin 1..Len(t) /\ j # n
  <2>1. j \notin 1..Len(g)
    BY <1>1, <1>4, <1>6
  <2> QED BY <1>4, <2>1 DEF Holds
<1> QED BY <1>2, <1>3, <1>4

\* s has the nodes of t that come before the one at c.
IsBefore(s, t, c) == s = SubSeq(t, 1, c - 1)

AgreeBefore(loose, looser, c) == \A j \in 1..(c - 1) : j \in looser <=> j \in loose

\* Without the nodes from c on, the first of which is in no object yet.
LEMMA HoldsLess ==
  ASSUME NEW t \in Seq(Node), NEW c \in 1..Len(t),
         NEW s, IsBefore(s, t, c),
         NEW loose, NEW looser, NEW w, NEW x, w \in BuildPC <=> x \in BuildPC,
         c > 1 => c \in loose,
         AgreeBefore(loose, looser, c),
         NEW j \in Nat, NEW p
  PROVE  Holds(s, looser, x, j, p) <=> Holds(t, loose, w, j, p) /\ j < c
<1>1. s \in Seq(Node) /\ Len(s) = c - 1 /\ \A i \in 1..(c - 1) : s[i] = t[i]
  BY DEF IsBefore
<1>2. CASE j \in 1..(c - 1)
  <2>1. j \in 1..Len(s) /\ j \in 1..Len(t) /\ j < c /\ s[j] = t[j]
    BY <1>1, <1>2
  <2>2. p # "pairs" => (p \in Pointers(s, j) <=> p \in Pointers(t, j))
    BY <1>1, <1>2, <2>1, SamePointers
  <2>5. j \in looser <=> j \in loose
    BY <1>2 DEF AgreeBefore
  <2>3. CASE j = c - 1
    <3>1. j + 1 \in loose /\ ~HasPairs(s, j)
      BY <1>1, <2>3, <1>2 DEF HasPairs
    <3>2. "pairs" \notin Pointers(s, j)
      BY <1>1, <2>1, <3>1, PointersAre
    <3> QED BY <1>2, <2>1, <2>2, <2>5, <3>1, <3>2 DEF Holds
  <2>4. CASE j # c - 1
    <3>1. j + 1 \in 1..(c - 1) /\ s[j + 1] = t[j + 1]
      BY <1>1, <1>2, <2>4
    <3>2. HasPairs(s, j) <=> HasPairs(t, j)
      BY <1>1, <1>2, <2>1, <3>1 DEF HasPairs
    <3>3. "pairs" \in Pointers(s, j) <=> "pairs" \in Pointers(t, j)
      BY <1>1, <1>2, <2>1, <3>2, SamePointers
    <3>4. j + 1 \in looser <=> j + 1 \in loose
      BY <3>1 DEF AgreeBefore
    <3> QED BY <1>2, <2>1, <2>2, <2>5, <3>1, <3>3, <3>4 DEF Holds
  <2> QED BY <2>3, <2>4
<1>3. CASE j \notin 1..(c - 1)
  <2>1. j \notin 1..Len(s) /\ ~(j \in 1..Len(t) /\ j < c)
    BY <1>1, <1>3
  <2> QED BY <2>1 DEF Holds
<1> QED BY <1>2, <1>3

AllInside(t, o, d) == \A j \in (o + 1)..Len(t) : t[j].depth >= d

IsWithout(tighter, loose, c) == \A j \in Nat : j \in tighter <=> j \in loose /\ j # c

\* The value at c gets into the object at o, whose nodes have depth d and more.
LEMMA HoldsAttached ==
  ASSUME NEW t \in Seq(Node), NEW c \in 1..Len(t), NEW o \in 1..Len(t), NEW d \in Nat,
         NEW loose, NEW tighter, NEW w, NEW x, w \in BuildPC <=> x \in BuildPC,
         o < c, t[o].depth < d, t[o].item = Object, t[c].depth = d,
         AllInside(t, o, d), c \in loose, o + 1 = c \/ o + 1 \notin loose,
         IsWithout(tighter, loose, c),
         NEW j \in Nat, NEW p
  PROVE  Holds(t, tighter, x, j, p)
           <=> \/ Holds(t, loose, w, j, p)
               \/ j = o /\ p = "pairs"
               \/ j = c /\ p = "key" /\ w \in BuildPC
<1>1. \A i \in 1..Len(t) : t[i].depth \in Nat
  BY NodeAt
<1>8. /\ \A i \in (o + 1)..Len(t) : t[i].depth >= d
      /\ \A i \in Nat : i \in tighter <=> i \in loose /\ i # c
  BY DEF AllInside, IsWithout
<1>2. HasPairs(t, o)
  <2>1. o + 1 \in (o + 1)..Len(t) /\ o + 1 \in 1..Len(t)
    OBVIOUS
  <2> QED BY <1>1, <1>8, <2>1 DEF HasPairs
<1>3. "pairs" \in Pointers(t, o)
  BY <1>2, PointersAre
<1>4. "key" \notin Pointers(t, c) /\ "key" \notin Pointers(t, o)
  BY PointersAre
<1>5. CASE j = o
  <2>1. j \in Nat /\ j + 1 \in Nat /\ j # c /\ j \in 1..Len(t)
    BY <1>5
  <2>2. j + 1 \notin tighter /\ (j \in tighter <=> j \in loose)
    BY <1>5, <1>8, <2>1
  <2> QED BY <1>3, <1>5, <2>1, <2>2 DEF Holds
<1>6. CASE j = c
  <2>1. j \in Nat /\ j + 1 \in Nat /\ j # o /\ j + 1 # c /\ j > 1 /\ j \in 1..Len(t)
    BY <1>6
  <2>2. (j + 1 \in tighter <=> j + 1 \in loose) /\ j \notin tighter /\ j \in loose
    BY <1>6, <1>8, <2>1
  <2> QED BY <1>4, <1>6, <2>1, <2>2 DEF Holds
<1>7. CASE j # o /\ j # c
  <2>1. j + 1 \in Nat /\ (j \in tighter <=> j \in loose)
    BY <1>7, <1>8
  <2>2. CASE j + 1 = c /\ j \in 1..Len(t)
    <3>1. j \in (o + 1)..Len(t)
      BY <1>7, <2>2
    <3>2. ~HasPairs(t, j)
      BY <1>1, <1>8, <2>2, <3>1 DEF HasPairs
    <3>3. "pairs" \notin Pointers(t, j)
      BY <2>2, <3>2, PointersAre
    <3> QED BY <1>7, <2>1, <3>3 DEF Holds
  <2>3. CASE j + 1 # c
    <3>1. j + 1 \in tighter <=> j + 1 \in loose
      BY <1>8, <2>1, <2>3
    <3> QED BY <1>7, <2>1, <3>1 DEF Holds
  <2> QED BY <2>2, <2>3, <1>7 DEF Holds
<1> QED BY <1>5, <1>6, <1>7

\* What json_free frees of the value at c: what is held by its nodes, but for its
\* key.
LEMMA BlocksHeld ==
  ASSUME NEW t \in Seq(Node), NEW c \in 1..Len(t), NEW loose, NEW w,
         \A j \in loose : j \in Nat /\ j <= c,
         NEW j \in Nat, NEW p \in Pointer
  PROVE  <<j, p>> \in Blocks(t, c)
           <=> Holds(t, loose, w, j, p) /\ j >= c /\ ~(j = c /\ p = "key")
<1>1. CASE j \in c..Len(t)
  <2>1. j \in 1..Len(t) /\ j + 1 \in Nat /\ j + 1 > c
    BY <1>1
  <2>2. j + 1 \notin loose /\ (j > c => j \notin loose)
    BY <1>1, <2>1
  <2>3. "key" \notin Pointers(t, j)
    BY <2>1, PointersAre
  <2>4. <<j, p>> \in Blocks(t, c)
          <=> IF p = "key" THEN j > c ELSE p \in Pointers(t, j)
    <3> DEFINE b == <<j, p>>
    <3>1. b \in (c..Len(t)) \X {"value", "string", "pairs", "key"}
      BY <1>1 DEF Pointer
    <3>2. b[1] = j /\ b[2] = p
      OBVIOUS
    <3> HIDE DEF b
    <3>3. b \in Blocks(t, c)
            <=> IF b[2] = "key" THEN b[1] > c ELSE b[2] \in Pointers(t, b[1])
      BY <3>1 DEF Blocks
    <3>4. b \in Blocks(t, c)
            <=> IF p = "key" THEN j > c ELSE p \in Pointers(t, j)
      BY <3>2, <3>3
    <3> QED BY <3>4 DEF b
  <2>5. Holds(t, loose, w, j, p)
          <=> \/ p \in Pointers(t, j)
              \/ p = "key" /\ j > 1 /\ (w \in BuildPC => j \notin loose)
    BY <2>1, <2>2 DEF Holds
  <2> QED BY <1>1, <2>1, <2>2, <2>3, <2>4, <2>5
<1>2. CASE j \notin c..Len(t)
  <2>1. <<j, p>> \notin Blocks(t, c)
    BY <1>2 DEF Blocks
  <2>2. ~(j \in 1..Len(t) /\ j >= c)
    BY <1>2
  <2> QED BY <2>1, <2>2 DEF Holds
<1> QED BY <1>1, <1>2

\* There are finitely many blocks, so that as many get lost.
LEMMA BlocksFinite ==
  ASSUME NEW t \in Seq(Node), NEW c \in 1..Len(t), NEW more, IsFiniteSet(more)
  PROVE  Cardinality(more \cup Blocks(t, c)) \in Nat
<1>1. IsFiniteSet(c..Len(t))
  BY FS_Interval
<1>2. IsFiniteSet({"value", "string", "pairs", "key"})
  <2>1. IsFiniteSet({}) 
    BY FS_EmptySet
  <2>2. IsFiniteSet({"value"})
    BY FS_Singleton
  <2>3. IsFiniteSet({"value"} \cup {"string"})
    BY <2>2, FS_AddElement
  <2>4. IsFiniteSet(({"value"} \cup {"string"}) \cup {"pairs"})
    BY <2>3, FS_AddElement
  <2>5. IsFiniteSet((({"value"} \cup {"string"}) \cup {"pairs"}) \cup {"key"})
    BY <2>4, FS_AddElement
  <2>6. (({"value"} \cup {"string"}) \cup {"pairs"}) \cup {"key"}
          = {"value", "string", "pairs", "key"}
    OBVIOUS
  <2> QED BY <2>5, <2>6
<1> DEFINE all == (c..Len(t)) \X {"value", "string", "pairs", "key"}
<1>3. IsFiniteSet(all)
  BY <1>1, <1>2, FS_Product
<1>4. Blocks(t, c) \subseteq all
  BY DEF Blocks
<1> HIDE DEF all
<1>5. IsFiniteSet(Blocks(t, c))
  BY <1>3, <1>4, FS_Subset
<1>6. IsFiniteSet(more \cup Blocks(t, c))
  BY <1>5, FS_Union
<1> QED BY <1>6, FS_CardinalityType

LEMMA BlockSize ==
  ASSUME NEW j, NEW p
  PROVE  IsFiniteSet(Block(j, p)) /\ Cardinality(Block(j, p)) = 1
  BY FS_Singleton DEF Block

-----------------------------------------------------------------------------
(* The invariant. *)

WritePC == {"write_value", "write_key", "write_next", "write_end"}

ValuePC == {"string", "string_loop", "number", "digits", "boolean", "object"}

ParsePC == ValuePC \cup {"key", "key_loop", "push", "end", "out", "no_value"}

DonePC == {"sent", "cut", "built", "written", "too_long", "parsed", "released",
           "refused", "crashed"}

PC == BuildPC \cup WritePC \cup ParsePC \cup DonePC

MemoryType == [heap : SUBSET (Nat \X Pointer), lost : Nat, failed : Nat,
               wrong : BOOLEAN]

TypeOK ==
  /\ pc \in PC
  /\ value \in Values \cup {<<>>}
  /\ tree \in Seq(Node) /\ open \in Seq(Nat)
  /\ text \in Seq(Character) /\ room \in Nat /\ beyond \in Character
  /\ at \in Nat /\ from \in Nat
  /\ string \in Seq(Character) /\ key \in Seq(Character)
  /\ number \in 0..(Range64 - 1)
  /\ memory \in MemoryType

\* The stack o of the calls for objects, and the nodes inside them: all that came
\* later.
Nested(t, o) ==
  /\ o = <<>> => t = <<>>
  /\ o # <<>> => o[1] = 1
  /\ \A k \in 1..Len(o) :
       /\ o[k] \in 1..Len(t)
       /\ t[o[k]].depth = k - 1
       /\ t[o[k]].item \in {Object, Nothing}
       /\ \A j \in (o[k] + 1)..Len(t) : t[j].depth >= k

\* The objects that calls are for, but for the outermost.
Inside(o) == {o[k] : k \in 2..Len(o)}

\* The last value inside d objects.
LastAt(t, d) == {i \in 1..Len(t) : /\ t[i].depth = d
                                   /\ \A j \in (i + 1)..Len(t) : t[j].depth > d}

\* The values that are in no object yet, with the program at c.
Unattached(c, t, o) ==
  IF c \in BuildPC \cup ParsePC
    THEN Inside(o) \cup IF c \in {"attach", "push"} THEN LastAt(t, Len(o)) ELSE {}
    ELSE {}

\* Where there is no object nothing can be attached.
Bare(t, o, loose) ==
  \A k \in 1..Len(o) :
    t[o[k]].item = Nothing /\ o[k] < Len(t) => o[k] + 1 \in loose

Stack ==
  /\ pc \in BuildPC \cup ParsePC => Nested(tree, open) /\ Bare(tree, open, Unattached(pc, tree, open))
  /\ pc \in {"sent", "cut", "built", "parsed", "refused"} => open = <<>>
  /\ pc \in {"sent", "cut", "released", "refused"} => tree = <<>>
  /\ pc \in {"built", "parsed"} => tree # <<>>
  /\ pc \in ParsePC \ {"object"} => open # <<>>

\* Where the functions that build and write are.
Places ==
  /\ pc \in BuildPC => value \in Values
  /\ pc = "create" => (at = 0 <=> open = <<>>)
  /\ pc = "attach" => at > 0
  /\ pc \in {"attach", "push"} => open # <<>> /\ LastAt(tree, Len(open)) # {}
  /\ pc \in {"write_value", "write_key"} => at < Len(tree)

\* The blocks of what is being read, for the n-th node.
Loose(c, o, n) ==
  IF c \in {"key_loop", "no_value"} \/ (c \in ValuePC /\ o # <<>>)
    THEN Block(n, "key") \cup IF c = "string_loop" THEN Block(n, "string") ELSE {}
    ELSE {}

\* Every block in use has a pointer to it, and every pointer a block.
Owned(heap, t, loose, w, others) ==
  \A j \in Nat, p \in Pointer :
    <<j, p>> \in heap <=> Holds(t, loose, w, j, p) \/ <<j, p>> \in others

Heap ==
  /\ ~memory.wrong
  /\ pc # "crashed" => Owned(memory.heap, tree, Unattached(pc, tree, open),
                             pc, Loose(pc, open, NewNode))

\* What a failure explains.
Failures ==
  /\ memory.failed = 0 =>
       /\ memory.lost = 0
       /\ \A i \in 1..Len(tree) : tree[i].item # Nothing
  /\ pc \in ParsePC \cup {"sent", "cut", "parsed", "refused"} =>
       memory.lost <= memory.failed
  /\ pc = "create" /\ at = 0 => memory.failed = 0
  /\ pc = "crashed" => memory.failed > 0

Kept == Stack /\ Places /\ Heap /\ Failures

IInv == TypeOK /\ Kept

-----------------------------------------------------------------------------
(* What happens to the stack and the nodes. *)

LEMMA FrontIs ==
  ASSUME NEW S, NEW o \in Seq(S), o # <<>>
  PROVE  /\ Len(o) \in Nat /\ Len(o) > 0
         /\ Front(o) \in Seq(S) /\ Len(Front(o)) = Len(o) - 1
         /\ \A k \in 1..(Len(o) - 1) : Front(o)[k] = o[k]
         /\ Len(o) = 1 => Front(o) = <<>>
<1>1. Len(o) \in Nat /\ Len(o) > 0
  OBVIOUS
<1>2. Front(o) = SubSeq(o, 1, Len(o) - 1)
  BY DEF Front
<1> DEFINE m == Len(o) - 1
<1>3. m \in Nat /\ m <= Len(o)
  BY <1>1
<1>4. \A i \in 1..m : o[i] \in S
  BY <1>3
<1> HIDE DEF m
<1>5. SubSeq(o, 1, m) = [i \in 1..m |-> o[i]]
  BY <1>1, <1>3
<1>6. SubSeq(o, 1, m) \in Seq(S) /\ Len(SubSeq(o, 1, m)) = m
  BY <1>3, <1>4, <1>5
<1>7. m = 0 => SubSeq(o, 1, m) = <<>>
  BY <1>6
<1>8. Len(o) = 1 => m = 0
  BY DEF m
<1> QED BY <1>1, <1>2, <1>5, <1>6, <1>7, <1>8 DEF m

\* The innermost object is the latest.
LEMMA InnermostIsLatest ==
  ASSUME NEW t \in Seq(Node), NEW o \in Seq(Nat), Nested(t, o), o # <<>>
  PROVE  /\ Len(o) \in Nat \ {0} /\ o[Len(o)] \in 1..Len(t)
         /\ t[o[Len(o)]].depth = Len(o) - 1
         /\ t[o[Len(o)]].item \in {Object, Nothing}
         /\ \A j \in (o[Len(o)] + 1)..Len(t) : t[j].depth >= Len(o)
         /\ \A k \in 1..(Len(o) - 1) : o[k] < o[Len(o)]
         /\ \A j \in Inside(o) : j \in Nat /\ j <= o[Len(o)]
<1> DEFINE n == Len(o)
           last == o[n]
<1>1. n \in Nat \ {0} /\ n \in 1..n
  OBVIOUS
<1>2. /\ last \in 1..Len(t)
      /\ t[last].depth = n - 1
      /\ t[last].item \in {Object, Nothing}
      /\ \A j \in (last + 1)..Len(t) : t[j].depth >= n
  BY <1>1 DEF Nested
<1>3. ASSUME NEW k \in 1..(n - 1) PROVE o[k] < last
  <2>1. k \in 1..n /\ k < n /\ k \in Nat
    BY <1>1
  <2>2. o[k] \in 1..Len(t) /\ t[o[k]].depth = k - 1
    BY <2>1 DEF Nested
  <2> HIDE DEF n, last
  <2>3. o[k] # last
    BY <1>1, <1>2, <2>1, <2>2
  <2>4. ASSUME o[k] > last PROVE FALSE
    <3>1. o[k] \in (last + 1)..Len(t)
      BY <1>2, <2>2, <2>4
    <3> QED BY <1>1, <1>2, <2>1, <2>2, <3>1
  <2> QED BY <1>2, <2>2, <2>3, <2>4
<1>4. ASSUME NEW j \in Inside(o) PROVE j \in Nat /\ j <= last
  <2>1. PICK k \in 2..n : j = o[k]
    BY DEF Inside
  <2> HIDE DEF n, last
  <2>2. k = n \/ k \in 1..(n - 1)
    BY <1>1, <2>1
  <2>3. o[n] = last
    BY DEF last
  <2>4. CASE k = n
    BY <1>2, <2>1, <2>3, <2>4
  <2>5. CASE k \in 1..(n - 1)
    <3>1. o[k] < last /\ o[k] \in Nat
      <4>1. k \in 1..Len(o)
        BY <1>1, <2>5 DEF n
      <4> QED BY <1>3, <2>5, <4>1
    <3> QED BY <1>2, <2>1, <3>1
  <2> QED BY <2>2, <2>4, <2>5
<1> HIDE DEF n, last
<1>5. /\ n \in Nat \ {0} /\ last \in 1..Len(t)
      /\ t[last].depth = n - 1
      /\ t[last].item \in {Object, Nothing}
      /\ \A j \in (last + 1)..Len(t) : t[j].depth >= n
      /\ \A k \in 1..(n - 1) : o[k] < last
      /\ \A j \in Inside(o) : j \in Nat /\ j <= last
  BY <1>1, <1>2, <1>3, <1>4
<1> QED BY <1>5 DEF n, last

\* The value an object is to get is one, and inside the innermost object.
LEMMA LastIsOne ==
  ASSUME NEW t \in Seq(Node), NEW d \in Nat,
         NEW c \in LastAt(t, d)
  PROVE  LastAt(t, d) = {c}
<1>1. \A i, j \in LastAt(t, d) : ~(i < j)
  <2> SUFFICES ASSUME NEW i \in LastAt(t, d), NEW j \in LastAt(t, d), i < j
               PROVE  FALSE
    OBVIOUS
  <2>1. i \in 1..Len(t) /\ j \in 1..Len(t) /\ t[j].depth = d
        /\ \A k \in (i + 1)..Len(t) : t[k].depth > d
    BY DEF LastAt
  <2>2. j \in (i + 1)..Len(t)
    BY <2>1
  <2>3. t[j].depth > d
    BY <2>1, <2>2
  <2> QED BY <2>1, <2>3
<1>2. \A i \in LastAt(t, d) : i \in Nat
  BY DEF LastAt
<1>3. \A i \in LastAt(t, d) : i = c
  BY <1>1, <1>2
<1> QED BY <1>3

LEMMA ChildIs ==
  ASSUME tree \in Seq(Node), open \in Seq(Nat), LastAt(tree, Len(open)) # {}
  PROVE  LastAt(tree, Len(open)) = {Child} /\ Child \in 1..Len(tree)
<1> DEFINE IsOne(i) == i \in 1..Len(tree) /\ tree[i].depth = Len(open)
                       /\ \A j \in (i + 1)..Len(tree) : tree[j].depth > Len(open)
<1>1. LastAt(tree, Len(open)) = {i \in 1..Len(tree) : IsOne(i)}
  BY DEF LastAt
<1>2. Child = CHOOSE i \in 1..Len(tree) : IsOne(i)
  BY DEF Child
<1> HIDE DEF IsOne
<1>3. \E i \in 1..Len(tree) : IsOne(i)
  BY <1>1
<1>4. Child \in 1..Len(tree) /\ IsOne(Child)
  BY <1>2, <1>3
<1>5. Child \in LastAt(tree, Len(open)) /\ Len(open) \in Nat
  BY <1>1, <1>4
<1> QED BY <1>4, <1>5, LastIsOne

LEMMA ChildIsInside ==
  ASSUME NEW t \in Seq(Node), NEW o \in Seq(Nat), Nested(t, o), o # <<>>,
         NEW c \in LastAt(t, Len(o))
  PROVE  /\ c \in 1..Len(t) /\ o[Len(o)] < c /\ c \notin Inside(o) /\ c > 1
         /\ t[c].depth = Len(o)
         /\ o[Len(o)] + 1 # c => o[Len(o)] + 1 \notin Inside(o) \cup {c}
         /\ \A j \in Inside(o) \cup {c} : j \in Nat /\ j <= c
<1> DEFINE n == Len(o)
           last == o[n]
<1>1. /\ n \in Nat \ {0} /\ last \in 1..Len(t)
      /\ t[last].depth = n - 1
      /\ \A j \in Inside(o) : j \in Nat /\ j <= last
  BY InnermostIsLatest
<1>2. /\ c \in 1..Len(t) /\ t[c].depth = n
      /\ \A j \in (c + 1)..Len(t) : t[j].depth > n
  BY DEF LastAt
<1> HIDE DEF n, last
<1>3. last # c
  BY <1>1, <1>2
<1>4. ASSUME last > c PROVE FALSE
  <2>1. last \in (c + 1)..Len(t)
    BY <1>1, <1>2, <1>4
  <2> QED BY <1>1, <1>2, <2>1
<1>5. last < c /\ last >= 1 /\ c > 1
  BY <1>1, <1>2, <1>3, <1>4
<1>6. c \notin Inside(o) /\ last + 1 \notin Inside(o)
  BY <1>1, <1>2, <1>5
<1>7. \A j \in Inside(o) \cup {c} : j \in Nat /\ j <= c
  BY <1>1, <1>2, <1>5
<1>8. last + 1 # c => last + 1 \notin Inside(o) \cup {c}
  BY <1>6
<1> QED BY <1>2, <1>5, <1>6, <1>7, <1>8 DEF n, last

\* A node more inside the innermost object.
LEMMA NestedMore ==
  ASSUME NEW t \in Seq(Node), NEW o \in Seq(Nat), NEW node \in Node,
         Nested(t, o), node.depth = Len(o), o # <<>>,
         NEW g, IsMore(g, t, node), NEW n, IsNext(n, t),
         NEW loose, NEW looser, Bare(t, o, loose), n \in looser, AgreeOn(loose, looser, t)
  PROVE  /\ Nested(g, o) /\ Bare(g, o, looser)
         /\ LastAt(g, Len(o)) = {n}
<1>1. /\ g \in Seq(Node) /\ Len(t) \in Nat /\ Len(g) = Len(t) + 1
      /\ g[Len(t) + 1] = node /\ \A i \in 1..Len(t) : g[i] = t[i]
      /\ n = Len(t) + 1
  BY DEF IsMore, IsNext
<1>2. Nested(g, o)
  <2>1. g # <<>> /\ o[1] = 1
    BY <1>1 DEF Nested
  <2>2. ASSUME NEW k \in 1..Len(o)
        PROVE  /\ o[k] \in 1..Len(g)
               /\ g[o[k]].depth = k - 1
               /\ g[o[k]].item \in {Object, Nothing}
               /\ \A j \in (o[k] + 1)..Len(g) : g[j].depth >= k
    <3>1. /\ o[k] \in 1..Len(t) /\ t[o[k]].depth = k - 1
          /\ t[o[k]].item \in {Object, Nothing}
          /\ \A j \in (o[k] + 1)..Len(t) : t[j].depth >= k
      BY DEF Nested
    <3>2. ASSUME NEW j \in (o[k] + 1)..Len(g) PROVE g[j].depth >= k
      <4>1. CASE j = Len(t) + 1
        BY <1>1, <4>1
      <4>2. CASE j # Len(t) + 1
        <5>1. j \in (o[k] + 1)..Len(t) /\ j \in 1..Len(t)
          BY <1>1, <3>1, <4>2
        <5> QED BY <1>1, <3>1, <5>1
      <4> QED BY <4>1, <4>2
    <3>3. o[k] \in 1..Len(g) /\ g[o[k]] = t[o[k]]
      BY <1>1, <3>1
    <3> QED BY <3>1, <3>2, <3>3
  <2> QED BY <2>1, <2>2 DEF Nested
<1>3. Bare(g, o, looser)
  <2> SUFFICES ASSUME NEW k \in 1..Len(o), g[o[k]].item = Nothing, o[k] < Len(g)
               PROVE  o[k] + 1 \in looser
    BY DEF Bare
  <2>1. o[k] \in 1..Len(t)
    BY DEF Nested
  <2>2. CASE o[k] = Len(t)
    BY <1>1, <2>2
  <2>3. CASE o[k] # Len(t)
    <3>1. o[k] + 1 \in 1..Len(t) /\ o[k] < Len(t) /\ t[o[k]].item = Nothing
      BY <1>1, <2>1, <2>3
    <3>2. o[k] + 1 \in loose
      BY <3>1 DEF Bare
    <3> QED BY <3>1, <3>2 DEF AgreeOn
  <2> QED BY <2>2, <2>3
<1>4. n \in LastAt(g, Len(o)) /\ Len(o) \in Nat
  BY <1>1 DEF LastAt
<1> QED BY <1>1, <1>2, <1>3, <1>4, LastIsOne

LEMMA AppendIs ==
  ASSUME NEW S, NEW o \in Seq(S), NEW x \in S
  PROVE  /\ Append(o, x) \in Seq(S) /\ Len(Append(o, x)) = Len(o) + 1
         /\ Append(o, x)[Len(o) + 1] = x /\ Append(o, x) # <<>>
         /\ \A k \in 1..Len(o) : Append(o, x)[k] = o[k]
         /\ Len(o) \in Nat
  OBVIOUS

LEMMA InsideMore ==
  ASSUME NEW o \in Seq(Nat), NEW n \in Nat
  PROVE  /\ o # <<>> => Inside(Append(o, n)) = Inside(o) \cup {n}
         /\ o = <<>> => Inside(Append(o, n)) = {} /\ Inside(o) = {}
<1> DEFINE p == Append(o, n)
           m == Len(o)
<1>1. m \in Nat /\ Len(p) = m + 1 /\ p[m + 1] = n /\ \A k \in 1..m : p[k] = o[k]
  OBVIOUS
<1>2. o # <<>> => m >= 1
  OBVIOUS
<1>3. o = <<>> => m = 0
  OBVIOUS
<1> HIDE DEF p
<1>4. o # <<>> => Inside(p) = Inside(o) \cup {n}
  <2> SUFFICES ASSUME o # <<>> PROVE Inside(p) = Inside(o) \cup {n}
    OBVIOUS
  <2>1. Inside(p) = {p[k] : k \in 2..(m + 1)} /\ Inside(o) = {o[k] : k \in 2..m}
    BY <1>1 DEF Inside
  <2> HIDE DEF m
  <2>2. \A k \in 2..m : k \in 2..(m + 1) /\ p[k] = o[k]
    BY <1>1
  <2>3. \A k \in 2..(m + 1) : k = m + 1 \/ (k \in 2..m /\ p[k] = o[k])
    BY <1>1
  <2>4. m + 1 \in 2..(m + 1) /\ p[m + 1] = n
    BY <1>1, <1>2
  <2> QED BY <2>1, <2>2, <2>3, <2>4
<1>5. o = <<>> => Inside(p) = {} /\ Inside(o) = {}
  <2> SUFFICES ASSUME o = <<>> PROVE Inside(p) = {} /\ Inside(o) = {}
    OBVIOUS
  <2>1. Len(p) = 1 /\ Len(o) = 0
    BY <1>1, <1>3
  <2>2. 2..1 = {} /\ 2..0 = {}
    OBVIOUS
  <2> QED BY <2>1, <2>2 DEF Inside
<1> QED BY <1>4, <1>5 DEF p

\* A call for a new object.
LEMMA NestedPush ==
  ASSUME NEW t \in Seq(Node), NEW o \in Seq(Nat), NEW node \in Node,
         Nested(t, o), node.depth = Len(o), node.item \in {Object, Nothing},
         NEW g, g = Append(t, node), NEW n, IsNext(n, t),
         Bare(t, o, Inside(o))
  PROVE  /\ Append(o, n) \in Seq(Nat) /\ Append(o, n) # <<>>
         /\ Nested(g, Append(o, n)) /\ Bare(g, Append(o, n), Inside(Append(o, n)))
         /\ n > 1 => n \in Inside(Append(o, n))
         /\ AgreeOn(Inside(o), Inside(Append(o, n)), t)
<1> DEFINE p == Append(o, n)
           m == Len(o)
           loose == Inside(o)
<1>9. n = Len(t) + 1
  BY DEF IsNext
<1>1. n = Len(t) + 1 /\ n \in Nat /\ n > 0 /\ p \in Seq(Nat) /\ p # <<>> /\ m \in Nat /\ Len(p) = m + 1
      /\ p[m + 1] = n /\ \A k \in 1..m : p[k] = o[k]
  BY <1>9
<1>2. /\ g \in Seq(Node) /\ Len(t) \in Nat /\ Len(g) = n
      /\ g[n] = node /\ \A i \in 1..Len(t) : g[i] = t[i]
  BY <1>1
<1>3. o # <<>> => Inside(p) = loose \cup {n}
  BY <1>1, InsideMore
<1>4. o = <<>> => t = <<>> /\ n = 1 /\ m = 0 /\ Inside(p) = {} /\ Len(t) = 0
  <2> SUFFICES ASSUME o = <<>>
               PROVE  t = <<>> /\ n = 1 /\ m = 0 /\ Inside(p) = {} /\ Len(t) = 0
    OBVIOUS
  <2>1. t = <<>>
    BY DEF Nested
  <2>2. Len(t) = 0 /\ m = 0
    BY <2>1
  <2>3. n = 1
    BY <1>1, <2>2
  <2>4. Inside(p) = {}
    BY <1>1, InsideMore
  <2> QED BY <2>1, <2>2, <2>3, <2>4
<1> HIDE DEF p, loose
<1>5. \A j \in 1..Len(t) : j \in Inside(p) <=> j \in loose
  BY <1>2, <1>3, <1>4
<1>6. n > 1 => n \in Inside(p)
  BY <1>3, <1>4
<1>7. CASE o = <<>>
  <2>1. p[1] = 1 /\ Len(p) = 1 /\ g # <<>> /\ Len(g) = 1 /\ g[1] = node
    BY <1>1, <1>2, <1>4, <1>7
  <2>2. node.depth = 0
    BY <1>4, <1>7
  <2>3. Nested(g, p)
    <3>1. \A j \in (1 + 1)..1 : FALSE
      OBVIOUS
    <3> QED BY <1>1, <2>1, <2>2, <3>1 DEF Nested
  <2>4. Bare(g, p, Inside(p))
    BY <2>1 DEF Bare
  <2> QED BY <1>1, <1>5, <1>6, <2>3, <2>4 DEF p, loose, AgreeOn
<1>8. CASE o # <<>>
  <2>1. n \in Inside(p)
    BY <1>3, <1>8
  <2>7. Bare(t, o, loose)
    BY DEF loose
  <2>8. IsMore(g, t, node)
    BY DEF IsMore
  <2>2. Nested(g, o) /\ Bare(g, o, Inside(p))
    BY <1>5, <1>8, <2>1, <2>7, <2>8, NestedMore DEF AgreeOn
  <2>3. m >= 1 /\ m \in Nat /\ Len(o) = m
    BY <1>8
  <2> HIDE DEF m
  <2>4. \A k \in 1..Len(p) : k = m + 1 \/ k \in 1..m
    BY <1>1
  <2>5. Nested(g, p)
    <3>1. p[1] = 1 /\ g # <<>>
      <4>1. 1 \in 1..m /\ o[1] = 1
        BY <1>8, <2>3 DEF Nested
      <4>2. Len(g) # 0
        BY <1>1, <1>2
      <4> QED BY <1>1, <4>1, <4>2
    <3>2. ASSUME NEW k \in 1..Len(p)
          PROVE  /\ p[k] \in 1..Len(g)
                 /\ g[p[k]].depth = k - 1
                 /\ g[p[k]].item \in {Object, Nothing}
                 /\ \A j \in (p[k] + 1)..Len(g) : g[j].depth >= k
      <4>1. CASE k = m + 1
        <5>1. p[k] = n /\ n \in 1..Len(g) /\ g[n] = node
          BY <1>1, <1>2, <4>1
        <5>2. \A j \in (n + 1)..n : FALSE
          BY <1>1
        <5>3. node.depth = k - 1
          BY <2>3, <4>1
        <5> QED BY <1>2, <5>1, <5>2, <5>3
      <4>2. CASE k \in 1..m
        <5>1. p[k] = o[k] /\ k \in 1..Len(o)
          BY <1>1, <2>3, <4>2
        <5> QED BY <2>2, <5>1 DEF Nested
      <4> QED BY <2>4, <4>1, <4>2
    <3> QED BY <1>1, <3>1, <3>2 DEF Nested
  <2>6. Bare(g, p, Inside(p))
    <3> SUFFICES ASSUME NEW k \in 1..Len(p), g[p[k]].item = Nothing, p[k] < Len(g)
                 PROVE  p[k] + 1 \in Inside(p)
      BY DEF Bare
    <3>1. k # m + 1
      BY <1>1, <1>2
    <3>2. p[k] = o[k] /\ k \in 1..Len(o)
      BY <1>1, <2>3, <2>4, <3>1
    <3> QED BY <2>2, <3>2 DEF Bare
  <2> QED BY <1>1, <1>5, <1>6, <2>5, <2>6 DEF p, loose, AgreeOn
<1> QED BY <1>7, <1>8

\* A value of the innermost object is given up.
LEMMA NestedLess ==
  ASSUME NEW t \in Seq(Node), NEW o \in Seq(Nat), Nested(t, o), o # <<>>,
         NEW c \in 1..Len(t), o[Len(o)] < c,
         NEW s, IsBefore(s, t, c),
         NEW loose, NEW looser, Bare(t, o, loose),
         AgreeBefore(loose, looser, c)
  PROVE  Nested(s, o) /\ Bare(s, o, looser)
<1>1. s \in Seq(Node) /\ Len(s) = c - 1 /\ \A i \in 1..(c - 1) : s[i] = t[i]
  BY DEF IsBefore
<1>2. ASSUME NEW k \in 1..Len(o) PROVE o[k] \in 1..(c - 1) /\ o[k] \in 1..Len(t)
  <2>1. o[k] \in 1..Len(t)
    BY DEF Nested
  <2>2. k = Len(o) \/ k \in 1..(Len(o) - 1)
    OBVIOUS
  <2>3. o[k] <= o[Len(o)] /\ o[Len(o)] \in 1..Len(t)
    BY <2>1, <2>2, InnermostIsLatest
  <2> QED BY <2>1, <2>3
<1>3. Nested(s, o)
  <2>1. o[1] = 1 /\ 1 \in 1..Len(o)
    BY DEF Nested
  <2>2. s # <<>>
    <3>1. 1 \in 1..(c - 1)
      BY <1>2, <2>1
    <3>2. Len(s) # 0
      BY <1>1, <3>1
    <3> QED BY <3>2
  <2>3. ASSUME NEW k \in 1..Len(o)
        PROVE  /\ o[k] \in 1..Len(s)
               /\ s[o[k]].depth = k - 1
               /\ s[o[k]].item \in {Object, Nothing}
               /\ \A j \in (o[k] + 1)..Len(s) : s[j].depth >= k
    <3>1. /\ t[o[k]].depth = k - 1
          /\ t[o[k]].item \in {Object, Nothing}
          /\ \A j \in (o[k] + 1)..Len(t) : t[j].depth >= k
      BY DEF Nested
    <3>2. o[k] \in 1..(c - 1) /\ s[o[k]] = t[o[k]]
      BY <1>1, <1>2
    <3>3. \A j \in (o[k] + 1)..Len(s) :
            j \in (o[k] + 1)..Len(t) /\ j \in 1..(c - 1) /\ s[j] = t[j]
      BY <1>1, <3>2
    <3> QED BY <1>1, <3>1, <3>2, <3>3
  <2> QED BY <2>1, <2>2, <2>3 DEF Nested
<1>4. Bare(s, o, looser)
  <2> SUFFICES ASSUME NEW k \in 1..Len(o), s[o[k]].item = Nothing, o[k] < Len(s)
               PROVE  o[k] + 1 \in looser
    BY DEF Bare
  <2>1. o[k] \in 1..(c - 1) /\ o[k] < Len(t) /\ t[o[k]].item = Nothing
        /\ o[k] + 1 \in 1..(c - 1)
    BY <1>1, <1>2
  <2>2. o[k] + 1 \in loose
    BY <2>1 DEF Bare
  <2> QED BY <2>1, <2>2 DEF AgreeBefore
<1> QED BY <1>3, <1>4

\* The object has got a value.
LEMMA BareAttached ==
  ASSUME NEW t \in Seq(Node), NEW o \in Seq(Nat), Nested(t, o), o # <<>>,
         t[o[Len(o)]].item # Nothing,
         NEW c \in LastAt(t, Len(o)),
         Bare(t, o, Inside(o) \cup {c})
  PROVE  Bare(t, o, Inside(o))
<1> SUFFICES ASSUME NEW k \in 1..Len(o), t[o[k]].item = Nothing, o[k] < Len(t)
             PROVE  o[k] + 1 \in Inside(o)
  BY DEF Bare
<1>1. o[k] + 1 \in Inside(o) \cup {c}
  BY DEF Bare
<1>2. k \in 1..(Len(o) - 1)
  OBVIOUS
<1>3. o[k] < o[Len(o)] /\ o[Len(o)] < c
  BY <1>2, InnermostIsLatest, ChildIsInside
<1>4. o[k] \in Nat /\ o[Len(o)] \in Nat /\ c \in Nat
  BY DEF LastAt
<1>5. o[k] + 1 # c
  BY <1>3, <1>4
<1> QED BY <1>1, <1>5

\* The innermost call returns its object.
LEMMA NestedPop ==
  ASSUME NEW t \in Seq(Node), NEW o \in Seq(Nat), Nested(t, o), o # <<>>,
         Bare(t, o, Inside(o))
  PROVE  /\ Len(o) = 1 => Front(o) = <<>> /\ Inside(o) = {}
         /\ Len(o) # 1 =>
              /\ Front(o) # <<>>
              /\ Nested(t, Front(o))
              /\ LastAt(t, Len(Front(o))) = {o[Len(o)]}
              /\ Inside(Front(o)) \cup {o[Len(o)]} = Inside(o)
              /\ Bare(t, Front(o), Inside(o))
<1> DEFINE n == Len(o)
           last == o[n]
           f == Front(o)
<1>1. n \in Nat /\ n > 0 /\ f \in Seq(Nat) /\ Len(f) = n - 1
      /\ \A k \in 1..(n - 1) : f[k] = o[k]
  BY FrontIs
<1>2. n = 1 => f = <<>> /\ Inside(o) = {}
  <2> SUFFICES ASSUME n = 1 PROVE f = <<>> /\ Inside(o) = {}
    OBVIOUS
  <2>1. f = <<>>
    BY FrontIs
  <2>2. 2..1 = {}
    OBVIOUS
  <2> QED BY <2>1, <2>2 DEF Inside
<1>3. ASSUME n # 1
      PROVE  /\ f # <<>> /\ Nested(t, f) /\ LastAt(t, Len(f)) = {last}
             /\ Inside(f) \cup {last} = Inside(o)
             /\ Bare(t, f, Inside(o))
  <2>1. /\ last \in 1..Len(t) /\ t[last].depth = n - 1
        /\ \A j \in (last + 1)..Len(t) : t[j].depth >= n
    BY InnermostIsLatest
  <2>2. o[1] = 1 /\ t # <<>>
    BY <2>1 DEF Nested
  <2> HIDE DEF f
  <2>3. f # <<>> /\ 1 \in 1..(n - 1) /\ f[1] = 1
    BY <1>1, <1>3, <2>2
  <2>4. \A k \in 1..Len(f) : k \in 1..Len(o) /\ f[k] = o[k]
    BY <1>1
  <2>5. Nested(t, f)
    <3>1. ASSUME NEW k \in 1..Len(f)
          PROVE  /\ f[k] \in 1..Len(t)
                 /\ t[f[k]].depth = k - 1
                 /\ t[f[k]].item \in {Object, Nothing}
                 /\ \A j \in (f[k] + 1)..Len(t) : t[j].depth >= k
      BY <2>4 DEF Nested
    <3> QED BY <2>3, <3>1 DEF Nested
  <2>6. LastAt(t, Len(f)) = {last}
    <3>1. n \in Nat /\ n - 1 \in Nat /\ \A j \in (last + 1)..Len(t) : j \in 1..Len(t)
      BY <1>1, <2>1
    <3>2. \A j \in 1..Len(t) : t[j].depth \in Nat
      BY NodeAt
    <3> HIDE DEF n, last
    <3>3. last \in LastAt(t, n - 1)
      BY <2>1, <3>1, <3>2 DEF LastAt
    <3> QED BY <1>1, <3>1, <3>3, LastIsOne
  <2>7. Inside(f) \cup {last} = Inside(o)
    <3>1. Inside(o) = {o[k] : k \in 2..n} /\ Inside(f) = {f[k] : k \in 2..(n - 1)}
      BY <1>1 DEF Inside
    <3>2. o[n] = last
      OBVIOUS
    <3> HIDE DEF n, last
    <3>3. \A k \in 2..(n - 1) : k \in 2..n /\ f[k] = o[k]
      BY <1>1
    <3>4. \A k \in 2..n : k = n \/ (k \in 2..(n - 1) /\ f[k] = o[k])
      BY <1>1
    <3>5. n \in 2..n
      BY <1>1, <1>3
    <3> QED BY <3>1, <3>2, <3>3, <3>4, <3>5
  <2>8. Bare(t, f, Inside(o))
    BY <2>4 DEF Bare
  <2> QED BY <2>3, <2>5, <2>6, <2>7, <2>8
<1> QED BY <1>2, <1>3

\* The innermost call returns without its object, and gives up what is inside.
LEMMA NestedOut ==
  ASSUME NEW t \in Seq(Node), NEW o \in Seq(Nat), Nested(t, o), o # <<>>,
         Bare(t, o, Inside(o)),
         NEW c, c = o[Len(o)], NEW s, IsBefore(s, t, c)
  PROVE  /\ Nested(s, Front(o)) /\ Bare(s, Front(o), Inside(Front(o)))
         /\ Len(o) = 1 => c = 1 /\ s = <<>> /\ Front(o) = <<>>
         /\ Len(o) # 1 => Front(o) # <<>>
         /\ c > 1 => c \in Inside(o)
         /\ AgreeBefore(Inside(o), Inside(Front(o)), c)
<1> DEFINE n == Len(o)
           f == Front(o)
<1>1. c \in 1..Len(t) /\ n \in Nat \ {0}
  BY InnermostIsLatest
<1>2. s \in Seq(Node) /\ Len(s) = c - 1 /\ \A i \in 1..(c - 1) : s[i] = t[i]
  BY <1>1 DEF IsBefore
<1>3. CASE n = 1
  <2>1. c = 1 /\ f = <<>> /\ Inside(o) = {}
    <3>1. o[1] = 1
      BY DEF Nested
    <3> QED BY <1>3, <3>1, NestedPop
  <2>2. s = <<>>
    BY <1>2, <2>1
  <2>3. Inside(f) = {} /\ Len(f) = 0
    <3>1. Len(f) = 0 /\ 2..0 = {}
      BY <2>1
    <3> QED BY <3>1 DEF Inside
  <2>4. 1..0 = {}
    OBVIOUS
  <2> HIDE DEF f
  <2>6. \A k \in 1..Len(f) : FALSE
    BY <2>3, <2>4
  <2>7. f = <<>>
    BY <2>1 DEF f
  <2>8. Nested(s, f)
    BY <2>2, <2>6, <2>7 DEF Nested
  <2>9. Bare(s, f, Inside(f))
    <3> DEFINE loose == Inside(f)
    <3> HIDE DEF loose
    <3>1. Bare(s, f, loose)
      BY <2>6 DEF Bare
    <3> QED BY <3>1 DEF loose
  <2>5. Nested(s, f) /\ Bare(s, f, Inside(f))
    BY <2>8, <2>9
  <2>10. AgreeBefore(Inside(o), Inside(f), c)
    BY <2>1, <2>3, <2>4 DEF AgreeBefore
  <2> QED BY <1>3, <2>1, <2>2, <2>5, <2>10 DEF f
<1>4. CASE n # 1
  <2>1. /\ f # <<>> /\ Nested(t, f)
        /\ LastAt(t, Len(f)) = {c}
        /\ Inside(f) \cup {c} = Inside(o)
        /\ Bare(t, f, Inside(o))
    BY <1>4, NestedPop
  <2>2. f \in Seq(Nat)
    BY FrontIs
  <2> HIDE DEF f
  <2>3. f[Len(f)] < c
    BY <2>1, <2>2, ChildIsInside
  <2>4. AgreeBefore(Inside(o), Inside(f), c)
    BY <1>1, <2>1 DEF AgreeBefore
  <2>5. Nested(s, f) /\ Bare(s, f, Inside(f))
    BY <1>1, <2>1, <2>2, <2>3, <2>4, NestedLess
  <2>6. c \in Inside(o)
    BY <2>1
  <2> QED BY <1>4, <2>1, <2>4, <2>5, <2>6 DEF f
<1> QED BY <1>3, <1>4

-----------------------------------------------------------------------------
(* Memory. *)

BlockSets == SUBSET (Nat \X Pointer)

LEMMA AllocIs ==
  ASSUME NEW m \in MemoryType, NEW b \in BlockSets
  PROVE  /\ Alloc(m, b) \in MemoryType
         /\ Alloc(m, b).heap = m.heap \cup b
         /\ Alloc(m, b).lost = m.lost /\ Alloc(m, b).failed = m.failed
         /\ Alloc(m, b).wrong = m.wrong
  BY DEF Alloc, MemoryType, BlockSets

LEMMA FreeIs ==
  ASSUME NEW m \in MemoryType, NEW b \in BlockSets
  PROVE  /\ Free(m, b) \in MemoryType
         /\ Free(m, b).heap = m.heap \ b
         /\ Free(m, b).lost = m.lost /\ Free(m, b).failed = m.failed
         /\ Free(m, b).wrong <=> m.wrong \/ ~(b \subseteq m.heap)
<1> DEFINE w == m.wrong \/ ~(b \subseteq m.heap)
<1>1. w \in BOOLEAN
  OBVIOUS
<1>2. Free(m, b) = [m EXCEPT !.heap = @ \ b, !.wrong = w]
  BY DEF Free
<1> HIDE DEF w
<1>3. /\ Free(m, b) \in MemoryType
      /\ Free(m, b).heap = m.heap \ b
      /\ Free(m, b).lost = m.lost /\ Free(m, b).failed = m.failed
      /\ Free(m, b).wrong = w
  BY <1>1, <1>2 DEF MemoryType, BlockSets
<1> QED BY <1>3 DEF w

LEMMA FailIs ==
  ASSUME NEW m \in MemoryType, NEW b, Cardinality(b) \in Nat
  PROVE  /\ Fail(m, b) \in MemoryType
         /\ Fail(m, b).heap = m.heap \ b
         /\ Fail(m, b).lost = m.lost + Cardinality(b)
         /\ Fail(m, b).failed = m.failed + 1
         /\ Fail(m, b).wrong = m.wrong
<1> DEFINE f == m.failed + 1
           h == m.heap \ b
           l == m.lost + Cardinality(b)
<1>1. f \in Nat /\ h \in SUBSET (Nat \X Pointer) /\ l \in Nat
  BY DEF MemoryType
<1>2. Fail(m, b) = [m EXCEPT !.failed = f, !.heap = h, !.lost = l]
  BY DEF Fail
<1> HIDE DEF f, h, l
<1>3. /\ Fail(m, b) \in MemoryType
      /\ Fail(m, b).heap = h /\ Fail(m, b).lost = l /\ Fail(m, b).failed = f
      /\ Fail(m, b).wrong = m.wrong
  BY <1>1, <1>2 DEF MemoryType
<1> QED BY <1>3 DEF f, h, l

LEMMA FailNothing ==
  ASSUME NEW m \in MemoryType
  PROVE  /\ Fail(m, {}) \in MemoryType
         /\ Fail(m, {}).heap = m.heap
         /\ Fail(m, {}).lost = m.lost
         /\ Fail(m, {}).failed = m.failed + 1
         /\ Fail(m, {}).wrong = m.wrong
<1>1. Cardinality({}) = 0
  BY FS_EmptySet
<1>2. m.lost \in Nat /\ m.heap \ {} = m.heap /\ m.lost + 0 = m.lost
  BY DEF MemoryType
<1> DEFINE b == {}
<1>3. Cardinality(b) \in Nat /\ Cardinality(b) = 0
  BY <1>1
<1> HIDE DEF b
<1>4. /\ Fail(m, b) \in MemoryType
      /\ Fail(m, b).heap = m.heap \ b
      /\ Fail(m, b).lost = m.lost + Cardinality(b)
      /\ Fail(m, b).failed = m.failed + 1
      /\ Fail(m, b).wrong = m.wrong
  BY <1>3, FailIs
<1> QED BY <1>2, <1>3, <1>4 DEF b

LEMMA BlockIs ==
  ASSUME NEW j \in Nat, NEW p \in Pointer
  PROVE  /\ Block(j, p) \in BlockSets
         /\ \A i, q : <<i, q>> \in Block(j, p) <=> i = j /\ q = p
  BY DEF Block, BlockSets

LEMMA BlocksType ==
  ASSUME NEW t \in Seq(Node), NEW c \in 1..Len(t)
  PROVE  Blocks(t, c) \in BlockSets
  BY DEF Blocks, BlockSets, Pointer

LEMMA UnionType ==
  ASSUME NEW a \in BlockSets, NEW b \in BlockSets
  PROVE  a \cup b \in BlockSets
  BY DEF BlockSets

LEMMA PointersType ==
  ASSUME NEW t \in Seq(Node), NEW j \in 1..Len(t)
  PROVE  /\ {<<j, p>> : p \in Pointers(t, j)} \in BlockSets
         /\ \A i, q : <<i, q>> \in {<<j, p>> : p \in Pointers(t, j)}
                        <=> i = j /\ q \in Pointers(t, j)
<1>1. Pointers(t, j) \subseteq Pointer /\ j \in Nat
  BY PointersAre DEF Pointer
<1> QED BY <1>1 DEF BlockSets

-----------------------------------------------------------------------------
(* Types. *)

LEMMA ValueType ==
  ASSUME NEW v \in Values
  PROVE  /\ IsObject(v) /\ v \in Seq(Node) /\ v # <<>> /\ Len(v) \in Nat \ {0}
         /\ \A i \in 1..Len(v) : v[i] \in Node /\ v[i].item # Nothing
<1>1. IsObject(v)
  BY JsonAssumption
<1>2. v \in Seq(Node) /\ v # <<>>
  BY <1>1 DEF IsObject
<1>3. Len(v) \in Nat \ {0}
  BY <1>2
<1> QED BY <1>1, <1>2, <1>3 DEF IsObject

LEMMA GrownType ==
  ASSUME TypeOK, NEW x \in Item
  PROVE  /\ Grown(x) \in Seq(Node) /\ Len(Grown(x)) = NewNode /\ NewNode \in Nat
         /\ Grown(x) = Append(tree, [depth |-> Len(open), key |-> key, item |-> x])
         /\ [depth |-> Len(open), key |-> key, item |-> x] \in Node
<1>1. [depth |-> Len(open), key |-> key, item |-> x] \in Node
  BY DEF TypeOK, Node
<1> QED BY <1>1 DEF TypeOK, Grown, NewNode

LEMMA BeforeType ==
  ASSUME TypeOK, NEW c \in 1..Len(tree)
  PROVE  /\ Before(c) \in Seq(Node) /\ Len(Before(c)) = c - 1
         /\ IsBefore(Before(c), tree, c)
         /\ \A i \in 1..(c - 1) : Before(c)[i] = tree[i]
  BY DEF TypeOK, Before, IsBefore

LEMMA SkipSpaceType ==
  ASSUME TypeOK, NEW p \in Nat
  PROVE  /\ SkipSpace(p) \in Nat /\ SkipSpace(p) >= p
<1> DEFINE n == Len(text) - 1
           others == {q \in p..n : text[q + 1] # " "}
<1>1. SkipSpace(p) = IF others = {} THEN p
                     ELSE CHOOSE q \in others : \A o \in others : q <= o
  BY DEF SkipSpace
<1>2. \A q \in others : q \in Nat /\ q >= p
  <2>1. n \in Int
    BY DEF TypeOK
  <2> HIDE DEF n
  <2>2. others \subseteq p..n
    OBVIOUS
  <2> HIDE DEF others
  <2> QED BY <2>1, <2>2
<1> HIDE DEF others
<1>3. CASE others = {}
  BY <1>1, <1>3
<1>4. CASE others # {}
  <2>1. \E q \in others : \A o \in others : q <= o
    <3>1. others \subseteq Nat
      BY <1>2
    <3> QED BY <1>4, <3>1, LeastNumber
  <2>2. SkipSpace(p) \in others
    BY <1>1, <1>4, <2>1
  <2> QED BY <1>2, <2>2
<1> QED BY <1>3, <1>4

LEMMA AtType ==
  ASSUME TypeOK, NEW p \in Nat
  PROVE  At(p) \in Character
<1>1. CASE p < Len(text)
  <2>1. p + 1 \in 1..Len(text)
    BY <1>1 DEF TypeOK
  <2> QED BY <1>1, <2>1 DEF TypeOK, At
<1>2. CASE ~(p < Len(text))
  BY <1>2 DEF TypeOK, At
<1> QED BY <1>1, <1>2

LEMMA ParentType ==
  ASSUME TypeOK, open # <<>>, Nested(tree, open)
  PROVE  Parent \in 1..Len(tree) /\ Parent \in Nat /\ Len(open) \in Nat \ {0}
<1>1. open[Len(open)] \in 1..Len(tree) /\ Len(open) \in Nat \ {0}
  BY InnermostIsLatest DEF TypeOK
<1> QED BY <1>1 DEF Parent

-----------------------------------------------------------------------------
(* Steps that leave the values and the memory alone. *)

LEMMA UnattachedAre ==
  ASSUME NEW c, NEW t, NEW o
  PROVE  /\ c \in {"attach", "push"} =>
              Unattached(c, t, o) = Inside(o) \cup LastAt(t, Len(o))
         /\ c \in (BuildPC \cup ParsePC) \ {"attach", "push"} =>
              Unattached(c, t, o) = Inside(o)
         /\ c \notin BuildPC \cup ParsePC => Unattached(c, t, o) = {}
<1>1. {"attach", "push"} \subseteq BuildPC \cup ParsePC
  BY DEF BuildPC, ParsePC, ValuePC
<1> QED BY <1>1 DEF Unattached

LEMMA LooseAre ==
  ASSUME NEW c, NEW o, NEW n
  PROVE  /\ c \in {"key_loop", "no_value"} => Loose(c, o, n) = Block(n, "key")
         /\ c \in ValuePC \ {"string_loop"} /\ o # <<>> => Loose(c, o, n) = Block(n, "key")
         /\ c = "string_loop" /\ o # <<>> =>
              Loose(c, o, n) = Block(n, "key") \cup Block(n, "string")
         /\ c \notin {"key_loop", "no_value"} \cup ValuePC => Loose(c, o, n) = {}
         /\ c \notin {"key_loop", "no_value"} /\ o = <<>> => Loose(c, o, n) = {}
  BY DEF Loose, ValuePC

LEMMA OwnedSame ==
  ASSUME NEW heap, NEW t, NEW loose, NEW others, NEW w, NEW x,
         \/ w \in BuildPC <=> x \in BuildPC
         \/ loose = {},
         Owned(heap, t, loose, w, others)
  PROVE  Owned(heap, t, loose, x, others)
<1>1. \A j \in Nat, p \in Pointer : Holds(t, loose, w, j, p) <=> Holds(t, loose, x, j, p)
  BY DEF Holds
<1> QED BY <1>1 DEF Owned

\* The same values in the same memory.
LEMMA Idle ==
  ASSUME IInv, UNCHANGED <<tree, memory>>,
         pc # "crashed", pc' # "crashed",
         \/ /\ pc \in ParsePC \ {"push"} /\ pc' \in ParsePC \ {"push"}
            /\ UNCHANGED open
            /\ open # <<>> \/ pc' = "object"
            /\ Loose(pc', open, NewNode) = Loose(pc, open, NewNode)
         \/ pc \notin BuildPC \cup ParsePC /\ pc' \in WritePC \cup {"written", "too_long"}
  PROVE  Stack' /\ Heap' /\ Failures'
<1>1. /\ pc \notin BuildPC /\ pc' \notin BuildPC
      /\ pc' \in ParsePC => pc \in ParsePC
      /\ pc' \notin {"sent", "cut", "built", "parsed", "released", "refused", "crashed"}
      /\ Unattached(pc', tree', open') = Unattached(pc, tree, open)
      /\ Loose(pc', open', NewNode') = Loose(pc, open, NewNode)
  <2>1. NewNode' = NewNode
    BY DEF NewNode
  <2>2. CASE /\ pc \in ParsePC \ {"push"} /\ pc' \in ParsePC \ {"push"}
             /\ UNCHANGED open
             /\ Loose(pc', open, NewNode) = Loose(pc, open, NewNode)
    <3>1. /\ Unattached(pc', tree', open') = Inside(open')
          /\ Unattached(pc, tree, open) = Inside(open)
      BY <2>2, UnattachedAre DEF BuildPC, ParsePC, ValuePC
    <3> QED BY <2>1, <2>2, <3>1 DEF BuildPC, ParsePC, ValuePC
  <2>3. CASE pc \notin BuildPC \cup ParsePC /\ pc' \in WritePC \cup {"written", "too_long"}
    <3>1. pc' \notin BuildPC \cup ParsePC
      BY <2>3 DEF BuildPC, ParsePC, ValuePC, WritePC
    <3>2. Unattached(pc', tree', open') = {} /\ Unattached(pc, tree, open) = {}
      BY <2>3, <3>1, UnattachedAre
    <3>3. Loose(pc', open', NewNode') = {} /\ Loose(pc, open, NewNode) = {}
      BY <2>3, <3>1, LooseAre DEF ParsePC, ValuePC
    <3> QED BY <2>3, <3>1, <3>2, <3>3 DEF WritePC, BuildPC
  <2> QED BY <2>2, <2>3
<1>2. Stack'
  <2>1. pc' \in BuildPC \cup ParsePC =>
          Nested(tree', open') /\ Bare(tree', open', Unattached(pc', tree', open'))
    BY <1>1 DEF IInv, Kept, Stack
  <2>2. pc' \in ParsePC \ {"object"} => open' # <<>>
    BY <1>1 DEF WritePC, ParsePC, ValuePC
  <2> QED BY <1>1, <2>1, <2>2 DEF Stack
<1>3. Heap'
  <2> DEFINE loose == Unattached(pc, tree, open)
             others == Loose(pc, open, NewNode)
  <2>1. ~memory.wrong /\ Owned(memory.heap, tree, loose, pc, others)
    BY DEF IInv, Kept, Heap
  <2> HIDE DEF loose, others
  <2>2. Owned(memory.heap, tree, loose, pc', others)
    BY <1>1, <2>1, OwnedSame
  <2> QED BY <1>1, <2>1, <2>2 DEF Heap, loose, others
<1>4. Failures'
  <2>1. pc' # "create"
    BY <1>1 DEF BuildPC
  <2> QED BY <1>1, <2>1 DEF IInv, Kept, Failures
<1> QED BY <1>2, <1>3, <1>4

-----------------------------------------------------------------------------
(* Type correctness. *)

LEMMA PCs ==
  /\ BuildPC = {"create", "attach"}
  /\ WritePC = {"write_value", "write_key", "write_next", "write_end"}
  /\ ParsePC = {"string", "string_loop", "number", "digits", "boolean", "object",
                "key", "key_loop", "push", "end", "out", "no_value"}
  /\ PC = {"create", "attach", "write_value", "write_key", "write_next", "write_end",
           "string", "string_loop", "number", "digits", "boolean", "object",
           "key", "key_loop", "push", "end", "out", "no_value",
           "sent", "cut", "built", "written", "too_long", "parsed", "released",
           "refused", "crashed"}
  BY DEF PC, BuildPC, WritePC, ParsePC, ValuePC, DonePC

LEMMA TypeInit == Init => TypeOK
<1> SUFFICES ASSUME Init PROVE TypeOK
  OBVIOUS
<1>1. " " \in Character /\ pc \in PC
  BY PCs, CharacterType DEF Init
<1>2. << >> \in Seq(Node) /\ << >> \in Seq(Nat) /\ << >> \in Seq(Character)
  OBVIOUS
<1>3. 0 \in 0..(Range64 - 1)
  BY JsonAssumption
<1>4. memory \in MemoryType
  BY DEF Init, MemoryType
<1> QED BY <1>1, <1>2, <1>3, <1>4 DEF Init, TypeOK

LEMMA TypeCreate ==
  ASSUME IInv, Create
  PROVE  TypeOK'
<1>1. value \in Values
  BY PCs DEF IInv, Kept, Places, Create
<1> DEFINE node == value[at + 1]
           built == Append(tree, node)
           failed == [node EXCEPT !.item = Nothing]
<1>2. node \in Node /\ failed \in Node
  <2>1. at + 1 \in 1..Len(value)
    BY <1>1, ValueType DEF Create, Coming, IInv, TypeOK
  <2>2. node \in Node
    BY <1>1, <2>1, ValueType
  <2> HIDE DEF node
  <2> QED BY <2>2 DEF Node, Item
<1>3. tree \in Seq(Node) /\ open \in Seq(Nat) /\ memory \in MemoryType /\ at \in Nat
  BY DEF IInv, TypeOK
<1>4. tree' \in Seq(Node) /\ memory' \in MemoryType
  <2>1. CASE /\ tree' = built
             /\ memory' = Alloc(memory, {<<NewNode, p>> : p \in Pointers(built, NewNode)})
    <3> HIDE DEF node
    <3>1. built \in Seq(Node) /\ NewNode \in 1..Len(built)
      BY <1>2, <1>3 DEF NewNode
    <3> HIDE DEF built
    <3>2. {<<NewNode, p>> : p \in Pointers(built, NewNode)} \in BlockSets
      BY <3>1, PointersType
    <3> QED BY <1>3, <2>1, <3>1, <3>2, AllocIs
  <2>2. CASE tree' = Append(tree, failed) /\ memory' = Fail(memory, {})
    <3> HIDE DEF failed
    <3>1. tree' \in Seq(Node)
      BY <1>2, <1>3, <2>2
    <3> QED BY <1>3, <2>2, <3>1, FailNothing
  <2> QED BY <2>1, <2>2 DEF Create
<1>5. open' \in Seq(Nat)
  <2>1. NewNode \in Nat
    BY <1>3 DEF NewNode
  <2>2. open' = Append(open, NewNode) \/ open' = open
    BY DEF Create
  <2> QED BY <1>3, <2>1, <2>2, AppendIs
<1>6. pc' \in PC /\ at' \in Nat
  BY <1>3, PCs DEF Create, IInv, TypeOK
<1>7. UNCHANGED <<value, text, room, beyond, from, string, number, key>>
  BY DEF Create
<1> QED BY <1>4, <1>5, <1>6, <1>7 DEF IInv, TypeOK

LEMMA TypeCreated ==
  ASSUME IInv, Created
  PROVE  TypeOK'
<1>1. open # <<>>
  <2>1. ASSUME open = <<>> PROVE FALSE
    <3>1. at = 0 /\ value \in Values
      BY <2>1, PCs DEF IInv, Kept, Places, Created
    <3>2. Len(value) \in Nat \ {0} /\ value[1].depth = 0
      BY <3>1, ValueType DEF IsObject
    <3>3. Len(open) = 0
      BY <2>1
    <3> QED BY <3>1, <3>2, <3>3 DEF Created, Coming
  <2> QED BY <2>1
<1>2. open' \in Seq(Nat)
  BY <1>1, FrontIs DEF Created, IInv, TypeOK
<1>3. pc' \in PC
  BY PCs DEF Created
<1>4. UNCHANGED <<value, tree, text, room, reading, memory>>
  BY DEF Created
<1> QED BY <1>2, <1>3, <1>4 DEF IInv, TypeOK, reading

\* The value that the innermost object is to get.
LEMMA ChildType ==
  ASSUME IInv, pc \in {"attach", "push"}
  PROVE  /\ open # <<>> /\ Nested(tree, open)
         /\ Bare(tree, open, Inside(open) \cup {Child})
         /\ Child \in 1..Len(tree) /\ LastAt(tree, Len(open)) = {Child}
         /\ Unattached(pc, tree, open) = Inside(open) \cup {Child}
         /\ Parent \in 1..Len(tree) /\ Len(open) \in Nat \ {0}
<1>1. tree \in Seq(Node) /\ open \in Seq(Nat) /\ open # <<>>
      /\ LastAt(tree, Len(open)) # {}
  BY DEF IInv, Kept, TypeOK, Places
<1>2. LastAt(tree, Len(open)) = {Child} /\ Child \in 1..Len(tree)
  BY <1>1, ChildIs
<1>3. Unattached(pc, tree, open) = Inside(open) \cup {Child}
  BY <1>2, UnattachedAre
<1>4. Nested(tree, open) /\ Bare(tree, open, Inside(open) \cup {Child})
  BY <1>3, PCs DEF IInv, Kept, Stack
<1>5. Parent \in 1..Len(tree) /\ Len(open) \in Nat \ {0}
  BY <1>1, <1>4, ParentType DEF IInv
<1> QED BY <1>1, <1>2, <1>3, <1>4, <1>5

LEMMA LostType ==
  ASSUME NEW t \in Seq(Node), NEW c \in 1..Len(t)
  PROVE  /\ Cardinality(Blocks(t, c)) \in Nat
         /\ Cardinality(Block(c, "key") \cup Blocks(t, c)) \in Nat
<1>1. Cardinality({} \cup Blocks(t, c)) \in Nat
  BY BlocksFinite, FS_EmptySet
<1>2. {} \cup Blocks(t, c) = Blocks(t, c)
  OBVIOUS
<1>3. IsFiniteSet(Block(c, "key"))
  BY BlockSize
<1> QED BY <1>1, <1>2, <1>3, BlocksFinite

LEMMA TypeAttach ==
  ASSUME IInv, Attach
  PROVE  TypeOK'
<1>1. /\ Child \in 1..Len(tree) /\ Parent \in 1..Len(tree)
      /\ tree \in Seq(Node) /\ memory \in MemoryType
  BY ChildType DEF Attach, IInv, TypeOK
<1>2. /\ Before(Child) \in Seq(Node)
      /\ Block(Child, "key") \in BlockSets /\ Block(Parent, "pairs") \in BlockSets
      /\ Block(Child, "key") \cup Block(Parent, "pairs") \in BlockSets
  <2>1. Before(Child) \in Seq(Node)
    BY <1>1, BeforeType DEF IInv
  <2>2. "key" \in Pointer /\ "pairs" \in Pointer /\ Child \in Nat /\ Parent \in Nat
    BY <1>1 DEF Pointer
  <2> QED BY <2>1, <2>2, BlockIs, UnionType
<1>3. /\ Cardinality(Blocks(tree, Child)) \in Nat
      /\ Cardinality(Block(Child, "key") \cup Blocks(tree, Child)) \in Nat
  BY <1>1, LostType
<1>4. Alloc(memory, Block(Child, "key")) \in MemoryType
  BY <1>1, <1>2, AllocIs
<1>5. tree' \in Seq(Node) /\ memory' \in MemoryType
  <2>1. CASE /\ memory' = Alloc(memory, Block(Child, "key") \cup Block(Parent, "pairs"))
             /\ UNCHANGED tree
    BY <1>1, <1>2, <2>1, AllocIs
  <2>2. CASE tree' = Before(Child) /\ memory' = Fail(memory, Blocks(tree, Child))
    BY <1>1, <1>2, <1>3, <2>2, FailIs
  <2>3. CASE /\ tree' = Before(Child)
             /\ memory' = Fail(Alloc(memory, Block(Child, "key")),
                               Block(Child, "key") \cup Blocks(tree, Child))
    BY <1>2, <1>3, <1>4, <2>3, FailIs
  <2>4. CASE memory' = Alloc(memory, Block(Child, "key")) /\ UNCHANGED tree
    BY <1>1, <1>4, <2>4
  <2> QED BY <2>1, <2>2, <2>3, <2>4 DEF Attach
<1>6. pc' \in PC /\ UNCHANGED <<value, open, text, room, reading>>
  BY PCs DEF Attach
<1> QED BY <1>5, <1>6 DEF IInv, TypeOK, reading

LEMMA TypeWriting ==
  ASSUME IInv, Writing
  PROVE  TypeOK'
<1>1. /\ tree \in Seq(Node) /\ open \in Seq(Nat) /\ text \in Seq(Character)
      /\ at \in Nat /\ room \in Nat
  BY DEF IInv, TypeOK
<1>2. pc \in {"write_value", "write_key"} =>
        /\ at + 1 \in 1..Len(tree)
        /\ tree[at + 1].item \in Item /\ tree[at + 1].key \in Seq(Character)
  <2> SUFFICES ASSUME pc \in {"write_value", "write_key"}
               PROVE  /\ at + 1 \in 1..Len(tree)
                      /\ tree[at + 1].item \in Item
                      /\ tree[at + 1].key \in Seq(Character)
    OBVIOUS
  <2>1. at + 1 \in 1..Len(tree)
    BY <1>1 DEF IInv, Kept, Places
  <2> QED BY <1>1, <2>1, NodeAt
<1>3. ASSUME NEW more \in Seq(Character), Writes(more)
      PROVE  text' \in Seq(Character)
  BY <1>1, <1>3 DEF Writes
<1>4. CASE Serialize
  BY <1>4, PCs, JsonAssumption DEF Serialize, IInv, TypeOK
<1>5. CASE WriteValue
  <2> DEFINE item == tree[at + 1].item
  <2>1. item \in Item
    BY <1>2, <1>5 DEF WriteValue
  <2>2. CASE TooLong
    BY <1>5, <2>2, PCs DEF WriteValue, TooLong, IInv, TypeOK
  <2>3. CASE pc' = "crashed" /\ UNCHANGED <<open, text, at>>
    BY <1>5, <2>3, PCs DEF WriteValue, IInv, TypeOK
  <2>4. CASE /\ Writes(<<"{">>)
             /\ at' = at + 1
             /\ open' = Append(open, at')
             /\ pc' = IF HasPairs(tree, at') THEN "write_key" ELSE "write_end"
    <3>1. text' \in Seq(Character)
      BY <1>3, <2>4, MarkType
    <3>4. at' \in Nat
      <4>1. at' = at + 1
        BY <2>4
      <4> QED BY <1>1, <4>1
    <3>2. open' \in Seq(Nat)
      BY <1>1, <2>4, <3>4, AppendIs
    <3>3. pc' \in PC
      BY <2>4, PCs
    <3> QED BY <1>5, <3>1, <3>2, <3>3, <3>4 DEF WriteValue, IInv, TypeOK
  <2>5. CASE /\ item # Nothing
             /\ Writes(Written(item))
             /\ at' = at + 1
             /\ pc' = "write_next"
             /\ UNCHANGED open
    <3>1. text' \in Seq(Character)
      <4> HIDE DEF item
      <4>1. Written(item) \in Seq(Character)
        BY <2>1, <2>5, WrittenType
      <4> QED BY <1>3, <2>5, <4>1
    <3>2. open' \in Seq(Nat) /\ at' \in Nat
      BY <1>1, <2>5
    <3>3. pc' \in PC
      BY <2>5, PCs
    <3> QED BY <1>5, <3>1, <3>2, <3>3 DEF WriteValue, IInv, TypeOK
  <2> QED BY <1>5, <2>2, <2>3, <2>4, <2>5 DEF WriteValue
<1>6. CASE WriteKey
  <2> DEFINE q == Quoted(tree[at + 1].key)
  <2>1. q \in Seq(Character)
    BY <1>2, <1>6, QuotedType DEF WriteKey
  <2>2. CASE TooLong
    BY <1>6, <2>2, PCs DEF WriteKey, TooLong, IInv, TypeOK
  <2>3. CASE Writes(q \o <<":">>) /\ pc' = "write_value" /\ UNCHANGED <<open, at>>
    <3>1. q \o <<":">> \in Seq(Character)
      <4> DEFINE colon == <<":">>
      <4>1. colon \in Seq(Character)
        BY MarkType
      <4> HIDE DEF q, colon
      <4>2. q \o colon \in Seq(Character)
        BY <2>1, <4>1
      <4> QED BY <4>2 DEF colon
    <3>2. text' \in Seq(Character) /\ pc' \in PC
      BY <1>3, <2>3, <3>1, PCs
    <3> QED BY <1>6, <2>3, <3>2 DEF WriteKey, IInv, TypeOK
  <2> QED BY <1>6, <2>2, <2>3 DEF WriteKey
<1>7. CASE WriteNext
  <2>1. CASE TooLong
    BY <1>7, <2>1, PCs DEF WriteNext, TooLong, IInv, TypeOK
  <2>2. CASE Writes(<<",">>) /\ pc' = "write_key" /\ UNCHANGED <<open, at>>
    <3>1. text' \in Seq(Character) /\ pc' \in PC
      BY <1>3, <2>2, PCs, MarkType
    <3> QED BY <1>7, <2>2, <3>1 DEF WriteNext, IInv, TypeOK
  <2>3. CASE pc' = "write_end" /\ UNCHANGED <<text, open, at>>
    BY <1>7, <2>3, PCs DEF WriteNext, IInv, TypeOK
  <2> QED BY <1>7, <2>1, <2>2, <2>3 DEF WriteNext
<1>8. CASE WriteEnd
  <2>1. text' \in Seq(Character) /\ pc' \in PC
    BY <1>3, <1>8, PCs, MarkType DEF WriteEnd
  <2>2. open' \in Seq(Nat)
    <3>1. open = <<>> => Front(open) = <<>>
      BY DEF Front
    <3> QED BY <1>1, <1>8, <3>1, FrontIs DEF WriteEnd
  <2> QED BY <1>8, <2>1, <2>2 DEF WriteEnd, reading, IInv, TypeOK
<1> QED BY <1>4, <1>5, <1>6, <1>7, <1>8 DEF Writing

LEMMA TypeSending ==
  ASSUME IInv, Sending
  PROVE  TypeOK'
<1>1. CASE ClientSends
  <2>1. value \in Values
    BY <1>1, PCs DEF ClientSends, IInv, Kept, Places
  <2>2. text' \in Seq(Character)
    BY <1>1, <2>1, ValueType, ObjectIsComplete, TextType DEF ClientSends
  <2> QED BY <1>1, <2>2, PCs DEF ClientSends, reading, IInv, TypeOK
<1>2. CASE OtherSends
  <2>1. text' \in Seq(Character)
    BY <1>2, JsonAssumption DEF OtherSends
  <2> QED BY <1>2, <2>1, PCs DEF OtherSends, reading, IInv, TypeOK
<1>3. CASE Cut
  <2>1. PICK n \in 0..(Len(text) - 1) : text' = SubSeq(text, 1, n)
    BY <1>3 DEF Cut
  <2>2. text \in Seq(Character)
    BY DEF IInv, TypeOK
  <2>3. text' \in Seq(Character)
    BY <2>1, <2>2
  <2> QED BY <1>3, <2>3, PCs DEF Cut, reading, IInv, TypeOK
<1>4. CASE Parse
  <2>1. beyond' \in Character /\ pc' \in PC /\ at' \in Nat
    BY <1>4, PCs, JsonAssumption DEF Parse
  <2> QED BY <1>4, <2>1 DEF Parse, IInv, TypeOK
<1> QED BY <1>1, <1>2, <1>3, <1>4 DEF Sending

LEMMA NewNodeType ==
  ASSUME TypeOK
  PROVE  /\ NewNode \in Nat /\ NewNode > 0
         /\ \A p \in Pointer : Block(NewNode, p) \in BlockSets
                               /\ Cardinality(Block(NewNode, p)) = 1
  BY BlockIs, BlockSize DEF TypeOK, NewNode

LEMMA TypeStringBegins ==
  ASSUME TypeOK, NEW pointer \in Pointer, NEW loop \in PC, NEW caller \in PC,
         StringBegins(pointer, loop, caller)
  PROVE  TypeOK'
<1>1. memory \in MemoryType /\ at \in Nat /\ << >> \in Seq(Character)
  BY DEF TypeOK
<1> DEFINE start == SkipSpace(at)
<1>2. start \in Nat
  BY <1>1, SkipSpaceType
<1>3. CASE /\ pc' = loop
           /\ at' = start + 1
           /\ from' = start
           /\ string' = <<>>
           /\ memory' = Alloc(memory, Block(NewNode, pointer))
  <2> HIDE DEF start
  <2>1. memory' \in MemoryType
    BY <1>1, <1>3, AllocIs, NewNodeType
  <2> QED BY <1>1, <1>2, <1>3, <2>1 DEF StringBegins, TypeOK
<1>4. CASE /\ pc' = caller
           /\ at' = start
           /\ memory' = Fail(memory, {}) \/ memory' = memory
           /\ UNCHANGED <<from, string>>
  <2> HIDE DEF start
  <2>1. memory' \in MemoryType
    BY <1>1, <1>4, FailNothing
  <2> QED BY <1>1, <1>2, <1>4, <2>1 DEF StringBegins, TypeOK
<1> QED BY <1>3, <1>4 DEF StringBegins

LEMMA TypeStringWrong ==
  ASSUME TypeOK, NEW pointer \in Pointer, NEW caller \in PC,
         StringWrong(pointer, caller)
  PROVE  TypeOK'
<1>1. memory' \in MemoryType
  BY FreeIs, NewNodeType DEF StringWrong, TypeOK
<1> QED BY <1>1 DEF StringWrong, TypeOK

LEMMA TypeStringLost ==
  ASSUME TypeOK, NEW pointer \in Pointer, NEW caller \in PC,
         StringLost(pointer, caller)
  PROVE  TypeOK'
<1>1. Cardinality(Block(NewNode, pointer)) \in Nat
  BY NewNodeType
<1>2. memory' \in MemoryType
  BY <1>1, FailIs DEF StringLost, TypeOK
<1> QED BY <1>2 DEF StringLost, TypeOK

LEMMA TypeValueFound ==
  ASSUME TypeOK, NEW x \in Item, NEW next \in Nat, NEW other \in PC,
         ValueFound(x, next, other)
  PROVE  TypeOK'
<1>1. memory \in MemoryType
  BY DEF TypeOK
<1>2. CASE /\ pc' = "push"
           /\ tree' = Grown(x)
           /\ memory' = Alloc(memory, Block(NewNode, "value"))
  <2>1. memory' \in MemoryType
    BY <1>1, <1>2, AllocIs, NewNodeType DEF Pointer
  <2>2. tree' \in Seq(Node) /\ pc' \in PC
    BY <1>2, GrownType, PCs
  <2> QED BY <2>1, <2>2 DEF ValueFound, TypeOK
<1>3. CASE /\ pc' = other
           /\ UNCHANGED tree
           /\ memory' = Free(Fail(memory, {}),
                             IF x.type = "string" THEN Block(NewNode, "string") ELSE {})
  <2> DEFINE b == IF x.type = "string" THEN Block(NewNode, "string") ELSE {}
  <2>1. b \in BlockSets
    <3>1. {} \in BlockSets
      BY DEF BlockSets
    <3> QED BY <3>1, NewNodeType DEF Pointer
  <2> HIDE DEF b
  <2>2. memory' = Free(Fail(memory, {}), b)
    BY <1>3 DEF b
  <2>3. memory' \in MemoryType
    BY <1>1, <2>1, <2>2, FailNothing, FreeIs
  <2> QED BY <1>3, <2>3 DEF ValueFound, TypeOK
<1> QED BY <1>2, <1>3 DEF ValueFound

LEMMA TypeParseString ==
  ASSUME TypeOK, ParseString
  PROVE  TypeOK'
<1>1. "string" \in Pointer /\ {"string_loop", "number"} \subseteq PC
  BY PCs DEF Pointer
<1>2. String(string) \in Item /\ at + 1 \in Nat
  BY DEF TypeOK, String, Item
<1> QED BY <1>1, <1>2, TypeStringBegins, TypeStringWrong, TypeStringLost, TypeValueFound
        DEF ParseString

LEMMA TypeStringGoesOn ==
  ASSUME TypeOK, StringGoesOn
  PROVE  TypeOK'
<1>1. Meant \in Nat
  BY DEF TypeOK, Meant
<1>2. At(Meant) \in Character
  BY <1>1, AtType
<1>3. string' \in Seq(Character) /\ at' \in Nat
  BY <1>1, <1>2, AppendIs DEF StringGoesOn, TypeOK
<1> QED BY <1>3 DEF StringGoesOn, TypeOK

LEMMA AccumulateType ==
  ASSUME NEW n \in Nat, NEW digit \in Nat
  PROVE  Accumulate(n, digit) \in 0..(Range64 - 1)
<1>1. n * Len(Digits) + digit \in Nat
  BY JsonAssumption
<1> QED BY <1>1, JsonAssumption DEF Accumulate

LEMMA TypeNumber ==
  ASSUME TypeOK, NumberBegins \/ DigitGoesOn \/ NumberEnds
  PROVE  TypeOK'
<1>1. at \in Nat /\ number \in 0..(Range64 - 1) /\ number \in Nat
  BY JsonAssumption DEF TypeOK
<1>2. CASE NumberBegins
  <2>1. at' \in Nat /\ from' \in Nat /\ number' \in 0..(Range64 - 1) /\ pc' \in PC
    BY <1>1, <1>2, SkipSpaceType, PCs, JsonAssumption DEF NumberBegins
  <2> QED BY <1>2, <2>1 DEF NumberBegins, TypeOK
<1>3. CASE DigitGoesOn
  <2>1. number' \in 0..(Range64 - 1)
    BY <1>1, <1>3, AccumulateType DEF DigitGoesOn
  <2> QED BY <1>1, <1>3, <2>1 DEF DigitGoesOn, TypeOK
<1>4. CASE NumberEnds
  <2>1. Number(number) \in Item /\ "boolean" \in PC
    BY <1>1, PCs DEF TypeOK, Number, Item
  <2>2. CASE NotFound(at, "boolean")
    BY <1>1, <2>1, <2>2 DEF NotFound, TypeOK
  <2>3. CASE ValueFound(Number(number), at, "boolean")
    BY <1>1, <2>1, <2>3, TypeValueFound
  <2> QED BY <1>4, <2>2, <2>3 DEF NumberEnds
<1> QED BY <1>2, <1>3, <1>4

LEMMA TypeParseBoolean ==
  ASSUME TypeOK, ParseBoolean
  PROVE  TypeOK'
<1> DEFINE start == SkipSpace(at)
<1>1. start \in Nat /\ "object" \in PC
  BY SkipSpaceType, PCs DEF TypeOK
<1>2. CASE NotFound(start, "object")
  <2> HIDE DEF start
  <2> QED BY <1>1, <1>2 DEF NotFound, TypeOK
<1>3. ASSUME NEW b \in BOOLEAN, ValueFound(Boolean(b), start + Len(Word(b)), "object")
      PROVE  TypeOK'
  <2>1. Boolean(b) \in Item /\ Len(Word(b)) \in Nat
    BY WordType DEF Boolean, Item
  <2> HIDE DEF start
  <2> QED BY <1>1, <1>3, <2>1, TypeValueFound
<1> HIDE DEF start
<1>4. NotFound(start, "object")
        \/ \E b \in BOOLEAN : ValueFound(Boolean(b), start + Len(Word(b)), "object")
  BY DEF ParseBoolean, start
<1> QED BY <1>2, <1>3, <1>4

LEMMA TypeParseObject ==
  ASSUME TypeOK, ParseObject
  PROVE  TypeOK'
<1>1. SkipSpace(at) \in Nat /\ memory \in MemoryType /\ tree \in Seq(Node)
      /\ open \in Seq(Nat) /\ Object \in Item /\ Nothing \in Item
  BY SkipSpaceType DEF TypeOK, Item
<1>2. at' \in Nat /\ pc' \in PC
  <2>1. at' = SkipSpace(at) \/ at' = SkipSpace(at) + 1
    BY DEF ParseObject
  <2>2. pc' \in {"end", "key", "refused", "no_value"}
    BY DEF ParseObject, ReturnsNull
  <2> QED BY <1>1, <2>1, <2>2, PCs
<1>3. open' \in Seq(Nat)
  <2>1. open' = Append(open, NewNode) \/ open' = open
    BY DEF ParseObject
  <2> QED BY <1>1, <2>1, AppendIs, NewNodeType
<1>4. tree' \in Seq(Node) /\ memory' \in MemoryType
  <2>1. CASE tree' = Grown(Object) /\ memory' = Alloc(memory, Block(NewNode, "value"))
    BY <1>1, <2>1, GrownType, AllocIs, NewNodeType DEF Pointer
  <2>2. CASE tree' = Grown(Nothing) /\ memory' = Fail(memory, {})
    BY <1>1, <2>2, GrownType, FailNothing
  <2>3. CASE tree' = tree /\ memory' = memory
    BY <1>1, <2>3
  <2> QED BY <2>1, <2>2, <2>3 DEF ParseObject
<1> QED BY <1>2, <1>3, <1>4 DEF ParseObject, TypeOK

LEMMA TypeParseKey ==
  ASSUME TypeOK, ParseKey
  PROVE  TypeOK'
<1>1. "key" \in Pointer /\ {"key_loop", "end", "string", "out"} \subseteq PC
  BY PCs DEF Pointer
<1>2. CASE StringBegins("key", "key_loop", "end") \/ StringWrong("key", "end")
           \/ StringLost("key", "end")
  BY <1>1, <1>2, TypeStringBegins, TypeStringWrong, TypeStringLost
<1>3. CASE /\ \/ pc' = "string" /\ at' = at + 2 /\ key' = string /\ UNCHANGED memory
              \/ /\ pc' = "out"
                 /\ memory' = Free(memory, Block(NewNode, "key"))
                 /\ UNCHANGED <<at, key>>
           /\ UNCHANGED <<value, tree, open, text, room, beyond, from, string, number>>
  <2>1. memory' \in MemoryType
    BY <1>1, <1>3, FreeIs, NewNodeType DEF TypeOK
  <2>2. at' \in Nat /\ key' \in Seq(Character) /\ pc' \in PC
    BY <1>1, <1>3 DEF TypeOK
  <2> QED BY <1>3, <2>1, <2>2 DEF TypeOK
<1> QED BY <1>2, <1>3 DEF ParseKey

LEMMA TypeNoValue ==
  ASSUME TypeOK, NoValue
  PROVE  TypeOK'
<1>1. memory' \in MemoryType /\ pc' \in PC
  BY FreeIs, NewNodeType, PCs DEF NoValue, TypeOK, Pointer
<1> QED BY <1>1 DEF NoValue, TypeOK, reading

LEMMA TypePush ==
  ASSUME IInv, Push
  PROVE  TypeOK'
<1>1. /\ Child \in 1..Len(tree) /\ Parent \in 1..Len(tree)
      /\ tree \in Seq(Node) /\ memory \in MemoryType /\ at \in Nat
  BY ChildType DEF Push, IInv, TypeOK
<1>2. /\ Before(Child) \in Seq(Node)
      /\ Block(Child, "key") \cup Blocks(tree, Child) \in BlockSets
      /\ Block(Parent, "pairs") \in BlockSets
  <2>1. Before(Child) \in Seq(Node)
    BY <1>1, BeforeType DEF IInv
  <2>2. "key" \in Pointer /\ "pairs" \in Pointer /\ Child \in Nat /\ Parent \in Nat
    BY <1>1 DEF Pointer
  <2> QED BY <1>1, <2>1, <2>2, BlockIs, BlocksType, UnionType
<1>3. tree' \in Seq(Node) /\ memory' \in MemoryType
  <2>1. CASE memory' = Alloc(memory, Block(Parent, "pairs")) /\ UNCHANGED tree
    BY <1>1, <1>2, <2>1, AllocIs
  <2>2. CASE /\ memory' = Free(Fail(memory, {}),
                               Block(Child, "key") \cup Blocks(tree, Child))
             /\ tree' = Before(Child)
    BY <1>1, <1>2, <2>2, FailNothing, FreeIs
  <2>3. CASE UNCHANGED <<tree, memory>>
    BY <1>1, <2>3
  <2> QED BY <2>1, <2>2, <2>3 DEF Push
<1>4. at' \in Nat /\ pc' \in PC
  <2>1. at' = at \/ at' = at + 1
    BY DEF Push
  <2>2. pc' \in {"out", "key", "end", "crashed"}
    BY DEF Push
  <2> QED BY <1>1, <2>1, <2>2, PCs
<1> QED BY <1>3, <1>4 DEF Push, IInv, TypeOK

\* The innermost object, and what is inside.
LEMMA InnermostType ==
  ASSUME IInv, pc \in {"end", "out"}
  PROVE  /\ open # <<>> /\ open \in Seq(Nat) /\ tree \in Seq(Node)
         /\ Nested(tree, open) /\ Bare(tree, open, Inside(open))
         /\ Parent \in 1..Len(tree) /\ Len(open) \in Nat \ {0}
         /\ Unattached(pc, tree, open) = Inside(open)
         /\ Loose(pc, open, NewNode) = {}
<1>1. open # <<>> /\ open \in Seq(Nat) /\ tree \in Seq(Node)
  BY PCs DEF IInv, Kept, Stack, TypeOK
<1>2. Unattached(pc, tree, open) = Inside(open)
  BY PCs, UnattachedAre
<1>3. Nested(tree, open) /\ Bare(tree, open, Inside(open))
  BY <1>2, PCs DEF IInv, Kept, Stack
<1>4. Loose(pc, open, NewNode) = {}
  BY LooseAre DEF ValuePC
<1>5. Parent \in 1..Len(tree) /\ Len(open) \in Nat \ {0}
  BY <1>1, <1>3, ParentType DEF IInv
<1> QED BY <1>1, <1>2, <1>3, <1>4, <1>5

LEMMA TypeObjectEnds ==
  ASSUME IInv, ObjectEnds
  PROVE  TypeOK'
<1>1. /\ Parent \in 1..Len(tree) /\ Front(open) \in Seq(Nat)
      /\ Before(Parent) \in Seq(Node)
  BY InnermostType, FrontIs, BeforeType DEF ObjectEnds, IInv
<1>2. open' \in Seq(Nat) /\ tree' \in Seq(Node)
  BY <1>1 DEF ObjectEnds, IInv, TypeOK
<1>3. pc' \in PC /\ at' \in Nat
  BY PCs DEF ObjectEnds, ReturnsNull, IInv, TypeOK
<1> QED BY <1>2, <1>3 DEF ObjectEnds, IInv, TypeOK

LEMMA TypeOut ==
  ASSUME IInv, Out
  PROVE  TypeOK'
<1>1. /\ Parent \in 1..Len(tree) /\ Front(open) \in Seq(Nat)
      /\ Before(Parent) \in Seq(Node) /\ tree \in Seq(Node)
  BY InnermostType, FrontIs, BeforeType DEF Out, IInv
<1>2. memory' \in MemoryType
  BY <1>1, BlocksType, FreeIs DEF Out, IInv, TypeOK
<1>3. pc' \in PC
  BY PCs DEF Out, ReturnsNull
<1> QED BY <1>1, <1>2, <1>3 DEF Out, IInv, TypeOK, reading

LEMMA TypeRelease ==
  ASSUME IInv, Release
  PROVE  TypeOK'
<1>1. Blocks(tree, 1) \in BlockSets /\ memory \in MemoryType
  BY DEF Blocks, BlockSets, Pointer, IInv, TypeOK
<1>2. memory' \in MemoryType /\ pc' \in PC
  BY <1>1, FreeIs, PCs DEF Release
<1>3. << >> \in Seq(Node)
  OBVIOUS
<1> QED BY <1>2, <1>3 DEF Release, IInv, TypeOK, reading

\* Every step leaves everything well-typed.
LEMMA TypeNext ==
  ASSUME IInv, [Next]_vars
  PROVE  TypeOK'
<1>1. TypeOK
  BY DEF IInv
<1>2. CASE Building
  BY <1>2, TypeCreate, TypeCreated, TypeAttach DEF Building
<1>3. CASE Writing
  BY <1>3, TypeWriting
<1>4. CASE Sending
  BY <1>4, TypeSending
<1>5. CASE Parsing
  BY <1>1, <1>5, TypeParseString, TypeStringGoesOn, TypeNumber, TypeParseBoolean,
     TypeParseObject, TypeParseKey, TypeNoValue, TypePush, TypeObjectEnds, TypeOut
     DEF Parsing
<1>6. CASE Release
  BY <1>6, TypeRelease
<1>7. CASE UNCHANGED vars
  BY <1>1, <1>7 DEF vars, reading, TypeOK
<1> QED BY <1>2, <1>3, <1>4, <1>5, <1>6, <1>7 DEF Next

-----------------------------------------------------------------------------
(* The rest of the invariant, action by action. *)

LEMMA HoldsNone ==
  ASSUME NEW loose, NEW w, NEW j, NEW p
  PROVE  ~Holds(<<>>, loose, w, j, p)
<1>1. Len(<<>>) = 0 /\ j \notin 1..0
  OBVIOUS
<1> QED BY <1>1 DEF Holds

\* There is no value at all.
LEMMA NoneKept ==
  ASSUME IInv, tree = <<>>, open = <<>>, UNCHANGED <<tree, open, memory>>,
         pc \in {"create", "sent", "cut", "object"},
         pc' \in {"sent", "cut", "object", "refused"}
  PROVE  Stack' /\ Heap'
<1>1. Loose(pc, open, NewNode) = {} /\ Loose(pc', open', NewNode') = {}
  BY LooseAre
<1>2. Nested(tree', open') /\ Bare(tree', open', Unattached(pc', tree', open'))
  <2>1. Len(open') = 0 /\ 1..0 = {}
    OBVIOUS
  <2> QED BY <2>1 DEF Nested, Bare
<1>3. Stack'
  BY <1>2, PCs DEF Stack
<1>4. Heap'
  <2>1. ~memory.wrong /\ Owned(memory.heap, tree, Unattached(pc, tree, open),
                               pc, Loose(pc, open, NewNode))
    BY DEF IInv, Kept, Heap
  <2>2. \A j \in Nat, p \in Pointer : <<j, p>> \notin memory.heap
    BY <1>1, <2>1, HoldsNone DEF Owned
  <2>3. Owned(memory'.heap, tree', Unattached(pc', tree', open'),
              pc', Loose(pc', open', NewNode'))
    BY <1>1, <2>2, HoldsNone DEF Owned
  <2> QED BY <2>1, <2>3 DEF Heap
<1> QED BY <1>3, <1>4

LEMMA KeptInit == Init => Kept
<1> SUFFICES ASSUME Init PROVE Kept
  OBVIOUS
<1>1. pc = "create" /\ tree = <<>> /\ open = <<>> /\ value \in Values /\ at = 0
      /\ memory = [heap |-> {}, lost |-> 0, failed |-> 0, wrong |-> FALSE]
  BY DEF Init
<1>2. Len(open) = 0 /\ Len(tree) = 0 /\ 1..0 = {}
  BY <1>1
<1>3. Stack
  BY <1>1, <1>2, PCs DEF Stack, Nested, Bare
<1>4. Places
  BY <1>1, PCs DEF Places
<1>5. Heap
  <2>1. Loose(pc, open, NewNode) = {}
    BY <1>1, LooseAre
  <2>2. Owned(memory.heap, tree, Unattached(pc, tree, open),
              pc, Loose(pc, open, NewNode))
    BY <1>1, <2>1, HoldsNone DEF Owned
  <2> QED BY <1>1, <2>2 DEF Heap
<1>6. Failures
  BY <1>1, <1>2 DEF Failures
<1> QED BY <1>3, <1>4, <1>5, <1>6 DEF Kept

LEMMA KeptWriting ==
  ASSUME IInv, Writing
  PROVE  Kept'
<1>1. pc \in WritePC \cup {"built"} /\ UNCHANGED <<tree, memory>>
  BY PCs DEF Writing, Serialize, WriteValue, WriteKey, WriteNext, WriteEnd
<1>2. pc \notin BuildPC \cup ParsePC /\ pc # "crashed"
  BY <1>1, PCs
<1>3. ASSUME pc' \in WritePC \cup {"written", "too_long"},
             pc' \in {"write_value", "write_key"} => at' < Len(tree)
      PROVE  Kept'
  <2>1. pc' # "crashed"
    BY <1>3, PCs
  <2>2. Stack' /\ Heap' /\ Failures'
    BY <1>1, <1>2, <1>3, <2>1, Idle
  <2>3. Places'
    BY <1>1, <1>3, PCs DEF Places
  <2> QED BY <2>2, <2>3 DEF Kept
<1>4. CASE Serialize
  <2>1. 0 < Len(tree)
    BY <1>4 DEF Serialize, IInv, Kept, Stack, TypeOK
  <2> QED BY <1>3, <1>4, <2>1, PCs DEF Serialize
<1>5. CASE WriteValue
  <2>1. at < Len(tree) /\ at \in Nat /\ tree \in Seq(Node)
    BY <1>5 DEF WriteValue, IInv, Kept, Places, TypeOK
  <2>2. CASE pc' = "crashed" /\ tree[at + 1].item = Nothing
    <3>1. at + 1 \in 1..Len(tree)
      BY <2>1
    <3>2. memory.failed # 0 /\ memory.failed \in Nat
      BY <2>2, <3>1 DEF IInv, Kept, Failures, TypeOK, MemoryType
    <3>3. Failures'
      BY <1>1, <2>2, <3>2, PCs DEF Failures
    <3>4. Stack' /\ Places' /\ Heap'
      BY <1>1, <2>2, PCs DEF IInv, Kept, Stack, Places, Heap
    <3> QED BY <3>3, <3>4 DEF Kept
  <2>3. CASE pc' \in {"too_long", "write_next", "write_end"}
    BY <1>3, <2>3, PCs
  <2>4. CASE pc' = "write_key" /\ HasPairs(tree, at')
    BY <1>3, <2>4, PCs DEF HasPairs
  <2>5. \/ pc' = "crashed" /\ tree[at + 1].item = Nothing
        \/ pc' \in {"too_long", "write_next", "write_end"}
        \/ pc' = "write_key" /\ HasPairs(tree, at')
    BY <1>5 DEF WriteValue, TooLong
  <2> QED BY <2>2, <2>3, <2>4, <2>5
<1>6. CASE WriteKey
  <2>1. at' = at /\ pc' \in {"write_value", "too_long"} /\ at < Len(tree)
    BY <1>6 DEF WriteKey, TooLong, IInv, Kept, Places
  <2> QED BY <1>3, <2>1, PCs
<1>7. CASE WriteNext
  <2>1. at' = at /\ pc' \in {"write_key", "write_end", "too_long"}
        /\ (pc' = "write_key" => at < Len(tree))
    BY <1>7 DEF WriteNext, TooLong, Coming
  <2> QED BY <1>3, <2>1, PCs
<1>8. CASE WriteEnd
  <2>1. pc' \in {"written", "write_next"}
    BY <1>8 DEF WriteEnd
  <2> QED BY <1>3, <2>1, PCs
<1> QED BY <1>4, <1>5, <1>6, <1>7, <1>8 DEF Writing

LEMMA KeptSending ==
  ASSUME IInv, Sending
  PROVE  Kept'
<1>1. /\ tree = <<>> /\ open = <<>> /\ pc \in {"create", "sent", "cut"}
      /\ memory.failed = 0 \/ pc # "create"
  <2>1. CASE ClientSends \/ OtherSends
    <3>1. pc = "create" /\ at = 0
      BY <2>1 DEF ClientSends, OtherSends
    <3>2. open = <<>>
      BY <3>1 DEF IInv, Kept, Places
    <3>3. tree = <<>>
      BY <3>1, <3>2, PCs DEF IInv, Kept, Stack, Nested
    <3> QED BY <3>1, <3>2, <3>3 DEF IInv, Kept, Failures
  <2>2. CASE Cut \/ Parse
    BY <2>2 DEF Cut, Parse, IInv, Kept, Stack
  <2> QED BY <2>1, <2>2 DEF Sending
<1>2. UNCHANGED <<tree, open, memory>> /\ pc' \in {"sent", "cut", "object"}
  BY DEF Sending, ClientSends, OtherSends, Cut, Parse
<1>3. Stack' /\ Heap'
  BY <1>1, <1>2, NoneKept
<1>4. Places'
  BY <1>2, PCs DEF Places
<1>5. Failures'
  <2>1. memory.lost <= memory.failed
    <3>1. memory.lost \in Nat /\ memory.failed \in Nat
      BY DEF IInv, TypeOK, MemoryType
    <3> QED BY <1>1, <3>1 DEF IInv, Kept, Failures
  <2> QED BY <1>2, <2>1 DEF IInv, Kept, Failures
<1> QED BY <1>3, <1>4, <1>5 DEF Kept

\* A node more, for a call or for the innermost object.
LEMMA GrowStep ==
  ASSUME IInv, NEW node \in Node, node.depth = Len(open), tree' = Append(tree, node),
         pc \in (BuildPC \cup ParsePC) \ {"attach", "push"},
         \/ /\ pc' \in (BuildPC \cup ParsePC) \ {"attach", "push"}
            /\ open' = Append(open, NewNode)
            /\ node.item \in {Object, Nothing}
         \/ /\ pc' \in {"attach", "push"}
            /\ open' = open /\ open # <<>>,
         pc \in BuildPC <=> pc' \in BuildPC
  PROVE  /\ Nested(tree', open') /\ Bare(tree', open', Unattached(pc', tree', open'))
         /\ open' # <<>> /\ tree' # <<>>
         /\ pc' \in {"attach", "push"} => LastAt(tree', Len(open')) # {}
         /\ NewNode > 1 <=> open # <<>>
         /\ NewNode \in Nat /\ NewNode \in 1..Len(tree') /\ tree' \in Seq(Node)
         /\ tree'[NewNode] = node /\ ~HasPairs(tree', NewNode)
         /\ \A i \in 1..Len(tree') : i = NewNode \/ (i \in 1..Len(tree) /\ tree'[i] = tree[i])
         /\ \A j \in Nat : \A p :
              Holds(tree', Unattached(pc', tree', open'), pc', j, p)
                <=> \/ Holds(tree, Unattached(pc, tree, open), pc, j, p)
                    \/ j = NewNode /\ p \in Pointers(tree', NewNode)
                    \/ j = NewNode /\ p = "key" /\ NewNode > 1 /\ pc \notin BuildPC
<1> DEFINE n == NewNode
           loose == Unattached(pc, tree, open)
           looser == Unattached(pc', tree', open')
<1>1. /\ tree \in Seq(Node) /\ open \in Seq(Nat) /\ n = Len(tree) + 1 /\ n \in Nat /\ n > 0
      /\ n \in 1..Len(tree') /\ tree' \in Seq(Node) /\ tree'[n] = node /\ Len(tree') = n
      /\ tree' # <<>>
      /\ \A i \in 1..Len(tree') : i = n \/ (i \in 1..Len(tree) /\ tree'[i] = tree[i])
  <2>1. tree \in Seq(Node) /\ open \in Seq(Nat)
    BY DEF IInv, TypeOK
  <2>2. n = Len(tree) + 1
    BY DEF NewNode
  <2> HIDE DEF n
  <2> QED BY <2>1, <2>2
<1>2. Nested(tree, open) /\ Bare(tree, open, loose) /\ loose = Inside(open)
  BY UnattachedAre DEF IInv, Kept, Stack
<1>3. n > 1 <=> open # <<>>
  <2>1. open = <<>> => Len(tree) = 0
    BY <1>2 DEF Nested
  <2>2. open # <<>> => Len(tree) > 0
    <3> SUFFICES ASSUME open # <<>> PROVE Len(tree) > 0
      OBVIOUS
    <3>1. Parent \in 1..Len(tree)
      BY <1>2, ParentType DEF IInv
    <3> QED BY <1>1, <3>1
  <2> HIDE DEF n
  <2> QED BY <1>1, <2>1, <2>2
<1>4. /\ Nested(tree', open') /\ Bare(tree', open', looser) /\ open' # <<>>
      /\ pc' \in {"attach", "push"} => LastAt(tree', Len(open')) # {}
      /\ n > 1 => n \in looser
      /\ AgreeOn(loose, looser, tree)
  <2>1. CASE /\ pc' \in (BuildPC \cup ParsePC) \ {"attach", "push"}
             /\ open' = Append(open, n)
             /\ node.item \in {Object, Nothing}
    <3>1. looser = Inside(open')
      BY <2>1, UnattachedAre
    <3>2. /\ Nested(tree', Append(open, n)) /\ Append(open, n) # <<>>
          /\ Bare(tree', Append(open, n), Inside(Append(open, n)))
          /\ n > 1 => n \in Inside(Append(open, n))
          /\ AgreeOn(loose, Inside(Append(open, n)), tree)
      <4>1. IsNext(n, tree)
        BY <1>1 DEF IsNext
      <4> HIDE DEF n, loose
      <4> QED BY <1>1, <1>2, <2>1, <4>1, NestedPush
    <3> QED BY <2>1, <3>1, <3>2
  <2>2. CASE pc' \in {"attach", "push"} /\ open' = open /\ open # <<>>
    <3> DEFINE more == loose \cup {n}
    <3>1. n \in more /\ AgreeOn(loose, more, tree)
      BY <1>1 DEF AgreeOn
    <3>2. IsNext(n, tree) /\ IsMore(tree', tree, node)
      BY DEF IsNext, IsMore, NewNode
    <3>3. /\ Nested(tree', open) /\ Bare(tree', open, more)
          /\ LastAt(tree', Len(open)) = {n}
      <4> HIDE DEF more, loose, n
      <4> QED BY <1>1, <1>2, <2>2, <3>1, <3>2, NestedMore
    <3>4. looser = more
      BY <1>2, <2>2, <3>3, UnattachedAre
    <3> HIDE DEF looser, more, loose, n
    <3> QED BY <2>2, <3>1, <3>3, <3>4
  <2> QED BY <2>1, <2>2
<1>5. \A j \in Nat : \A p :
        Holds(tree', looser, pc', j, p)
          <=> \/ Holds(tree, loose, pc, j, p)
              \/ j = n /\ p \in Pointers(tree', n)
              \/ j = n /\ p = "key" /\ n > 1 /\ pc \notin BuildPC
  <2>1. IsNext(n, tree) /\ IsMore(tree', tree, node)
    BY <1>1 DEF IsNext, IsMore
  <2> SUFFICES ASSUME NEW j \in Nat, NEW p
               PROVE  Holds(tree', looser, pc', j, p)
                        <=> \/ Holds(tree, loose, pc, j, p)
                            \/ j = n /\ p \in Pointers(tree', n)
                            \/ j = n /\ p = "key" /\ n > 1 /\ pc \notin BuildPC
    OBVIOUS
  <2>2. AgreeOn(loose, looser, tree) /\ (n = 1 \/ n \in looser)
    <3> HIDE DEF n
    <3> QED BY <1>1, <1>4
  <2>3. tree \in Seq(Node) /\ n \in Nat
    BY <1>1
  <2> HIDE DEF looser, loose, n
  <2> QED BY <2>1, <2>2, <2>3, HoldsMore
<1>6. ~HasPairs(tree', n)
  BY <1>1 DEF HasPairs
<1> QED BY <1>1, <1>3, <1>4, <1>5, <1>6

\* The items that are there are those that were, and the new one.
LEMMA ItemsMore ==
  ASSUME IInv, NEW node \in Node,
         \A i \in 1..Len(tree') : i = NewNode \/ (i \in 1..Len(tree) /\ tree'[i] = tree[i]),
         tree'[NewNode] = node, node.item # Nothing, memory.failed = 0
  PROVE  memory.lost = 0 /\ \A i \in 1..Len(tree') : tree'[i].item # Nothing
  BY DEF IInv, Kept, Failures

LEMMA KeptCreate ==
  ASSUME IInv, Create
  PROVE  Kept'
<1>1. /\ pc = "create" /\ value \in Values /\ at \in Nat /\ open \in Seq(Nat)
      /\ memory \in MemoryType /\ Coming(value)
  BY PCs DEF IInv, TypeOK, Kept, Places, Create
<1> DEFINE n == NewNode
           node == value[at + 1]
           failed == [node EXCEPT !.item = Nothing]
<1>2. /\ node \in Node /\ node.item # Nothing /\ node.depth = Len(open)
      /\ failed \in Node /\ failed.item = Nothing /\ failed.depth = Len(open)
  <2>1. at + 1 \in 1..Len(value) /\ node.depth = Len(open)
    BY <1>1, ValueType DEF Coming
  <2>2. node \in Node /\ node.item # Nothing
    BY <1>1, <2>1, ValueType
  <2> HIDE DEF node
  <2> QED BY <2>1, <2>2 DEF Node, Item
<1>3. open = <<>> => node.item = Object
  <2> SUFFICES ASSUME open = <<>> PROVE node.item = Object
    OBVIOUS
  <2>1. at = 0
    BY <1>1 DEF IInv, Kept, Places
  <2> QED BY <1>1, <2>1, ValueType DEF IsObject
<1>4. \/ pc' = "create" /\ open' = Append(open, n) /\ node.item = Object
      \/ pc' = "attach" /\ open' = open /\ open # <<>>
  BY <1>1, <1>3 DEF Create
<1>5. at' = at + 1 /\ value' = value
  BY DEF Create
<1>6. ASSUME NEW new \in Node, new.depth = Len(open), tree' = Append(tree, new),
             new = failed \/ new.item = node.item
      PROVE  /\ Stack' /\ Places'
             /\ \A j \in Nat : \A p :
                  Holds(tree', Unattached(pc', tree', open'), pc', j, p)
                    <=> \/ Holds(tree, Unattached(pc, tree, open), pc, j, p)
                        \/ j = n /\ p \in Pointers(tree', n)
             /\ n \in Nat /\ n \in 1..Len(tree') /\ tree' \in Seq(Node) /\ tree'[n] = new
             /\ \A i \in 1..Len(tree') : i = n \/ (i \in 1..Len(tree) /\ tree'[i] = tree[i])
  <2>1. pc' \in BuildPC /\ pc \in BuildPC
    BY <1>1, <1>4, PCs
  <2>2. node.item = Object => new.item \in {Object, Nothing}
    BY <1>2, <1>6
  <2>3. \/ /\ pc' \in (BuildPC \cup ParsePC) \ {"attach", "push"}
           /\ open' = Append(open, NewNode)
           /\ new.item \in {Object, Nothing}
        \/ /\ pc' \in {"attach", "push"}
           /\ open' = open /\ open # <<>>
    BY <1>4, <2>2, PCs
  <2>4. pc \in (BuildPC \cup ParsePC) \ {"attach", "push"}
    BY <1>1, PCs
  <2> HIDE DEF node, failed
  <2>5. /\ Nested(tree', open') /\ Bare(tree', open', Unattached(pc', tree', open'))
        /\ open' # <<>> /\ tree' # <<>>
        /\ pc' \in {"attach", "push"} => LastAt(tree', Len(open')) # {}
        /\ n \in Nat /\ n \in 1..Len(tree') /\ tree' \in Seq(Node) /\ tree'[n] = new
        /\ \A i \in 1..Len(tree') : i = n \/ (i \in 1..Len(tree) /\ tree'[i] = tree[i])
        /\ \A j \in Nat : \A p :
             Holds(tree', Unattached(pc', tree', open'), pc', j, p)
               <=> \/ Holds(tree, Unattached(pc, tree, open), pc, j, p)
                   \/ j = n /\ p \in Pointers(tree', n)
    BY <1>6, <2>1, <2>3, <2>4, GrowStep
  <2>6. Stack'
    BY <1>4, <2>5, PCs DEF Stack
  <2>7. Places'
    BY <1>1, <1>4, <1>5, <2>5, PCs DEF Places
  <2> QED BY <2>1, <2>5, <2>6, <2>7
<1>7. Loose(pc, open, NewNode) = {} /\ Loose(pc', open', NewNode') = {}
  BY <1>1, <1>4, LooseAre DEF ValuePC
<1>8. ~memory.wrong /\ Owned(memory.heap, tree, Unattached(pc, tree, open),
                             pc, {})
  BY <1>1, <1>7 DEF IInv, Kept, Heap
<1>9. CASE /\ tree' = Append(tree, node)
           /\ memory' = Alloc(memory, {<<n, p>> : p \in Pointers(Append(tree, node), n)})
  <2> HIDE DEF node, failed
  <2>1. /\ Stack' /\ Places'
        /\ \A j \in Nat : \A p :
             Holds(tree', Unattached(pc', tree', open'), pc', j, p)
               <=> \/ Holds(tree, Unattached(pc, tree, open), pc, j, p)
                   \/ j = n /\ p \in Pointers(tree', n)
        /\ n \in Nat /\ n \in 1..Len(tree') /\ tree' \in Seq(Node) /\ tree'[n] = node
        /\ \A i \in 1..Len(tree') : i = n \/ (i \in 1..Len(tree) /\ tree'[i] = tree[i])
    BY <1>2, <1>6, <1>9
  <2> DEFINE new == {<<n, p>> : p \in Pointers(tree', n)}
  <2>2. new \in BlockSets /\ \A i, q : <<i, q>> \in new <=> i = n /\ q \in Pointers(tree', n)
    BY <2>1, PointersType
  <2> HIDE DEF new, n
  <2>3. memory' = Alloc(memory, new)
    BY <1>9 DEF new
  <2>4. /\ memory'.heap = memory.heap \cup new
        /\ memory'.lost = memory.lost /\ memory'.failed = memory.failed
        /\ memory'.wrong = memory.wrong
    BY <1>1, <2>2, <2>3, AllocIs
  <2>5. Heap'
    <3>1. Owned(memory'.heap, tree', Unattached(pc', tree', open'), pc', {})
      BY <1>8, <2>1, <2>2, <2>4 DEF Owned
    <3> QED BY <1>7, <1>8, <2>4, <3>1 DEF Heap
  <2>6. Failures'
    <3>1. memory.failed = 0 =>
            memory.lost = 0 /\ \A i \in 1..Len(tree') : tree'[i].item # Nothing
      BY <1>2, <2>1, ItemsMore DEF n
    <3>2. pc' \in BuildPC /\ at' # 0
      BY <1>1, <1>4, <1>5, PCs
    <3> QED BY <2>4, <3>1, <3>2, PCs DEF Failures
  <2> QED BY <2>1, <2>5, <2>6 DEF Kept
<1>10. CASE tree' = Append(tree, failed) /\ memory' = Fail(memory, {})
  <2> HIDE DEF node, failed
  <2>1. /\ Stack' /\ Places'
        /\ \A j \in Nat : \A p :
             Holds(tree', Unattached(pc', tree', open'), pc', j, p)
               <=> \/ Holds(tree, Unattached(pc, tree, open), pc, j, p)
                   \/ j = n /\ p \in Pointers(tree', n)
        /\ n \in Nat /\ n \in 1..Len(tree') /\ tree' \in Seq(Node) /\ tree'[n] = failed
    BY <1>2, <1>6, <1>10
  <2>2. Pointers(tree', n) = {}
    <3>1. tree'[n].item.type # "string" /\ tree'[n].item = Nothing /\ Nothing # Object
      BY <1>2, <2>1 DEF Nothing, Object
    <3> HIDE DEF n
    <3> QED BY <2>1, <3>1, PointersAre
  <2>3. /\ memory'.heap = memory.heap
        /\ memory'.failed = memory.failed + 1 /\ memory'.failed # 0
        /\ memory'.wrong = memory.wrong
    BY <1>1, <1>10, FailNothing DEF MemoryType
  <2>4. Heap'
    <3>1. Owned(memory'.heap, tree', Unattached(pc', tree', open'), pc', {})
      BY <1>8, <2>1, <2>2, <2>3 DEF Owned
    <3> QED BY <1>7, <1>8, <2>3, <3>1 DEF Heap
  <2>5. Failures'
    <3>1. pc' \in BuildPC /\ at' # 0
      BY <1>1, <1>4, <1>5, PCs
    <3> QED BY <2>3, <3>1, PCs DEF Failures
  <2> QED BY <2>1, <2>4, <2>5 DEF Kept
<1> QED BY <1>9, <1>10 DEF Create

LEMMA KeptCreated ==
  ASSUME IInv, Created
  PROVE  Kept'
<1>1. /\ pc = "create" /\ open \in Seq(Nat) /\ tree \in Seq(Node) /\ at \in Nat
      /\ value \in Values
  BY PCs DEF Created, IInv, TypeOK, Kept, Places
<1>2. open # <<>>
  <2>1. ASSUME open = <<>> PROVE FALSE
    <3>1. at = 0
      BY <1>1, <2>1 DEF IInv, Kept, Places
    <3>2. Len(value) \in Nat \ {0} /\ value[1].depth = 0
      BY <1>1, ValueType DEF IsObject
    <3>3. Len(open) = 0
      BY <2>1
    <3> QED BY <3>1, <3>2, <3>3 DEF Created, Coming
  <2> QED BY <2>1
<1>3. at # 0
  BY <1>1, <1>2 DEF IInv, Kept, Places
<1>4. /\ UNCHANGED <<tree, memory, at, value>> /\ open' = Front(open)
      /\ pc' = IF Len(open) = 1 THEN "built" ELSE "attach"
  BY DEF Created, reading
<1>5. /\ Unattached(pc, tree, open) = Inside(open)
      /\ Nested(tree, open) /\ Bare(tree, open, Inside(open))
  BY <1>1, PCs, UnattachedAre DEF IInv, Kept, Stack
<1>6. /\ Len(open) = 1 => Front(open) = <<>> /\ Inside(open) = {}
      /\ Len(open) # 1 =>
           /\ Front(open) # <<>>
           /\ Nested(tree, Front(open))
           /\ LastAt(tree, Len(Front(open))) = {open[Len(open)]}
           /\ Inside(Front(open)) \cup {open[Len(open)]} = Inside(open)
           /\ Bare(tree, Front(open), Inside(open))
  BY <1>1, <1>2, <1>5, NestedPop
<1>7. Unattached(pc', tree', open') = Inside(open)
  <2>1. CASE Len(open) = 1
    <3>1. pc' \notin BuildPC \cup ParsePC
      BY <1>4, <2>1, PCs
    <3> QED BY <1>6, <2>1, <3>1, UnattachedAre
  <2>2. CASE Len(open) # 1
    BY <1>4, <1>6, <2>2, UnattachedAre
  <2> QED BY <2>1, <2>2
<1>8. Stack'
  <2>1. tree # <<>>
    <3>1. Parent \in 1..Len(tree)
      BY <1>2, <1>5, ParentType DEF IInv
    <3> QED BY <3>1
  <2>2. CASE Len(open) = 1
    BY <1>4, <1>6, <2>1, <2>2, PCs DEF Stack
  <2>3. CASE Len(open) # 1
    BY <1>4, <1>6, <1>7, <2>3, PCs DEF Stack
  <2> QED BY <2>2, <2>3
<1>9. Places'
  <2>1. CASE Len(open) = 1
    BY <1>4, <2>1, PCs DEF Places
  <2>2. CASE Len(open) # 1
    <3>1. pc' = "attach" /\ open' # <<>> /\ at' > 0 /\ value' \in Values
      BY <1>1, <1>3, <1>4, <1>6, <2>2
    <3>2. LastAt(tree', Len(open')) # {}
      BY <1>4, <1>6, <2>2
    <3> QED BY <3>1, <3>2, PCs DEF Places
  <2> QED BY <2>1, <2>2
<1>10. Heap'
  <2>1. Loose(pc, open, NewNode) = {} /\ Loose(pc', open', NewNode') = {}
    BY <1>1, <1>4, LooseAre DEF ValuePC
  <2>2. ~memory.wrong /\ Owned(memory.heap, tree, Inside(open), pc, {})
    BY <1>1, <1>5, <2>1 DEF IInv, Kept, Heap
  <2>3. (pc \in BuildPC <=> pc' \in BuildPC) \/ Inside(open) = {}
    BY <1>1, <1>4, <1>6, PCs
  <2>4. Owned(memory.heap, tree, Inside(open), pc', {})
    BY <2>2, <2>3, OwnedSame
  <2> QED BY <1>4, <1>7, <2>1, <2>2, <2>4 DEF Heap
<1>11. Failures'
  <2>1. pc' \in {"built", "attach"}
    BY <1>4
  <2> QED BY <1>4, <2>1, PCs DEF IInv, Kept, Failures
<1> QED BY <1>8, <1>9, <1>10, <1>11 DEF Kept

\* The value of the innermost object is given up, or gets into it.
LEMMA ChildStep ==
  ASSUME IInv, pc \in {"attach", "push"},
         open' = open,
         pc' \in (BuildPC \cup ParsePC) \ {"attach", "push"},
         pc \in BuildPC <=> pc' \in BuildPC
  PROVE  /\ tree' = Before(Child) =>
              /\ Nested(tree', open) /\ Bare(tree', open, Unattached(pc', tree', open'))
              /\ \A j \in Nat : \A p :
                   Holds(tree', Unattached(pc', tree', open'), pc', j, p)
                     <=> Holds(tree, Unattached(pc, tree, open), pc, j, p) /\ j < Child
         /\ tree' = tree /\ tree[Parent].item # Nothing =>
              /\ Nested(tree', open) /\ Bare(tree', open, Unattached(pc', tree', open'))
              /\ \A j \in Nat : \A p :
                   Holds(tree', Unattached(pc', tree', open'), pc', j, p)
                     <=> \/ Holds(tree, Unattached(pc, tree, open), pc, j, p)
                         \/ j = Parent /\ p = "pairs"
                         \/ j = Child /\ p = "key" /\ pc \in BuildPC
         /\ \A j \in Nat, p \in Pointer :
              <<j, p>> \in Blocks(tree, Child)
                <=> /\ Holds(tree, Unattached(pc, tree, open), pc, j, p)
                    /\ j >= Child /\ ~(j = Child /\ p = "key")
         /\ open # <<>> /\ tree \in Seq(Node) /\ open \in Seq(Nat)
         /\ Child \in 1..Len(tree) /\ Parent \in 1..Len(tree) /\ Child > 1
<1> DEFINE c == Child
           loose == Inside(open) \cup {c}
<1>1. /\ open # <<>> /\ Nested(tree, open) /\ Bare(tree, open, loose)
      /\ c \in 1..Len(tree) /\ LastAt(tree, Len(open)) = {c}
      /\ Unattached(pc, tree, open) = loose
      /\ Parent \in 1..Len(tree) /\ Len(open) \in Nat \ {0}
  BY ChildType
<1>2. tree \in Seq(Node) /\ open \in Seq(Nat)
  BY DEF IInv, TypeOK
<1>3. Unattached(pc', tree', open') = Inside(open)
  BY UnattachedAre
<1>4. /\ Parent < c /\ c \notin Inside(open) /\ c > 1
      /\ tree[c].depth = Len(open)
      /\ Parent + 1 # c => Parent + 1 \notin loose
      /\ \A j \in loose : j \in Nat /\ j <= c
  <2> HIDE DEF c
  <2>1. c \in LastAt(tree, Len(open))
    BY <1>1
  <2> QED BY <1>1, <1>2, <2>1, ChildIsInside DEF Parent
<1>5. /\ Parent = open[Len(open)]
      /\ tree[Parent].depth < Len(open) /\ tree[Parent].item \in {Object, Nothing}
      /\ \A j \in (Parent + 1)..Len(tree) : tree[j].depth >= Len(open)
  <2>1. /\ tree[open[Len(open)]].depth = Len(open) - 1
        /\ tree[open[Len(open)]].item \in {Object, Nothing}
        /\ \A j \in (open[Len(open)] + 1)..Len(tree) : tree[j].depth >= Len(open)
    BY <1>1, <1>2, InnermostIsLatest
  <2> QED BY <1>1, <2>1 DEF Parent
<1>6. ASSUME tree' = Before(c)
      PROVE  /\ Nested(tree', open) /\ Bare(tree', open, Inside(open))
             /\ \A j \in Nat : \A p :
                  Holds(tree', Inside(open), pc', j, p)
                    <=> Holds(tree, loose, pc, j, p) /\ j < c
  <2>1. IsBefore(tree', tree, c)
    BY <1>6 DEF IsBefore, Before
  <2>2. AgreeBefore(loose, Inside(open), c) /\ c \in loose
    <3> HIDE DEF c
    <3>1. \A j \in 1..(c - 1) : j # c
      BY <1>1
    <3> QED BY <3>1 DEF AgreeBefore
  <2> HIDE DEF c, loose
  <2>3. Nested(tree', open) /\ Bare(tree', open, Inside(open))
    BY <1>1, <1>2, <1>4, <1>5, <2>1, <2>2, NestedLess
  <2>4. \A j \in Nat : \A p : Holds(tree', Inside(open), pc', j, p)
                            <=> Holds(tree, loose, pc, j, p) /\ j < c
    BY <1>1, <1>2, <2>1, <2>2, HoldsLess
  <2> QED BY <2>3, <2>4
<1>7. ASSUME tree' = tree, tree[Parent].item # Nothing
      PROVE  /\ Nested(tree', open) /\ Bare(tree', open, Inside(open))
             /\ \A j \in Nat : \A p :
                  Holds(tree', Inside(open), pc', j, p)
                    <=> \/ Holds(tree, loose, pc, j, p)
                        \/ j = Parent /\ p = "pairs"
                        \/ j = c /\ p = "key" /\ pc \in BuildPC
  <2>1. Bare(tree, open, Inside(open))
    <3> HIDE DEF c
    <3>1. c \in LastAt(tree, Len(open))
      BY <1>1
    <3> QED BY <1>1, <1>2, <1>5, <1>7, <3>1, BareAttached
  <2>2. \A j \in Nat : j \in Inside(open) <=> j \in loose /\ j # c
    BY <1>4
  <2>3. c \in loose /\ tree[Parent].item = Object
    BY <1>5, <1>7
  <2> HIDE DEF c, loose
  <2>4. \A j \in Nat : \A p :
          Holds(tree, Inside(open), pc', j, p)
            <=> \/ Holds(tree, loose, pc, j, p)
                \/ j = Parent /\ p = "pairs"
                \/ j = c /\ p = "key" /\ pc \in BuildPC
    <3> DEFINE tighter == Inside(open)
               d == Len(open)
               o == Parent
    <3>1. /\ o \in 1..Len(tree) /\ d \in Nat
          /\ o < c /\ tree[o].depth < d /\ tree[o].item = Object /\ tree[c].depth = d
          /\ AllInside(tree, o, d) /\ IsWithout(tighter, loose, c)
          /\ c \in loose /\ (o + 1 = c \/ o + 1 \notin loose)
      BY <1>1, <1>4, <1>5, <2>2, <2>3 DEF AllInside, IsWithout
    <3> HIDE DEF tighter, d, o
    <3>2. ASSUME NEW j \in Nat, NEW p
          PROVE  Holds(tree, tighter, pc', j, p)
                   <=> \/ Holds(tree, loose, pc, j, p)
                       \/ j = o /\ p = "pairs"
                       \/ j = c /\ p = "key" /\ pc \in BuildPC
      BY <1>1, <1>2, <3>1, HoldsAttached
    <3> QED BY <3>2 DEF tighter, o
  <2> QED BY <1>1, <1>7, <2>1, <2>4
<1>8. \A j \in Nat, p \in Pointer :
        <<j, p>> \in Blocks(tree, c)
          <=> Holds(tree, loose, pc, j, p) /\ j >= c /\ ~(j = c /\ p = "key")
  <2> HIDE DEF c, loose
  <2> QED BY <1>1, <1>2, <1>4, BlocksHeld
<1> HIDE DEF loose
<1>9. \A j \in Nat : \A p :
        /\ Holds(tree', Unattached(pc', tree', open'), pc', j, p)
             <=> Holds(tree', Inside(open), pc', j, p)
        /\ Holds(tree, Unattached(pc, tree, open), pc, j, p)
             <=> Holds(tree, loose, pc, j, p)
  BY <1>1, <1>3
<1>10. Bare(tree', open, Inside(open)) => Bare(tree', open, Unattached(pc', tree', open'))
  BY <1>3
<1> QED BY <1>1, <1>2, <1>4, <1>6, <1>7, <1>8, <1>9, <1>10

\* The object to get a value does not exist: an allocation had failed.
LEMMA CrashKept ==
  ASSUME IInv, pc' = "crashed", UNCHANGED tree, ~memory'.wrong,
         memory'.failed = memory.failed,
         NEW i \in 1..Len(tree), tree[i].item = Nothing
  PROVE  Kept'
<1>1. memory.failed # 0 /\ memory.failed \in Nat
  BY DEF IInv, Kept, Failures, TypeOK, MemoryType
<1>2. Failures'
  BY <1>1, PCs DEF Failures
<1>3. Stack' /\ Places' /\ Heap'
  BY PCs DEF Stack, Places, Heap
<1> QED BY <1>2, <1>3 DEF Kept

LEMMA KeptAttach ==
  ASSUME IInv, Attach
  PROVE  Kept'
<1> DEFINE c == Child
           o == Parent
           old == Unattached(pc, tree, open)
           new == Unattached(pc', tree', open')
<1>1. /\ pc = "attach" /\ memory \in MemoryType /\ at # 0 /\ value \in Values
      /\ open' = open /\ at' = at /\ value' = value
  BY PCs DEF Attach, IInv, TypeOK, Kept, Places, reading
<1>2. /\ open # <<>> /\ tree \in Seq(Node) /\ c \in 1..Len(tree) /\ o \in 1..Len(tree)
      /\ c \in Nat /\ o \in Nat /\ c > 1 /\ c \in old
  <2>1. c \in old /\ c \in 1..Len(tree) /\ o \in 1..Len(tree) /\ open # <<>>
        /\ Nested(tree, open) /\ LastAt(tree, Len(open)) = {c}
    BY <1>1, ChildType
  <2>2. tree \in Seq(Node) /\ open \in Seq(Nat)
    BY DEF IInv, TypeOK
  <2>3. c > 1
    <3> HIDE DEF c, old
    <3>1. c \in LastAt(tree, Len(open))
      BY <2>1
    <3> QED BY <2>1, <2>2, <3>1, ChildIsInside
  <2> QED BY <2>1, <2>2, <2>3
<1>3. /\ Block(c, "key") \in BlockSets
      /\ \A i, q : <<i, q>> \in Block(c, "key") <=> i = c /\ q = "key"
      /\ Block(o, "pairs") \in BlockSets
      /\ \A i, q : <<i, q>> \in Block(o, "pairs") <=> i = o /\ q = "pairs"
      /\ Block(c, "key") \cup Block(o, "pairs") \in BlockSets
  <2>1. "key" \in Pointer /\ "pairs" \in Pointer
    BY DEF Pointer
  <2> HIDE DEF c, o
  <2> QED BY <1>2, <2>1, BlockIs, UnionType
<1>4. ~memory.wrong /\ Owned(memory.heap, tree, old, pc, {})
  BY <1>1, LooseAre DEF IInv, Kept, Heap, ValuePC
<1>5. ~Holds(tree, old, pc, c, "key")
  <2>1. pc \in BuildPC
    BY <1>1, PCs
  <2> HIDE DEF c, old
  <2>2. "key" \notin Pointers(tree, c)
    BY <1>2, PointersAre
  <2> QED BY <1>2, <2>1, <2>2 DEF Holds
<1>6. ASSUME pc' = "create", Nested(tree', open), Bare(tree', open, new),
             ~memory'.wrong, Owned(memory'.heap, tree', new, pc', {}),
             memory'.failed = 0 => tree' = tree /\ memory'.failed = memory.failed
                                   /\ memory'.lost = memory.lost
      PROVE  Kept'
  <2>1. Stack'
    BY <1>1, <1>2, <1>6, PCs DEF Stack
  <2>2. Places'
    BY <1>1, <1>2, <1>6, PCs DEF Places
  <2>3. Loose(pc', open', NewNode') = {}
    BY <1>6, LooseAre DEF ValuePC
  <2>4. Heap'
    BY <1>6, <2>3 DEF Heap
  <2>5. Failures'
    BY <1>1, <1>6, PCs DEF IInv, Kept, Failures
  <2> QED BY <2>1, <2>2, <2>4, <2>5 DEF Kept
<1>7. ASSUME pc' = "create"
      PROVE  /\ tree' = Before(c) =>
                  /\ Nested(tree', open) /\ Bare(tree', open, new)
                  /\ \A j \in Nat : \A p :
                       Holds(tree', new, pc', j, p) <=> Holds(tree, old, pc, j, p) /\ j < c
             /\ tree' = tree /\ tree[o].item # Nothing =>
                  /\ Nested(tree', open) /\ Bare(tree', open, new)
                  /\ \A j \in Nat : \A p :
                       Holds(tree', new, pc', j, p)
                         <=> \/ Holds(tree, old, pc, j, p)
                             \/ j = o /\ p = "pairs"
                             \/ j = c /\ p = "key"
             /\ \A j \in Nat, p \in Pointer :
                  <<j, p>> \in Blocks(tree, c)
                    <=> Holds(tree, old, pc, j, p) /\ j >= c /\ ~(j = c /\ p = "key")
  <2>1. /\ pc \in {"attach", "push"} /\ pc \in BuildPC /\ pc' \in BuildPC
        /\ pc' \in (BuildPC \cup ParsePC) \ {"attach", "push"}
    BY <1>1, <1>7, PCs
  <2> QED BY <1>1, <2>1, ChildStep
<1>8. /\ Cardinality(Blocks(tree, c)) \in Nat
      /\ Cardinality(Block(c, "key") \cup Blocks(tree, c)) \in Nat
  <2> HIDE DEF c
  <2> QED BY <1>2, LostType
<1>9. /\ Alloc(memory, Block(c, "key")) \in MemoryType
      /\ Alloc(memory, Block(c, "key")).heap = memory.heap \cup Block(c, "key")
      /\ Alloc(memory, Block(c, "key")).failed = memory.failed
      /\ Alloc(memory, Block(c, "key")).wrong = memory.wrong
  <2> HIDE DEF c
  <2> QED BY <1>1, <1>3, AllocIs
<1> HIDE DEF c, o, old, new
<1>10. CASE /\ tree[o].item # Nothing
            /\ pc' = "create"
            /\ memory' = Alloc(memory, Block(c, "key") \cup Block(o, "pairs"))
            /\ UNCHANGED tree
  <2>1. /\ memory'.heap = memory.heap \cup (Block(c, "key") \cup Block(o, "pairs"))
        /\ memory'.lost = memory.lost /\ memory'.failed = memory.failed
        /\ memory'.wrong = memory.wrong
    BY <1>1, <1>3, <1>10, AllocIs
  <2>2. Owned(memory'.heap, tree', new, pc', {})
    BY <1>3, <1>4, <1>7, <1>10, <2>1 DEF Owned
  <2> QED BY <1>4, <1>6, <1>7, <1>10, <2>1, <2>2
<1>11. CASE /\ pc' = "create"
            /\ tree' = Before(c)
            /\ memory' = Fail(memory, Blocks(tree, c))
  <2>1. /\ memory'.heap = memory.heap \ Blocks(tree, c)
        /\ memory'.failed = memory.failed + 1 /\ memory'.failed # 0
        /\ memory'.wrong = memory.wrong
    BY <1>1, <1>8, <1>11, FailIs DEF MemoryType
  <2>2. Owned(memory'.heap, tree', new, pc', {})
    <3> SUFFICES ASSUME NEW j \in Nat, NEW p \in Pointer
                 PROVE  <<j, p>> \in memory'.heap <=> Holds(tree', new, pc', j, p)
      BY DEF Owned
    <3>1. <<j, p>> \in memory.heap <=> Holds(tree, old, pc, j, p)
      BY <1>4 DEF Owned
    <3>2. <<j, p>> \in Blocks(tree, c)
            <=> Holds(tree, old, pc, j, p) /\ j >= c /\ ~(j = c /\ p = "key")
      BY <1>7, <1>11
    <3>3. Holds(tree', new, pc', j, p) <=> Holds(tree, old, pc, j, p) /\ j < c
      BY <1>7, <1>11
    <3>4. j < c \/ j >= c
      BY <1>2
    <3>5. j = c /\ p = "key" => ~Holds(tree, old, pc, j, p)
      BY <1>5
    <3>6. j >= c => ~(j < c)
      BY <1>2
    <3> QED BY <2>1, <3>1, <3>2, <3>3, <3>4, <3>5, <3>6
  <2> QED BY <1>4, <1>6, <1>7, <1>11, <2>1, <2>2
<1>12. CASE /\ pc' = "create"
            /\ tree' = Before(c)
            /\ memory' = Fail(Alloc(memory, Block(c, "key")),
                              Block(c, "key") \cup Blocks(tree, c))
  <2>1. /\ memory'.heap = (memory.heap \cup Block(c, "key"))
                            \ (Block(c, "key") \cup Blocks(tree, c))
        /\ memory'.failed = memory.failed + 1 /\ memory'.failed # 0
        /\ memory'.wrong = memory.wrong
    BY <1>1, <1>8, <1>9, <1>12, FailIs DEF MemoryType
  <2>2. Owned(memory'.heap, tree', new, pc', {})
    <3> SUFFICES ASSUME NEW j \in Nat, NEW p \in Pointer
                 PROVE  <<j, p>> \in memory'.heap <=> Holds(tree', new, pc', j, p)
      BY DEF Owned
    <3>1. <<j, p>> \in memory.heap <=> Holds(tree, old, pc, j, p)
      BY <1>4 DEF Owned
    <3>2. <<j, p>> \in Blocks(tree, c)
            <=> Holds(tree, old, pc, j, p) /\ j >= c /\ ~(j = c /\ p = "key")
      BY <1>7, <1>12
    <3>3. Holds(tree', new, pc', j, p) <=> Holds(tree, old, pc, j, p) /\ j < c
      BY <1>7, <1>12
    <3>4. j < c \/ j >= c
      BY <1>2
    <3>5. j = c /\ p = "key" => ~Holds(tree, old, pc, j, p)
      BY <1>5
    <3>6. j >= c => ~(j < c)
      BY <1>2
    <3>7. <<j, p>> \in Block(c, "key") <=> j = c /\ p = "key"
      BY <1>3
    <3> QED BY <2>1, <3>1, <3>2, <3>3, <3>4, <3>5, <3>6, <3>7
  <2> QED BY <1>4, <1>6, <1>7, <1>12, <2>1, <2>2
<1>13. CASE /\ tree[o].item = Nothing
            /\ pc' = "crashed"
            /\ memory' = Alloc(memory, Block(c, "key"))
            /\ UNCHANGED tree
  <2>1. ~memory'.wrong /\ memory'.failed = memory.failed
    BY <1>4, <1>9, <1>13
  <2> QED BY <1>2, <1>13, <2>1, CrashKept
<1>14. \/ /\ tree[o].item # Nothing
          /\ pc' = "create"
          /\ memory' = Alloc(memory, Block(c, "key") \cup Block(o, "pairs"))
          /\ UNCHANGED tree
       \/ /\ pc' = "create"
          /\ tree' = Before(c)
          /\ memory' = Fail(memory, Blocks(tree, c))
       \/ /\ pc' = "create"
          /\ tree' = Before(c)
          /\ memory' = Fail(Alloc(memory, Block(c, "key")),
                            Block(c, "key") \cup Blocks(tree, c))
       \/ /\ tree[o].item = Nothing
          /\ pc' = "crashed"
          /\ memory' = Alloc(memory, Block(c, "key"))
          /\ UNCHANGED tree
  BY DEF Attach, c, o
<1> QED BY <1>10, <1>11, <1>12, <1>13, <1>14

LEMMA KeptPush ==
  ASSUME IInv, Push
  PROVE  Kept'
<1> DEFINE c == Child
           o == Parent
           old == Unattached(pc, tree, open)
           new == Unattached(pc', tree', open')
<1>1. pc = "push" /\ memory \in MemoryType /\ open' = open
  BY DEF Push, IInv, TypeOK
<1>2. /\ open # <<>> /\ tree \in Seq(Node) /\ c \in 1..Len(tree) /\ o \in 1..Len(tree)
      /\ c \in Nat /\ o \in Nat /\ c > 1
  <2>1. c \in 1..Len(tree) /\ o \in 1..Len(tree) /\ open # <<>>
        /\ Nested(tree, open) /\ LastAt(tree, Len(open)) = {c}
    BY <1>1, ChildType
  <2>2. tree \in Seq(Node) /\ open \in Seq(Nat)
    BY DEF IInv, TypeOK
  <2>3. c > 1
    <3> HIDE DEF c
    <3>1. c \in LastAt(tree, Len(open))
      BY <2>1
    <3> QED BY <2>1, <2>2, <3>1, ChildIsInside
  <2> QED BY <2>1, <2>2, <2>3
<1>3. /\ Block(c, "key") \in BlockSets
      /\ \A i, q : <<i, q>> \in Block(c, "key") <=> i = c /\ q = "key"
      /\ Block(o, "pairs") \in BlockSets
      /\ \A i, q : <<i, q>> \in Block(o, "pairs") <=> i = o /\ q = "pairs"
      /\ Block(c, "key") \cup Blocks(tree, c) \in BlockSets
  <2>1. "key" \in Pointer /\ "pairs" \in Pointer
    BY DEF Pointer
  <2> HIDE DEF c, o
  <2> QED BY <1>2, <2>1, BlockIs, BlocksType, UnionType
<1>4. ~memory.wrong /\ Owned(memory.heap, tree, old, pc, {})
  BY <1>1, LooseAre DEF IInv, Kept, Heap, ValuePC
<1>5. Holds(tree, old, pc, c, "key")
  <2>1. pc \notin BuildPC
    BY <1>1, PCs
  <2> HIDE DEF c, old
  <2> QED BY <1>2, <2>1 DEF Holds
<1>6. memory.lost <= memory.failed /\ memory.lost \in Nat /\ memory.failed \in Nat
  BY <1>1, PCs DEF IInv, Kept, Failures, MemoryType
<1>7. ASSUME pc' \in {"out", "key", "end"}, Nested(tree', open), Bare(tree', open, new),
             ~memory'.wrong, Owned(memory'.heap, tree', new, pc', {}),
             memory'.lost = memory.lost,
             \/ memory'.failed = memory.failed /\ tree' = tree
             \/ memory'.failed = memory.failed + 1
      PROVE  Kept'
  <2>1. Stack'
    BY <1>1, <1>2, <1>7, PCs DEF Stack
  <2>2. Places'
    BY <1>7, PCs DEF Places
  <2>3. Loose(pc', open', NewNode') = {}
    BY <1>7, LooseAre DEF ValuePC
  <2>4. Heap'
    BY <1>7, <2>3 DEF Heap
  <2>5. Failures'
    BY <1>6, <1>7, PCs DEF IInv, Kept, Failures
  <2> QED BY <2>1, <2>2, <2>4, <2>5 DEF Kept
<1>8. ASSUME pc' \in {"out", "key", "end"}
      PROVE  /\ tree' = Before(c) =>
                  /\ Nested(tree', open) /\ Bare(tree', open, new)
                  /\ \A j \in Nat : \A p :
                       Holds(tree', new, pc', j, p) <=> Holds(tree, old, pc, j, p) /\ j < c
             /\ tree' = tree /\ tree[o].item # Nothing =>
                  /\ Nested(tree', open) /\ Bare(tree', open, new)
                  /\ \A j \in Nat : \A p :
                       Holds(tree', new, pc', j, p)
                         <=> Holds(tree, old, pc, j, p) \/ (j = o /\ p = "pairs")
             /\ \A j \in Nat, p \in Pointer :
                  <<j, p>> \in Blocks(tree, c)
                    <=> Holds(tree, old, pc, j, p) /\ j >= c /\ ~(j = c /\ p = "key")
  <2>1. /\ pc \in {"attach", "push"} /\ pc \notin BuildPC /\ pc' \notin BuildPC
        /\ pc' \in (BuildPC \cup ParsePC) \ {"attach", "push"}
    BY <1>1, <1>8, PCs
  <2> QED BY <1>1, <2>1, ChildStep
<1> HIDE DEF c, o, old, new
<1>9. CASE /\ tree[o].item # Nothing
           /\ pc' \in {"out", "key", "end"}
           /\ memory' = Alloc(memory, Block(o, "pairs"))
           /\ UNCHANGED tree
  <2>1. /\ memory'.heap = memory.heap \cup Block(o, "pairs")
        /\ memory'.lost = memory.lost /\ memory'.failed = memory.failed
        /\ memory'.wrong = memory.wrong
    BY <1>1, <1>3, <1>9, AllocIs
  <2>2. Owned(memory'.heap, tree', new, pc', {})
    BY <1>3, <1>4, <1>8, <1>9, <2>1 DEF Owned
  <2> QED BY <1>4, <1>7, <1>8, <1>9, <2>1, <2>2
<1>10. CASE /\ pc' = "out"
            /\ memory' = Free(Fail(memory, {}), Block(c, "key") \cup Blocks(tree, c))
            /\ tree' = Before(c)
  <2> DEFINE freed == Block(c, "key") \cup Blocks(tree, c)
  <2>1. freed \in BlockSets
    BY <1>3
  <2>2. ASSUME NEW j \in Nat, NEW p \in Pointer
        PROVE  /\ <<j, p>> \in freed <=> Holds(tree, old, pc, j, p) /\ j >= c
               /\ Holds(tree', new, pc', j, p) <=> Holds(tree, old, pc, j, p) /\ j < c
               /\ <<j, p>> \in memory.heap <=> Holds(tree, old, pc, j, p)
               /\ j < c \/ j >= c
               /\ ~(j < c /\ j >= c)
    <3>1. <<j, p>> \in Blocks(tree, c)
            <=> Holds(tree, old, pc, j, p) /\ j >= c /\ ~(j = c /\ p = "key")
      BY <1>8, <1>10
    <3>2. Holds(tree', new, pc', j, p) <=> Holds(tree, old, pc, j, p) /\ j < c
      BY <1>8, <1>10
    <3>3. <<j, p>> \in Block(c, "key") <=> j = c /\ p = "key"
      BY <1>3
    <3>4. j = c => j >= c
      BY <1>2
    <3>5. (j < c \/ j >= c) /\ ~(j < c /\ j >= c)
      BY <1>2
    <3>6. <<j, p>> \in memory.heap <=> Holds(tree, old, pc, j, p)
      BY <1>4 DEF Owned
    <3> QED BY <1>5, <3>1, <3>2, <3>3, <3>4, <3>5, <3>6
  <2> HIDE DEF freed
  <2>3. freed \subseteq memory.heap
    <3>1. \A b \in freed : \E j \in Nat, p \in Pointer : b = <<j, p>>
      BY <2>1 DEF BlockSets
    <3> QED BY <2>2, <3>1
  <2>4. memory' = Free(Fail(memory, {}), freed)
    BY <1>10 DEF freed
  <2>5. /\ memory'.heap = memory.heap \ freed
        /\ memory'.lost = memory.lost /\ memory'.failed = memory.failed + 1
        /\ ~memory'.wrong
    <3>1. /\ Fail(memory, {}) \in MemoryType
          /\ Fail(memory, {}).heap = memory.heap
          /\ Fail(memory, {}).lost = memory.lost
          /\ Fail(memory, {}).failed = memory.failed + 1
          /\ Fail(memory, {}).wrong = memory.wrong
      BY <1>1, FailNothing
    <3> QED BY <1>4, <2>1, <2>3, <2>4, <3>1, FreeIs
  <2>6. Owned(memory'.heap, tree', new, pc', {})
    BY <2>2, <2>5 DEF Owned
  <2> QED BY <1>7, <1>8, <1>10, <2>5, <2>6
<1>11. CASE /\ tree[o].item = Nothing
            /\ pc' = "crashed"
            /\ UNCHANGED <<tree, memory>>
  BY <1>2, <1>4, <1>11, CrashKept
<1>12. \/ /\ tree[o].item # Nothing
          /\ pc' \in {"out", "key", "end"}
          /\ memory' = Alloc(memory, Block(o, "pairs"))
          /\ UNCHANGED tree
       \/ /\ pc' = "out"
          /\ memory' = Free(Fail(memory, {}), Block(c, "key") \cup Blocks(tree, c))
          /\ tree' = Before(c)
       \/ /\ tree[o].item = Nothing
          /\ pc' = "crashed"
          /\ UNCHANGED <<tree, memory>>
  BY DEF Push, c, o
<1> QED BY <1>9, <1>10, <1>11, <1>12

\* While a key or a value is read the values stay, and what is read has its blocks.
LEMMA ReadingKept ==
  ASSUME IInv, UNCHANGED <<tree, open>>, open # <<>>,
         pc \in ParsePC \ {"push"}, pc' \in ParsePC \ {"push"},
         ~memory'.wrong,
         \A j \in Nat, p \in Pointer :
           <<j, p>> \in memory'.heap
             <=> \/ <<j, p>> \in memory.heap /\ <<j, p>> \notin Loose(pc, open, NewNode)
                 \/ <<j, p>> \in Loose(pc', open, NewNode),
         memory'.lost <= memory'.failed,
         memory'.failed = 0 => memory'.lost = 0 /\ memory.failed = 0
  PROVE  Kept'
<1> DEFINE loose == Unattached(pc, tree, open)
           old == Loose(pc, open, NewNode)
           new == Loose(pc', open, NewNode)
<1>1. /\ pc \notin BuildPC /\ pc' \notin BuildPC
      /\ pc' \notin {"attach", "push"} \cup DonePC \cup WritePC
  BY PCs DEF DonePC
<1>2. Unattached(pc', tree', open') = loose
  <2>1. Unattached(pc', tree', open') = Inside(open') /\ loose = Inside(open)
    BY <1>1, UnattachedAre DEF BuildPC
  <2> QED BY <2>1
<1>3. Stack'
  <2>1. Nested(tree, open) /\ Bare(tree, open, loose)
    BY DEF IInv, Kept, Stack
  <2> HIDE DEF loose
  <2> QED BY <1>1, <1>2, <2>1 DEF Stack, DonePC
<1>4. Places'
  BY <1>1 DEF Places, BuildPC, WritePC
<1>5. Heap'
  <2>1. Owned(memory.heap, tree, loose, pc, old)
    BY PCs DEF IInv, Kept, Heap
  <2>2. ASSUME NEW j \in Nat, NEW p \in Pointer, <<j, p>> \in old
        PROVE  ~Holds(tree, loose, pc, j, p)
    <3>1. NewNode \in Nat /\ NewNode \notin 1..Len(tree)
      BY DEF NewNode, IInv, TypeOK
    <3>2. j = NewNode
      BY <2>2, <3>1 DEF Loose, Block
    <3> QED BY <3>1, <3>2 DEF Holds
  <2>3. NewNode' = NewNode
    BY DEF NewNode
  <2>4. \A j \in Nat, p \in Pointer :
          Holds(tree', loose, pc', j, p) <=> Holds(tree, loose, pc, j, p)
    BY <1>1 DEF Holds
  <2> HIDE DEF loose, old, new
  <2>5. Owned(memory'.heap, tree', loose, pc', new)
    <3> SUFFICES ASSUME NEW j \in Nat, NEW p \in Pointer
                 PROVE  <<j, p>> \in memory'.heap
                          <=> Holds(tree', loose, pc', j, p) \/ <<j, p>> \in new
      BY DEF Owned
    <3>1. <<j, p>> \in memory.heap
            <=> Holds(tree, loose, pc, j, p) \/ <<j, p>> \in old
      BY <2>1 DEF Owned
    <3>2. <<j, p>> \in memory'.heap
            <=> \/ <<j, p>> \in memory.heap /\ <<j, p>> \notin old
                \/ <<j, p>> \in new
      BY DEF old, new
    <3> QED BY <2>2, <2>4, <3>1, <3>2
  <2>6. Loose(pc', open', NewNode') = new
    BY <2>3 DEF new
  <2> QED BY <1>2, <2>5, <2>6 DEF Heap
<1>6. Failures'
  BY <1>1 DEF IInv, Kept, Failures, DonePC, BuildPC
<1> QED BY <1>3, <1>4, <1>5, <1>6 DEF Kept

\* The blocks of what is being read are in use.
LEMMA ReadingOwns ==
  ASSUME IInv, pc # "crashed"
  PROVE  /\ Loose(pc, open, NewNode) \subseteq memory.heap
         /\ ~memory.wrong /\ memory \in MemoryType
         /\ memory.lost \in Nat /\ memory.failed \in Nat
         /\ memory.failed = 0 => memory.lost = 0
         /\ pc \in ParsePC => memory.lost <= memory.failed
         /\ NewNode \in Nat
         /\ \A p \in Pointer : <<NewNode, p>> \in memory.heap
                                 <=> <<NewNode, p>> \in Loose(pc, open, NewNode)
<1>1. NewNode \in Nat /\ NewNode \notin 1..Len(tree)
  BY DEF NewNode, IInv, TypeOK
<1>2. memory \in MemoryType /\ memory.lost \in Nat /\ memory.failed \in Nat
  BY DEF IInv, TypeOK, MemoryType
<1>3. ~memory.wrong /\ Owned(memory.heap, tree, Unattached(pc, tree, open),
                             pc, Loose(pc, open, NewNode))
  BY DEF IInv, Kept, Heap
<1>4. \A b \in Loose(pc, open, NewNode) : \E p \in Pointer : b = <<NewNode, p>>
  BY DEF Loose, Block, Pointer
<1>5. ASSUME NEW p \in Pointer
      PROVE  <<NewNode, p>> \in memory.heap <=> <<NewNode, p>> \in Loose(pc, open, NewNode)
  <2> DEFINE others == Loose(pc, open, NewNode)
             loose == Unattached(pc, tree, open)
  <2>1. ~Holds(tree, loose, pc, NewNode, p)
    BY <1>1 DEF Holds
  <2> HIDE DEF loose, others
  <2>2. Owned(memory.heap, tree, loose, pc, others)
    BY <1>3 DEF loose, others
  <2>3. <<NewNode, p>> \in memory.heap <=> <<NewNode, p>> \in others
    BY <1>1, <2>1, <2>2 DEF Owned
  <2> QED BY <2>3 DEF others
<1>6. Loose(pc, open, NewNode) \subseteq memory.heap
  BY <1>4, <1>5
<1>7. /\ memory.failed = 0 => memory.lost = 0
      /\ pc \in ParsePC => memory.lost <= memory.failed
  BY DEF IInv, Kept, Failures
<1> QED BY <1>1, <1>2, <1>3, <1>5, <1>6, <1>7
\* A string is read as a value, or as a key: from where, which block it gets, and
\* where the program is in its loop and behind it.
StringAt(first, pointer, loop, caller) ==
  \/ <<first, pointer, loop, caller>> = <<"string", "string", "string_loop", "number">>
  \/ <<first, pointer, loop, caller>> = <<"key", "key", "key_loop", "end">>

LEMMA StringLoose ==
  ASSUME NEW first, NEW pointer, NEW loop, NEW caller,
         StringAt(first, pointer, loop, caller),
         NEW o, o # <<>>, NEW n \in Nat
  PROVE  /\ Loose(loop, o, n) = Loose(first, o, n) \cup Block(n, pointer)
         /\ Loose(caller, o, n) = Loose(first, o, n)
         /\ <<n, pointer>> \notin Loose(first, o, n)
         /\ pointer \in Pointer /\ loop # "push"
         /\ first \in ParsePC \ {"push"} /\ loop \in ParsePC \ {"push"}
         /\ caller \in ParsePC \ {"push"}
<1>1. CASE first = "string" /\ pointer = "string" /\ loop = "string_loop" /\ caller = "number"
  <2>1. Loose(first, o, n) = Block(n, "key") /\ Loose(caller, o, n) = Block(n, "key")
    BY <1>1, LooseAre DEF ValuePC
  <2>2. Loose(loop, o, n) = Block(n, "key") \cup Block(n, "string")
    BY <1>1, LooseAre
  <2>3. <<n, "string">> \notin Block(n, "key")
    BY DEF Block
  <2> QED BY <1>1, <2>1, <2>2, <2>3, PCs DEF Pointer
<1>2. CASE first = "key" /\ pointer = "key" /\ loop = "key_loop" /\ caller = "end"
  <2>1. Loose(first, o, n) = {} /\ Loose(caller, o, n) = {}
    BY <1>2, LooseAre DEF ValuePC
  <2>2. Loose(loop, o, n) = Block(n, "key")
    BY <1>2, LooseAre
  <2> QED BY <1>2, <2>1, <2>2, PCs DEF Pointer
<1> QED BY <1>1, <1>2 DEF StringAt

LEMMA KeptStringBegins ==
  ASSUME IInv, NEW pointer, NEW loop, NEW caller, StringAt(pc, pointer, loop, caller),
         StringBegins(pointer, loop, caller)
  PROVE  Kept'
<1> DEFINE n == NewNode
           old == Loose(pc, open, n)
           block == Block(n, pointer)
<1>1. pc # "crashed" /\ pc \in ParsePC \ {"object"}
  BY PCs DEF StringAt
<1>2. open # <<>> /\ n \in Nat
  BY <1>1, ReadingOwns DEF IInv, Kept, Stack
<1>3. /\ Loose(loop, open, n) = old \cup block
      /\ Loose(caller, open, n) = old
      /\ <<n, pointer>> \notin old
      /\ pointer \in Pointer
      /\ pc \in ParsePC \ {"push"} /\ loop \in ParsePC \ {"push"}
      /\ caller \in ParsePC \ {"push"}
  <2> HIDE DEF n
  <2> QED BY <1>2, StringLoose
<1>4. /\ old \subseteq memory.heap
      /\ ~memory.wrong /\ memory \in MemoryType
      /\ memory.lost \in Nat /\ memory.failed \in Nat
      /\ memory.failed = 0 => memory.lost = 0
      /\ memory.lost <= memory.failed
  BY <1>1, ReadingOwns
<1>5. block \in BlockSets
  <2> HIDE DEF n
  <2> QED BY <1>2, <1>3, BlockIs
<1>6. UNCHANGED <<tree, open>>
  BY DEF StringBegins
<1> HIDE DEF n, old, block
<1>7. CASE pc' = loop /\ memory' = Alloc(memory, block)
  <2>1. /\ memory'.heap = memory.heap \cup block
        /\ memory'.lost = memory.lost /\ memory'.failed = memory.failed
        /\ ~memory'.wrong
    BY <1>4, <1>5, <1>7, AllocIs
  <2>2. \A j \in Nat, p \in Pointer :
          <<j, p>> \in memory'.heap
            <=> \/ <<j, p>> \in memory.heap /\ <<j, p>> \notin Loose(pc, open, NewNode)
                \/ <<j, p>> \in Loose(pc', open, NewNode)
    <3>1. Loose(pc', open, NewNode) = old \cup block /\ Loose(pc, open, NewNode) = old
      BY <1>3, <1>7 DEF n, old
    <3> QED BY <1>4, <2>1, <3>1
  <2> QED BY <1>2, <1>3, <1>4, <1>6, <1>7, <2>1, <2>2, ReadingKept
<1>8. CASE pc' = caller /\ memory' \in {memory, Fail(memory, {})}
  <2>1. /\ memory'.heap = memory.heap /\ memory'.lost = memory.lost
        /\ memory'.failed \in {memory.failed, memory.failed + 1}
        /\ ~memory'.wrong
    BY <1>4, <1>8, FailNothing
  <2>2. \A j \in Nat, p \in Pointer :
          <<j, p>> \in memory'.heap
            <=> \/ <<j, p>> \in memory.heap /\ <<j, p>> \notin Loose(pc, open, NewNode)
                \/ <<j, p>> \in Loose(pc', open, NewNode)
    <3>1. Loose(pc', open, NewNode) = old /\ Loose(pc, open, NewNode) = old
      BY <1>3, <1>8 DEF n, old
    <3> QED BY <1>4, <2>1, <3>1
  <2>3. memory'.lost <= memory'.failed
        /\ (memory'.failed = 0 => memory'.lost = 0 /\ memory.failed = 0)
    BY <1>4, <2>1
  <2> QED BY <1>2, <1>3, <1>6, <1>8, <2>1, <2>2, <2>3, ReadingKept
<1> QED BY <1>7, <1>8 DEF StringBegins, block, n

LEMMA KeptStringEnds ==
  ASSUME IInv, NEW first, NEW pointer, NEW caller, StringAt(first, pointer, pc, caller),
         StringWrong(pointer, caller) \/ StringLost(pointer, caller)
  PROVE  Kept'
<1> DEFINE n == NewNode
           old == Loose(pc, open, n)
           new == Loose(caller, open, n)
           block == Block(n, pointer)
<1>1. pc # "crashed" /\ pc \in ParsePC \ {"object"}
  BY PCs DEF StringAt
<1>2. open # <<>> /\ n \in Nat
  BY <1>1, ReadingOwns DEF IInv, Kept, Stack
<1>3. /\ old = new \cup block
      /\ <<n, pointer>> \notin new
      /\ pointer \in Pointer
      /\ pc \in ParsePC \ {"push"} /\ caller \in ParsePC \ {"push"}
  <2> DEFINE before == Loose(first, open, n)
  <2> HIDE DEF n
  <2>1. CASE first = "string" /\ pointer = "string" /\ pc = "string_loop" /\ caller = "number"
    <3>1. before = Block(n, "key") /\ Loose(caller, open, n) = Block(n, "key")
      BY <1>2, <2>1, LooseAre DEF ValuePC
    <3>2. Loose(pc, open, n) = Block(n, "key") \cup Block(n, "string")
      BY <1>2, <2>1, LooseAre
    <3>3. <<n, "string">> \notin Block(n, "key")
      BY DEF Block
    <3> QED BY <2>1, <3>1, <3>2, <3>3, PCs DEF Pointer
  <2>2. CASE first = "key" /\ pointer = "key" /\ pc = "key_loop" /\ caller = "end"
    <3>1. before = {} /\ Loose(caller, open, n) = {}
      BY <2>2, LooseAre DEF ValuePC
    <3>2. Loose(pc, open, n) = Block(n, "key")
      BY <2>2, LooseAre
    <3> QED BY <2>2, <3>1, <3>2, PCs DEF Pointer
  <2> QED BY <2>1, <2>2 DEF StringAt
<1>4. /\ old \subseteq memory.heap
      /\ ~memory.wrong /\ memory \in MemoryType
      /\ memory.lost \in Nat /\ memory.failed \in Nat
      /\ memory.failed = 0 => memory.lost = 0
      /\ memory.lost <= memory.failed
  BY <1>1, ReadingOwns
<1>5. block \in BlockSets /\ Cardinality(block) = 1
      /\ \A j, p : <<j, p>> \in block <=> j = n /\ p = pointer
  <2> HIDE DEF n
  <2> QED BY <1>2, <1>3, BlockIs, BlockSize
<1>6. UNCHANGED <<tree, open>> /\ pc' = caller
  BY DEF StringWrong, StringLost
<1>7. Loose(pc', open, NewNode) = new /\ Loose(pc, open, NewNode) = old
  BY <1>6
<1> HIDE DEF n, old, new, block
<1>8. memory'.heap = memory.heap \ block =>
        \A j \in Nat, p \in Pointer :
          <<j, p>> \in memory'.heap
            <=> \/ <<j, p>> \in memory.heap /\ <<j, p>> \notin Loose(pc, open, NewNode)
                \/ <<j, p>> \in Loose(pc', open, NewNode)
  <2>1. new \cap block = {}
    <3>1. block = {<<n, pointer>>}
      BY DEF block, Block
    <3> QED BY <1>3, <3>1
  <2> QED BY <1>3, <1>4, <1>7, <2>1
<1>9. CASE StringWrong(pointer, caller)
  <2>1. memory' = Free(memory, block)
    BY <1>9 DEF StringWrong, block, n
  <2>2. /\ memory'.heap = memory.heap \ block
        /\ memory'.lost = memory.lost /\ memory'.failed = memory.failed
        /\ ~memory'.wrong
    BY <1>3, <1>4, <1>5, <2>1, FreeIs
  <2> QED BY <1>2, <1>3, <1>4, <1>6, <1>8, <2>2, ReadingKept
<1>10. CASE StringLost(pointer, caller)
  <2>1. memory' = Fail(memory, block)
    BY <1>10 DEF StringLost, block, n
  <2>2. /\ memory'.heap = memory.heap \ block
        /\ memory'.lost = memory.lost + 1 /\ memory'.failed = memory.failed + 1
        /\ ~memory'.wrong
    BY <1>4, <1>5, <2>1, FailIs
  <2>3. memory'.lost <= memory'.failed /\ memory'.failed # 0
    BY <1>4, <2>2
  <2> QED BY <1>2, <1>3, <1>6, <1>8, <2>2, <2>3, ReadingKept
<1> QED BY <1>9, <1>10

\* The value is put, without having been allocated, where the next is looked for.
LEMMA KeptReading ==
  ASSUME IInv, UNCHANGED <<tree, open, memory>>, open # <<>>,
         pc \in ParsePC \ {"push"}, pc' \in ParsePC \ {"push"},
         Loose(pc', open, NewNode) = Loose(pc, open, NewNode)
  PROVE  Kept'
<1>1. pc # "crashed"
  BY PCs
<1>2. /\ Loose(pc, open, NewNode) \subseteq memory.heap
      /\ ~memory.wrong
      /\ memory.failed = 0 => memory.lost = 0
      /\ memory.lost <= memory.failed
  BY <1>1, ReadingOwns
<1>3. \A j \in Nat, p \in Pointer :
        <<j, p>> \in memory'.heap
          <=> \/ <<j, p>> \in memory.heap /\ <<j, p>> \notin Loose(pc, open, NewNode)
              \/ <<j, p>> \in Loose(pc', open, NewNode)
  BY <1>2
<1> QED BY <1>2, <1>3, ReadingKept
\* Which type of value is found where, and which is tried next.
ValueAt(place, type, other) ==
  \/ place = "string_loop" /\ type = "string" /\ other = "number"
  \/ place = "digits" /\ type = "number" /\ other = "boolean"
  \/ place = "boolean" /\ type = "boolean" /\ other = "object"

LEMMA ValueLoose ==
  ASSUME NEW type, NEW other, ValueAt(pc, type, other),
         open # <<>>, NEW n \in Nat
  PROVE  /\ pc \in ParsePC \ {"push", "object"} /\ other \in ParsePC \ {"push"}
         /\ type \in {"string", "number", "boolean"}
         /\ Loose(other, open, n) = Block(n, "key")
         /\ Loose(pc, open, n)
              = Block(n, "key") \cup IF type = "string" THEN Block(n, "string") ELSE {}
<1>1. CASE pc = "string_loop" /\ type = "string" /\ other = "number"
  <2>1. /\ Loose(other, open, n) = Block(n, "key")
        /\ Loose(pc, open, n) = Block(n, "key") \cup Block(n, "string")
    BY <1>1, LooseAre DEF ValuePC
  <2> QED BY <1>1, <2>1, PCs
<1>2. CASE \/ pc = "digits" /\ type = "number" /\ other = "boolean"
           \/ pc = "boolean" /\ type = "boolean" /\ other = "object"
  <2>1. /\ Loose(other, open, n) = Block(n, "key")
        /\ Loose(pc, open, n) = Block(n, "key")
    BY <1>2, LooseAre DEF ValuePC
  <2> QED BY <1>2, <2>1, PCs
<1> QED BY <1>1, <1>2 DEF ValueAt

LEMMA KeptValueFound ==
  ASSUME IInv, NEW x \in Item, NEW next, NEW other, ValueAt(pc, x.type, other),
         ValueFound(x, next, other)
  PROVE  Kept'
<1> DEFINE n == NewNode
           old == Unattached(pc, tree, open)
           new == Unattached(pc', tree', open')
           held == Block(n, "string")
<1>1. pc # "crashed" /\ pc \in ParsePC \ {"object"}
  BY PCs DEF ValueAt
<1>2. open # <<>> /\ n \in Nat /\ UNCHANGED open
  BY <1>1, ReadingOwns DEF IInv, Kept, Stack, ValueFound
<1>3. /\ pc \in ParsePC \ {"push", "object"} /\ other \in ParsePC \ {"push"}
      /\ x.type \in {"string", "number", "boolean"}
      /\ Loose(other, open, n) = Block(n, "key")
      /\ Loose(pc, open, n)
           = Block(n, "key") \cup IF x.type = "string" THEN held ELSE {}
  <2> DEFINE type == x.type
  <2> HIDE DEF n, type
  <2> QED BY <1>2, ValueLoose DEF type
<1>4. /\ Loose(pc, open, n) \subseteq memory.heap
      /\ ~memory.wrong /\ memory \in MemoryType
      /\ memory.lost \in Nat /\ memory.failed \in Nat
      /\ memory.failed = 0 => memory.lost = 0
      /\ memory.lost <= memory.failed
  BY <1>1, ReadingOwns
<1>5. /\ held \in BlockSets /\ {} \in BlockSets /\ Block(n, "value") \in BlockSets
      /\ \A j, p : <<j, p>> \in held <=> j = n /\ p = "string"
      /\ \A j, p : <<j, p>> \in Block(n, "key") <=> j = n /\ p = "key"
      /\ \A j, p : <<j, p>> \in Block(n, "value") <=> j = n /\ p = "value"
  <2>1. "string" \in Pointer /\ "key" \in Pointer /\ "value" \in Pointer
    BY DEF Pointer
  <2>2. {} \in BlockSets
    BY DEF BlockSets
  <2> HIDE DEF n
  <2> QED BY <1>2, <2>1, <2>2, BlockIs
<1>6. x # Nothing /\ x # Object
  BY <1>3 DEF Nothing, Object
<1>7. CASE /\ pc' = "push"
           /\ tree' = Grown(x)
           /\ memory' = Alloc(memory, Block(n, "value"))
  <2> DEFINE node == [depth |-> Len(open), key |-> key, item |-> x]
  <2>1. /\ node \in Node /\ tree' = Append(tree, node)
        /\ node.depth = Len(open) /\ node.item = x
    BY <1>7, GrownType DEF IInv
  <2>2. /\ memory'.heap = memory.heap \cup Block(n, "value")
        /\ memory'.lost = memory.lost /\ memory'.failed = memory.failed
        /\ ~memory'.wrong
    <3> HIDE DEF n
    <3> QED BY <1>4, <1>5, <1>7, AllocIs
  <2>3. /\ Nested(tree', open') /\ Bare(tree', open', new)
        /\ open' # <<>> /\ tree' # <<>>
        /\ LastAt(tree', Len(open')) # {}
        /\ n > 1
        /\ n \in 1..Len(tree') /\ tree' \in Seq(Node)
        /\ tree'[n] = node
        /\ \A i \in 1..Len(tree') : i = n \/ (i \in 1..Len(tree) /\ tree'[i] = tree[i])
        /\ \A j \in Nat : \A p :
             Holds(tree', new, pc', j, p)
               <=> \/ Holds(tree, old, pc, j, p)
                   \/ j = n /\ p \in Pointers(tree', n)
                   \/ j = n /\ p = "key" /\ n > 1 /\ pc \notin BuildPC
    <3> HIDE DEF node
    <3>1. pc \in (BuildPC \cup ParsePC) \ {"attach", "push"}
          /\ pc' \in {"attach", "push"} /\ (pc \in BuildPC <=> pc' \in BuildPC)
      BY <1>3, <1>7, PCs
    <3> QED BY <1>2, <2>1, <3>1, GrowStep
  <2>4. /\ pc \notin BuildPC
        /\ \A p : p \in Pointers(tree', n)
                    <=> p = "value" \/ (p = "string" /\ x.type = "string")
    <3>1. pc \notin BuildPC
      BY <1>3, PCs
    <3>2. tree'[n].item = x
      BY <2>1, <2>3
    <3> HIDE DEF n, node
    <3> QED BY <1>6, <2>3, <3>1, <3>2, PointersAre
  <2>5. Stack'
    BY <1>7, <2>3, PCs DEF Stack
  <2>6. Places'
    BY <1>7, <2>3, PCs DEF Places
  <2>7. Heap'
    <3>1. Owned(memory.heap, tree, old, pc, Loose(pc, open, n))
      BY <1>1 DEF IInv, Kept, Heap
    <3>2. Loose(pc', open', NewNode') = {}
      BY <1>7, LooseAre DEF ValuePC
    <3> HIDE DEF old, new, held, n, node
    <3>3. Owned(memory'.heap, tree', new, pc', {})
      <4> SUFFICES ASSUME NEW j \in Nat, NEW p \in Pointer
                   PROVE  <<j, p>> \in memory'.heap <=> Holds(tree', new, pc', j, p)
        BY DEF Owned
      <4>1. <<j, p>> \in memory.heap
              <=> Holds(tree, old, pc, j, p) \/ <<j, p>> \in Loose(pc, open, n)
        BY <3>1 DEF Owned
      <4>2. <<j, p>> \in Loose(pc, open, n)
              <=> j = n /\ (p = "key" \/ (p = "string" /\ x.type = "string"))
        BY <1>3, <1>5
      <4>3. <<j, p>> \in Block(n, "value") <=> j = n /\ p = "value"
        BY <1>5
      <4> QED BY <2>2, <2>3, <2>4, <4>1, <4>2, <4>3
    <3> QED BY <2>2, <3>2, <3>3 DEF Heap, new
  <2>8. Failures'
    <3>1. memory'.failed = 0 => \A i \in 1..Len(tree') : tree'[i].item # Nothing
      <4> HIDE DEF node
      <4> QED BY <1>6, <2>1, <2>2, <2>3, ItemsMore
    <3> QED BY <1>4, <1>7, <2>2, <3>1 DEF Failures
  <2> QED BY <2>5, <2>6, <2>7, <2>8 DEF Kept
<1>8. CASE /\ pc' = other
           /\ UNCHANGED tree
           /\ memory' = Free(Fail(memory, {}), IF x.type = "string" THEN held ELSE {})
  <2> DEFINE freed == IF x.type = "string" THEN held ELSE {}
  <2>1. freed \in BlockSets /\ freed \subseteq memory.heap
    BY <1>3, <1>4, <1>5
  <2>2. /\ Fail(memory, {}) \in MemoryType
        /\ Fail(memory, {}).heap = memory.heap
        /\ Fail(memory, {}).lost = memory.lost
        /\ Fail(memory, {}).failed = memory.failed + 1
        /\ ~Fail(memory, {}).wrong
    BY <1>4, FailNothing
  <2>3. memory' = Free(Fail(memory, {}), freed)
    BY <1>8
  <2> HIDE DEF freed
  <2>4. /\ memory'.heap = memory.heap \ freed
        /\ memory'.lost = memory.lost /\ memory'.failed = memory.failed + 1
        /\ ~memory'.wrong
    BY <2>1, <2>2, <2>3, FreeIs
  <2>5. \A j \in Nat, p \in Pointer :
          <<j, p>> \in memory'.heap
            <=> \/ <<j, p>> \in memory.heap /\ <<j, p>> \notin Loose(pc, open, NewNode)
                \/ <<j, p>> \in Loose(pc', open, NewNode)
    <3>1. Loose(pc', open, NewNode) = Block(n, "key")
          /\ Loose(pc, open, NewNode) = Block(n, "key") \cup freed
      BY <1>3, <1>8 DEF freed
    <3>2. \A j, p : <<j, p>> \in freed => p = "string"
      BY <1>5 DEF freed
    <3> HIDE DEF n
    <3>3. \A j, p : <<j, p>> \in Block(n, "key") => p # "string" /\ <<j, p>> \in memory.heap
      BY <1>3, <1>4, <1>5
    <3> QED BY <2>4, <3>1, <3>2, <3>3
  <2>6. memory'.lost <= memory'.failed /\ memory'.failed # 0
    BY <1>4, <2>4
  <2> QED BY <1>2, <1>3, <1>8, <2>4, <2>5, <2>6, ReadingKept
<1> QED BY <1>7, <1>8 DEF ValueFound
LEMMA KeptParseString ==
  ASSUME IInv, ParseString
  PROVE  Kept'
<1>1. CASE pc = "string" /\ StringBegins("string", "string_loop", "number")
  BY <1>1, KeptStringBegins DEF StringAt
<1>2. CASE /\ pc = "string_loop"
           /\ StringWrong("string", "number") \/ StringLost("string", "number")
  <2>1. StringAt("string", "string", pc, "number")
    BY <1>2 DEF StringAt
  <2> QED BY <1>2, <2>1, KeptStringEnds
<1>3. CASE pc = "string_loop" /\ ValueFound(String(string), at + 1, "number")
  <2>1. String(string) \in Item /\ String(string).type = "string"
    BY DEF String, Item, IInv, TypeOK
  <2>2. ValueAt(pc, String(string).type, "number")
    BY <1>3, <2>1 DEF ValueAt
  <2> QED BY <1>3, <2>1, <2>2, KeptValueFound
<1> QED BY <1>1, <1>2, <1>3 DEF ParseString

LEMMA KeptNumber ==
  ASSUME IInv, StringGoesOn \/ NumberBegins \/ DigitGoesOn \/ NumberEnds
  PROVE  Kept'
<1>1. pc \in {"key_loop", "string_loop", "number", "digits"} /\ open # <<>>
  BY PCs DEF StringGoesOn, NumberBegins, DigitGoesOn, NumberEnds, IInv, Kept, Stack
<1>2. \A c \in {"number", "digits", "boolean"} : Loose(c, open, NewNode) = Block(NewNode, "key")
  BY <1>1, LooseAre DEF ValuePC
<1>3. CASE StringGoesOn \/ NumberBegins \/ DigitGoesOn
  <2>1. /\ UNCHANGED <<tree, open, memory>>
        /\ pc' = pc \/ (pc = "number" /\ pc' = "digits")
    <3>1. CASE StringGoesOn
      BY <3>1 DEF StringGoesOn
    <3>2. CASE NumberBegins
      BY <3>2 DEF NumberBegins
    <3>3. CASE DigitGoesOn
      BY <3>3 DEF DigitGoesOn
    <3> QED BY <1>3, <3>1, <3>2, <3>3
  <2>2. pc \in ParsePC \ {"push"} /\ pc' \in ParsePC \ {"push"}
    BY <1>1, <2>1, PCs
  <2>3. Loose(pc', open, NewNode) = Loose(pc, open, NewNode)
    BY <1>2, <2>1
  <2> QED BY <1>1, <2>1, <2>2, <2>3, KeptReading
<1>4. CASE NumberEnds
  <2>1. pc = "digits" /\ (NotFound(at, "boolean") \/ ValueFound(Number(number), at, "boolean"))
    BY <1>4 DEF NumberEnds
  <2>2. CASE NotFound(at, "boolean")
    <3>1. UNCHANGED <<tree, open, memory>> /\ pc' = "boolean"
      BY <2>2 DEF NotFound
    <3>2. pc \in ParsePC \ {"push"} /\ pc' \in ParsePC \ {"push"}
      BY <2>1, <3>1, PCs
    <3>3. Loose(pc', open, NewNode) = Loose(pc, open, NewNode)
      BY <1>2, <2>1, <3>1
    <3> QED BY <1>1, <3>1, <3>2, <3>3, KeptReading
  <2>3. CASE ValueFound(Number(number), at, "boolean")
    <3>1. Number(number) \in Item /\ Number(number).type = "number"
      BY DEF Number, Item, IInv, TypeOK
    <3>2. ValueAt(pc, Number(number).type, "boolean")
      BY <2>1, <3>1 DEF ValueAt
    <3> QED BY <2>3, <3>1, <3>2, KeptValueFound
  <2> QED BY <2>1, <2>2, <2>3
<1> QED BY <1>3, <1>4

LEMMA KeptParseBoolean ==
  ASSUME IInv, ParseBoolean
  PROVE  Kept'
<1>1. pc = "boolean" /\ open # <<>>
  BY PCs DEF ParseBoolean, IInv, Kept, Stack
<1>2. \/ NotFound(SkipSpace(at), "object")
      \/ \E b \in BOOLEAN : \E next : ValueFound(Boolean(b), next, "object")
  BY DEF ParseBoolean
<1>3. CASE NotFound(SkipSpace(at), "object")
  <2>1. UNCHANGED <<tree, open, memory>> /\ pc' = "object"
    BY <1>3 DEF NotFound
  <2>2. pc \in ParsePC \ {"push"} /\ pc' \in ParsePC \ {"push"}
    BY <1>1, <2>1, PCs
  <2>3. Loose(pc', open, NewNode) = Loose(pc, open, NewNode)
    BY <1>1, <2>1, LooseAre DEF ValuePC
  <2> QED BY <1>1, <2>1, <2>2, <2>3, KeptReading
<1>4. ASSUME NEW b \in BOOLEAN, NEW next, ValueFound(Boolean(b), next, "object")
      PROVE  Kept'
  <2>1. Boolean(b) \in Item /\ Boolean(b).type = "boolean"
    BY DEF Boolean, Item
  <2>2. ValueAt(pc, Boolean(b).type, "object")
    BY <1>1, <2>1 DEF ValueAt
  <2> QED BY <1>4, <2>1, <2>2, KeptValueFound
<1> QED BY <1>2, <1>3, <1>4

\* The loop frees the key.
LEMMA KeptKeyFreed ==
  ASSUME IInv, pc \in {"key_loop", "no_value"}, pc' = "out",
         UNCHANGED <<tree, open>>, memory' = Free(memory, Block(NewNode, "key"))
  PROVE  Kept'
<1> DEFINE block == Block(NewNode, "key")
<1>1. pc # "crashed" /\ pc \in ParsePC \ {"object", "push"} /\ pc' \in ParsePC \ {"push"}
      /\ open # <<>>
  BY PCs DEF IInv, Kept, Stack
<1>2. Loose(pc, open, NewNode) = block /\ Loose(pc', open, NewNode) = {}
  BY LooseAre DEF ValuePC
<1>3. /\ Loose(pc, open, NewNode) \subseteq memory.heap
      /\ ~memory.wrong /\ memory \in MemoryType
      /\ memory.failed = 0 => memory.lost = 0
      /\ memory.lost <= memory.failed /\ NewNode \in Nat
  BY <1>1, ReadingOwns
<1>4. block \in BlockSets
  BY <1>3, BlockIs DEF Pointer
<1> HIDE DEF block
<1>5. memory' = Free(memory, block)
  BY DEF block
<1>6. /\ memory'.heap = memory.heap \ block
      /\ memory'.lost = memory.lost /\ memory'.failed = memory.failed
      /\ ~memory'.wrong
  BY <1>2, <1>3, <1>4, <1>5, FreeIs
<1>7. \A j \in Nat, p \in Pointer :
        <<j, p>> \in memory'.heap
          <=> \/ <<j, p>> \in memory.heap /\ <<j, p>> \notin Loose(pc, open, NewNode)
              \/ <<j, p>> \in Loose(pc', open, NewNode)
  BY <1>2, <1>6
<1> QED BY <1>1, <1>3, <1>6, <1>7, ReadingKept

LEMMA KeptParseKey ==
  ASSUME IInv, ParseKey \/ NoValue
  PROVE  Kept'
<1>1. CASE pc = "key" /\ StringBegins("key", "key_loop", "end")
  BY <1>1, KeptStringBegins DEF StringAt
<1>2. CASE /\ pc = "key_loop"
           /\ StringWrong("key", "end") \/ StringLost("key", "end")
  <2>1. StringAt("key", "key", pc, "end")
    BY <1>2 DEF StringAt
  <2> QED BY <1>2, <2>1, KeptStringEnds
<1>3. CASE /\ pc = "key_loop" /\ pc' = "string"
           /\ UNCHANGED <<tree, open, memory>>
  <2>1. pc \in ParsePC \ {"push", "object"} /\ pc' \in ParsePC \ {"push"}
    BY <1>3, PCs
  <2>2. open # <<>>
    BY <2>1 DEF IInv, Kept, Stack
  <2>3. Loose(pc', open, NewNode) = Loose(pc, open, NewNode)
    BY <1>3, <2>2, LooseAre DEF ValuePC
  <2> QED BY <1>3, <2>1, <2>2, <2>3, KeptReading
<1>4. CASE /\ pc \in {"key_loop", "no_value"} /\ pc' = "out"
           /\ memory' = Free(memory, Block(NewNode, "key"))
           /\ UNCHANGED <<tree, open>>
  BY <1>4, KeptKeyFreed
<1> QED BY <1>1, <1>2, <1>3, <1>4 DEF ParseKey, NoValue
LEMMA KeptParseObject ==
  ASSUME IInv, ParseObject
  PROVE  Kept'
<1> DEFINE n == NewNode
           old == Unattached(pc, tree, open)
           new == Unattached(pc', tree', open')
<1>1. pc = "object" /\ pc # "crashed" /\ pc \in ParsePC /\ open \in Seq(Nat) /\ tree \in Seq(Node)
  BY PCs DEF ParseObject, IInv, TypeOK
<1>2. /\ ~memory.wrong /\ memory \in MemoryType
      /\ memory.lost \in Nat /\ memory.failed \in Nat
      /\ memory.failed = 0 => memory.lost = 0
      /\ memory.lost <= memory.failed /\ n \in Nat
  BY <1>1, ReadingOwns
<1>3. \/ /\ pc' \in {"refused", "no_value"}
         /\ pc' = "refused" <=> Len(open) = 0
         /\ UNCHANGED <<tree, open, memory>>
      \/ /\ pc' \in {"end", "key"}
         /\ open' = Append(open, n)
         /\ \/ /\ tree' = Grown(Object)
               /\ memory' = Alloc(memory, Block(n, "value"))
            \/ /\ tree' = Grown(Nothing)
               /\ memory' = Fail(memory, {})
  BY DEF ParseObject, ReturnsNull
<1>4. CASE /\ pc' \in {"refused", "no_value"}
           /\ pc' = "refused" <=> Len(open) = 0
           /\ UNCHANGED <<tree, open, memory>>
  <2>1. CASE open = <<>>
    <3>1. pc' = "refused" /\ tree = <<>>
      BY <1>1, <1>4, <2>1 DEF IInv, Kept, Stack, Nested
    <3>2. Stack' /\ Heap'
      BY <1>1, <1>4, <2>1, <3>1, NoneKept
    <3>3. Places'
      BY <3>1, PCs DEF Places
    <3>4. Failures'
      BY <1>1, <1>2, <1>4, <3>1 DEF IInv, Kept, Failures
    <3> QED BY <3>2, <3>3, <3>4 DEF Kept
  <2>2. CASE open # <<>>
    <3>1. pc' = "no_value"
      BY <1>1, <1>4, <2>2
    <3>2. pc \in ParsePC \ {"push"} /\ pc' \in ParsePC \ {"push"}
      BY <1>1, <3>1, PCs
    <3>3. Loose(pc', open, NewNode) = Loose(pc, open, NewNode)
      BY <1>1, <2>2, <3>1, LooseAre DEF ValuePC
    <3> QED BY <1>4, <2>2, <3>2, <3>3, KeptReading
  <2> QED BY <2>1, <2>2
<1>5. ASSUME NEW x \in {Object, Nothing}, pc' \in {"end", "key"},
             open' = Append(open, n), tree' = Grown(x),
             ~memory'.wrong, memory'.lost = memory.lost,
             \/ /\ x = Object
                /\ memory'.heap = memory.heap \cup Block(n, "value")
                /\ memory'.failed = memory.failed
             \/ /\ x = Nothing
                /\ memory'.heap = memory.heap
                /\ memory'.failed = memory.failed + 1
      PROVE  Kept'
  <2> DEFINE node == [depth |-> Len(open), key |-> key, item |-> x]
  <2>1. /\ node \in Node /\ tree' = Append(tree, node)
        /\ node.depth = Len(open) /\ node.item = x
    <3>1. x \in Item
      BY DEF Item
    <3> QED BY <1>5, <3>1, GrownType DEF IInv
  <2>2. /\ Nested(tree', open') /\ Bare(tree', open', new)
        /\ open' # <<>> /\ tree' # <<>>
        /\ n > 1 <=> open # <<>>
        /\ n \in 1..Len(tree') /\ tree' \in Seq(Node)
        /\ tree'[n] = node /\ ~HasPairs(tree', n)
        /\ \A i \in 1..Len(tree') : i = n \/ (i \in 1..Len(tree) /\ tree'[i] = tree[i])
        /\ \A j \in Nat : \A p :
             Holds(tree', new, pc', j, p)
               <=> \/ Holds(tree, old, pc, j, p)
                   \/ j = n /\ p \in Pointers(tree', n)
                   \/ j = n /\ p = "key" /\ n > 1 /\ pc \notin BuildPC
    <3> HIDE DEF node
    <3>1. /\ pc \in (BuildPC \cup ParsePC) \ {"attach", "push"}
          /\ pc' \in (BuildPC \cup ParsePC) \ {"attach", "push"}
          /\ pc \in BuildPC <=> pc' \in BuildPC
          /\ node.item \in {Object, Nothing}
      BY <1>1, <1>5, <2>1, PCs
    <3> QED BY <1>5, <2>1, <3>1, GrowStep
  <2>3. /\ pc \notin BuildPC
        /\ \A p : p \in Pointers(tree', n) <=> p = "value" /\ x = Object
    <3>1. pc \notin BuildPC
      BY <1>1, PCs
    <3>2. tree'[n].item = x
      BY <2>1, <2>2
    <3>3. Object # Nothing /\ Object.type # "string" /\ Nothing.type # "string"
      BY DEF Object, Nothing
    <3> HIDE DEF n, node
    <3> QED BY <2>2, <3>1, <3>2, <3>3, PointersAre
  <2>4. Stack'
    BY <1>5, <2>2, PCs DEF Stack
  <2>5. Places'
    BY <1>5, PCs DEF Places
  <2>6. Heap'
    <3>1. Owned(memory.heap, tree, old, pc, Loose(pc, open, n))
      BY <1>1 DEF IInv, Kept, Heap
    <3>2. Loose(pc', open', NewNode') = {}
      BY <1>5, LooseAre DEF ValuePC
    <3>3. \A j, p : /\ <<j, p>> \in Loose(pc, open, n)
                         <=> j = n /\ p = "key" /\ open # <<>>
                    /\ <<j, p>> \in Block(n, "value") <=> j = n /\ p = "value"
      <4>1. Loose(pc, open, n) = IF open # <<>> THEN Block(n, "key") ELSE {}
        BY <1>1, LooseAre DEF ValuePC
      <4>2. "key" \in Pointer /\ "value" \in Pointer
        BY DEF Pointer
      <4> HIDE DEF n
      <4>3. /\ \A j, p : <<j, p>> \in Block(n, "key") <=> j = n /\ p = "key"
            /\ \A j, p : <<j, p>> \in Block(n, "value") <=> j = n /\ p = "value"
        BY <1>2, <4>2, BlockIs
      <4> QED BY <4>1, <4>3
    <3> HIDE DEF old, new, n, node
    <3>4. Owned(memory'.heap, tree', new, pc', {})
      <4> SUFFICES ASSUME NEW j \in Nat, NEW p \in Pointer
                   PROVE  <<j, p>> \in memory'.heap <=> Holds(tree', new, pc', j, p)
        BY DEF Owned
      <4>1. <<j, p>> \in memory.heap
              <=> Holds(tree, old, pc, j, p) \/ (j = n /\ p = "key" /\ open # <<>>)
        BY <3>1, <3>3 DEF Owned
      <4>2. Holds(tree', new, pc', j, p)
              <=> \/ Holds(tree, old, pc, j, p)
                  \/ j = n /\ p = "value" /\ x = Object
                  \/ j = n /\ p = "key" /\ open # <<>>
        BY <2>2, <2>3
      <4>3. <<j, p>> \in memory'.heap
              <=> \/ <<j, p>> \in memory.heap
                  \/ j = n /\ p = "value" /\ x = Object
        <5>1. Object # Nothing
          BY DEF Object, Nothing
        <5> QED BY <1>5, <3>3, <5>1
      <4> QED BY <4>1, <4>2, <4>3
    <3> QED BY <1>5, <3>2, <3>4 DEF Heap, new
  <2>7. Failures'
    <3>1. memory'.failed = 0 => memory.failed = 0 /\ x # Nothing
      <4>1. Object # Nothing
        BY DEF Object, Nothing
      <4> QED BY <1>2, <1>5, <4>1
    <3>2. memory'.failed = 0 => \A i \in 1..Len(tree') : tree'[i].item # Nothing
      <4> HIDE DEF node
      <4> QED BY <2>1, <2>2, <3>1, ItemsMore
    <3>3. memory'.lost <= memory'.failed
      BY <1>2, <1>5
    <3> QED BY <1>2, <1>5, <3>1, <3>2, <3>3 DEF Failures
  <2> QED BY <2>4, <2>5, <2>6, <2>7 DEF Kept
<1>6. CASE /\ pc' \in {"end", "key"}
           /\ open' = Append(open, n)
           /\ \/ /\ tree' = Grown(Object)
                 /\ memory' = Alloc(memory, Block(n, "value"))
              \/ /\ tree' = Grown(Nothing)
                 /\ memory' = Fail(memory, {})
  <2>1. Block(n, "value") \in BlockSets
    <3>1. "value" \in Pointer
      BY DEF Pointer
    <3> HIDE DEF n
    <3> QED BY <1>2, <3>1, BlockIs
  <2> HIDE DEF n
  <2>2. CASE tree' = Grown(Object) /\ memory' = Alloc(memory, Block(n, "value"))
    <3>1. /\ memory'.heap = memory.heap \cup Block(n, "value")
          /\ memory'.lost = memory.lost /\ memory'.failed = memory.failed
          /\ ~memory'.wrong
      BY <1>2, <2>1, <2>2, AllocIs
    <3> QED BY <1>5, <1>6, <2>2, <3>1
  <2>3. CASE tree' = Grown(Nothing) /\ memory' = Fail(memory, {})
    <3>1. /\ memory'.heap = memory.heap
          /\ memory'.lost = memory.lost /\ memory'.failed = memory.failed + 1
          /\ ~memory'.wrong
      BY <1>2, <2>3, FailNothing
    <3> QED BY <1>5, <1>6, <2>3, <3>1
  <2> QED BY <1>6, <2>2, <2>3
<1> QED BY <1>3, <1>4, <1>6
\* _json_parse_object returns NULL: of what was inside nothing is left, but for the
\* key that its caller has read.
LEMMA KeptReturnsNull ==
  ASSUME IInv, pc \in {"end", "out"},
         tree' = Before(Parent), open' = Front(open), ReturnsNull(Len(open) - 1),
         ~memory'.wrong, memory'.lost = memory.lost, memory'.failed = memory.failed,
         \A j \in Nat, p \in Pointer :
           <<j, p>> \in memory'.heap
             <=> <<j, p>> \in memory.heap /\ (j < Parent \/ (j = Parent /\ p = "key"))
  PROVE  Kept'
<1> DEFINE c == Parent
           loose == Inside(open)
           new == Unattached(pc', tree', open')
<1>1. /\ open # <<>> /\ open \in Seq(Nat) /\ tree \in Seq(Node)
      /\ Nested(tree, open) /\ Bare(tree, open, loose)
      /\ c \in 1..Len(tree) /\ c \in Nat /\ Len(open) \in Nat \ {0} /\ c = open[Len(open)]
      /\ Unattached(pc, tree, open) = loose
      /\ Loose(pc, open, NewNode) = {}
  BY InnermostType DEF Parent
<1>2. /\ pc \notin BuildPC /\ pc # "crashed" /\ pc \in ParsePC
      /\ pc' \in {"refused", "no_value"} /\ pc' \notin BuildPC
      /\ pc' = "refused" <=> Len(open) = 1
  BY <1>1, PCs DEF ReturnsNull
<1>3. /\ tree' \in Seq(Node) /\ Len(tree') = c - 1 /\ IsBefore(tree', tree, c)
      /\ \A i \in 1..(c - 1) : tree'[i] = tree[i]
  BY <1>1, BeforeType DEF IInv
<1>4. /\ Nested(tree', open') /\ Bare(tree', open', Inside(open'))
      /\ Len(open) = 1 => c = 1 /\ tree' = <<>> /\ open' = <<>>
      /\ Len(open) # 1 => open' # <<>>
      /\ c > 1 => c \in loose
      /\ AgreeBefore(loose, Inside(open'), c)
  <2>1. /\ tree \in Seq(Node) /\ open \in Seq(Nat) /\ Nested(tree, open) /\ open # <<>>
        /\ Bare(tree, open, Inside(open)) /\ c = open[Len(open)]
        /\ IsBefore(tree', tree, c)
    BY <1>1, <1>3
  <2> HIDE DEF c
  <2>2. /\ Nested(tree', Front(open)) /\ Bare(tree', Front(open), Inside(Front(open)))
        /\ Len(open) = 1 => c = 1 /\ tree' = <<>> /\ Front(open) = <<>>
        /\ Len(open) # 1 => Front(open) # <<>>
        /\ c > 1 => c \in Inside(open)
        /\ AgreeBefore(Inside(open), Inside(Front(open)), c)
    BY ONLY <2>1, NestedOut
  <2> QED BY <2>2
<1>5. pc' = "no_value" => new = Inside(open')
  BY UnattachedAre, PCs
<1>6. Stack'
  <2>1. CASE pc' = "refused"
    BY <1>2, <1>4, <2>1, PCs DEF Stack
  <2>2. CASE pc' = "no_value"
    BY <1>2, <1>4, <1>5, <2>2, PCs DEF Stack
  <2> QED BY <1>2, <2>1, <2>2
<1>7. Places'
  BY <1>2, PCs DEF Places
<1>8. \A j \in Nat : \A p :
        Holds(tree', Inside(open'), pc', j, p) <=> Holds(tree, loose, pc, j, p) /\ j < c
  <2> DEFINE looser == Inside(open')
  <2>1. AgreeBefore(loose, looser, c)
    BY <1>4
  <2> HIDE DEF c, loose, looser
  <2>2. \A j \in Nat : \A p :
          Holds(tree', looser, pc', j, p) <=> Holds(tree, loose, pc, j, p) /\ j < c
    BY <1>1, <1>2, <1>3, <1>4, <2>1, HoldsLess
  <2> QED BY <2>2 DEF looser
<1>9. Holds(tree, loose, pc, c, "key") <=> c > 1
  <2>1. "key" \notin Pointers(tree, c)
    BY <1>1, PointersAre
  <2> HIDE DEF c, loose
  <2> QED BY <1>1, <1>2, <2>1 DEF Holds
<1>10. Heap'
  <2>1. Owned(memory.heap, tree, loose, pc, {})
    BY <1>1, <1>2 DEF IInv, Kept, Heap
  <2>2. NewNode' = c
    BY <1>1, <1>3 DEF NewNode
  <2>3. CASE pc' = "refused"
    <3>1. Loose(pc', open', NewNode') = {} /\ tree' = <<>> /\ c = 1
      BY <1>2, <1>4, <2>3, LooseAre DEF ValuePC
    <3>2. \A j \in Nat, p \in Pointer : <<j, p>> \notin memory'.heap
      <4> SUFFICES ASSUME NEW j \in Nat, NEW p \in Pointer, <<j, p>> \in memory'.heap
                   PROVE  FALSE
        OBVIOUS
      <4>1. <<j, p>> \in memory.heap /\ (j < 1 \/ (j = 1 /\ p = "key"))
        BY <3>1
      <4>2. Holds(tree, loose, pc, j, p)
        BY <2>1, <4>1 DEF Owned
      <4>3. j >= 1
        BY <1>1, <4>2 DEF Holds
      <4> QED BY <1>9, <3>1, <4>1, <4>2, <4>3
    <3> HIDE DEF new
    <3> DEFINE heap == memory'.heap
    <3>3. Len(tree') = 0 /\ 1..0 = {}
      BY <3>1
    <3>4. Owned(heap, tree', new, pc', {})
      <4>1. \A j \in Nat, p \in Pointer : <<j, p>> \notin heap
        BY <3>2
      <4>2. \A j \in Nat : \A p : ~Holds(tree', new, pc', j, p)
        BY <3>3 DEF Holds
      <4> HIDE DEF heap
      <4> QED BY <4>1, <4>2 DEF Owned
    <3> QED BY <3>1, <3>4 DEF Heap, heap, new
  <2>4. CASE pc' = "no_value"
    <3>1. Loose(pc', open', NewNode') = Block(c, "key") /\ new = Inside(open')
          /\ open' # <<>>
      BY <1>2, <1>4, <1>5, <2>2, <2>4, LooseAre
    <3>2. \A j, p : <<j, p>> \in Block(c, "key") <=> j = c /\ p = "key"
      BY DEF Block
    <3>3. c > 1
      <4>1. CASE c = 1
        <5>1. open'[1] = 1 /\ open' \in Seq(Nat) /\ 1 \in 1..Len(open')
          BY <1>1, <1>4, <3>1, FrontIs DEF Nested
        <5>2. 1 \in 1..Len(tree')
          BY <1>4, <5>1 DEF Nested
        <5> QED BY <1>3, <4>1, <5>2
      <4> QED BY <1>1, <4>1
    <3> DEFINE looser == Inside(open')
               others == Block(c, "key")
    <3>4. new = looser
      BY <3>1
    <3> HIDE DEF c, loose, looser, new, others
    <3>5. Owned(memory'.heap, tree', looser, pc', others)
      <4> SUFFICES ASSUME NEW j \in Nat, NEW p \in Pointer
                   PROVE  <<j, p>> \in memory'.heap
                            <=> Holds(tree', looser, pc', j, p) \/ <<j, p>> \in others
        BY DEF Owned
      <4>1. <<j, p>> \in memory.heap <=> Holds(tree, loose, pc, j, p)
        BY <2>1 DEF Owned
      <4>2. <<j, p>> \in memory'.heap
              <=> <<j, p>> \in memory.heap /\ (j < c \/ (j = c /\ p = "key"))
        BY DEF c
      <4>3. Holds(tree', looser, pc', j, p) <=> Holds(tree, loose, pc, j, p) /\ j < c
        BY <1>8 DEF looser
      <4>4. <<j, p>> \in others <=> j = c /\ p = "key"
        BY <3>2 DEF others
      <4> QED BY <1>9, <3>3, <4>1, <4>2, <4>3, <4>4
    <3> QED BY <3>1, <3>4, <3>5 DEF Heap, others, new
  <2> QED BY <1>2, <2>3, <2>4
<1>11. Failures'
  <2>1. memory.failed = 0 => \A i \in 1..Len(tree') : tree'[i].item # Nothing
    <3>1. \A i \in 1..Len(tree') : i \in 1..(c - 1) /\ i \in 1..Len(tree)
      BY <1>1, <1>3
    <3> QED BY <1>3, <3>1 DEF IInv, Kept, Failures
  <2> QED BY <1>2, <2>1 DEF IInv, Kept, Failures
<1> QED BY <1>6, <1>7, <1>10, <1>11 DEF Kept

LEMMA KeptOut ==
  ASSUME IInv, Out
  PROVE  Kept'
<1> DEFINE c == Parent
           loose == Inside(open)
           freed == Blocks(tree, c)
<1>1. /\ open # <<>> /\ open \in Seq(Nat) /\ tree \in Seq(Node)
      /\ Nested(tree, open) /\ c \in 1..Len(tree) /\ c \in Nat
      /\ Unattached(pc, tree, open) = loose
      /\ Loose(pc, open, NewNode) = {}
  BY InnermostType DEF Out
<1>2. /\ pc = "out" /\ pc # "crashed"
      /\ tree' = Before(Parent) /\ open' = Front(open) /\ ReturnsNull(Len(open) - 1)
      /\ memory' = Free(memory, freed)
  BY DEF Out
<1>3. /\ ~memory.wrong /\ memory \in MemoryType
      /\ Owned(memory.heap, tree, loose, pc, {})
  BY <1>1, <1>2 DEF IInv, TypeOK, Kept, Heap
<1>4. \A j \in loose : j \in Nat /\ j <= c
  BY <1>1, InnermostIsLatest DEF Parent
<1>5. freed \in BlockSets
  BY <1>1, BlocksType
<1>6. \A j \in Nat, p \in Pointer :
        <<j, p>> \in freed
          <=> <<j, p>> \in memory.heap /\ j >= c /\ ~(j = c /\ p = "key")
  <2> HIDE DEF c, loose
  <2>1. \A j \in Nat, p \in Pointer :
          <<j, p>> \in Blocks(tree, c)
            <=> Holds(tree, loose, pc, j, p) /\ j >= c /\ ~(j = c /\ p = "key")
    BY <1>1, <1>4, BlocksHeld
  <2>2. \A j \in Nat, p \in Pointer : <<j, p>> \in memory.heap <=> Holds(tree, loose, pc, j, p)
    BY <1>3 DEF Owned
  <2> QED BY <2>1, <2>2
<1> HIDE DEF freed
<1>7. freed \subseteq memory.heap
  <2>1. \A b \in freed : \E j \in Nat, p \in Pointer : b = <<j, p>>
    BY <1>5 DEF BlockSets
  <2> QED BY <1>6, <2>1
<1>8. /\ memory'.heap = memory.heap \ freed
      /\ memory'.lost = memory.lost /\ memory'.failed = memory.failed
      /\ ~memory'.wrong
  BY <1>2, <1>3, <1>5, <1>7, FreeIs
<1>9. \A j \in Nat, p \in Pointer :
        <<j, p>> \in memory'.heap
          <=> <<j, p>> \in memory.heap /\ (j < Parent \/ (j = Parent /\ p = "key"))
  <2> SUFFICES ASSUME NEW j \in Nat, NEW p \in Pointer
               PROVE  <<j, p>> \in memory'.heap
                        <=> <<j, p>> \in memory.heap /\ (j < c \/ (j = c /\ p = "key"))
    OBVIOUS
  <2>1. (j < c \/ j >= c) /\ ~(j < c /\ j >= c) /\ (j = c => j >= c)
    BY <1>1
  <2> QED BY <1>6, <1>8, <2>1
<1> QED BY <1>2, <1>8, <1>9, KeptReturnsNull
LEMMA KeptObjectEnds ==
  ASSUME IInv, ObjectEnds
  PROVE  Kept'
<1> DEFINE c == Parent
           loose == Inside(open)
<1>1. /\ open # <<>> /\ open \in Seq(Nat) /\ tree \in Seq(Node)
      /\ Nested(tree, open) /\ Bare(tree, open, loose)
      /\ c \in 1..Len(tree) /\ c \in Nat /\ Len(open) \in Nat \ {0}
      /\ Unattached(pc, tree, open) = loose
      /\ Loose(pc, open, NewNode) = {}
  BY InnermostType DEF ObjectEnds
<1>2. pc = "end" /\ pc # "crashed" /\ pc \in ParsePC \ {"push"} /\ pc \notin BuildPC
      /\ UNCHANGED memory
  BY PCs DEF ObjectEnds
<1>3. /\ ~memory.wrong /\ memory \in MemoryType
      /\ Owned(memory.heap, tree, loose, pc, {})
      /\ memory.lost <= memory.failed
      /\ memory.failed = 0 => memory.lost = 0
      /\ memory.failed = 0 => \A i \in 1..Len(tree) : tree[i].item # Nothing
  BY <1>1, <1>2 DEF IInv, TypeOK, Kept, Heap, Failures
<1>4. CASE pc' = "out" /\ UNCHANGED <<at, open, tree>>
  <2>1. Loose(pc', open, NewNode) = Loose(pc, open, NewNode) /\ pc' \in ParsePC \ {"push"}
    BY <1>1, <1>4, LooseAre, PCs DEF ValuePC
  <2> QED BY <1>1, <1>2, <1>4, <2>1, KeptReading
<1>5. CASE /\ open' = Front(open) /\ tree[c].item # Nothing
           /\ pc' = IF Len(open) = 1 THEN "parsed" ELSE "push"
           /\ UNCHANGED tree
  <2>1. /\ Len(open) = 1 => open' = <<>> /\ loose = {}
        /\ Len(open) # 1 =>
             /\ open' # <<>> /\ Nested(tree, open')
             /\ LastAt(tree, Len(open')) = {c}
             /\ Inside(open') \cup {c} = loose
             /\ Bare(tree, open', loose)
    BY <1>1, <1>5, NestedPop DEF Parent
  <2>2. tree # <<>>
    BY <1>1
  <2>3. Unattached(pc', tree', open') = loose
    <3>1. CASE Len(open) = 1
      <4>1. pc' \notin BuildPC \cup ParsePC
        BY <1>5, <3>1, PCs
      <4>2. Unattached(pc', tree', open') = {}
        BY <4>1, UnattachedAre
      <4> QED BY <2>1, <3>1, <4>2
    <3>2. CASE Len(open) # 1
      <4>1. Unattached(pc', tree', open') = Inside(open') \cup LastAt(tree, Len(open'))
        BY <1>5, <3>2, UnattachedAre
      <4> QED BY <2>1, <3>2, <4>1
    <3> QED BY <3>1, <3>2
  <2>4. Loose(pc', open', NewNode') = {}
    BY <1>5, LooseAre DEF ValuePC
  <2> DEFINE new == Unattached(pc', tree', open')
  <2>5. new = loose
    BY <2>3
  <2> HIDE DEF loose, c, new
  <2>6. Stack'
    <3>1. CASE Len(open) = 1
      <4>1. pc' = "parsed"
        BY <1>5, <3>1
      <4> QED BY <1>5, <2>1, <2>2, <3>1, <4>1, PCs DEF Stack
    <3>2. CASE Len(open) # 1
      <4>1. pc' = "push"
        BY <1>5, <3>2
      <4>2. Nested(tree', open') /\ Bare(tree', open', Unattached(pc', tree', open'))
        BY <1>5, <2>1, <2>5, <3>2 DEF new
      <4> QED BY <2>1, <3>2, <4>1, <4>2, PCs DEF Stack
    <3> QED BY <3>1, <3>2
  <2>7. Places'
    BY <1>5, <2>1, PCs DEF Places
  <2>8. Owned(memory'.heap, tree', new, pc', {})
    <3>1. pc' \notin BuildPC
      BY <1>5, PCs
    <3>2. Owned(memory.heap, tree, loose, pc', {})
      BY <1>2, <1>3, <3>1, OwnedSame
    <3> QED BY <1>2, <1>5, <2>5, <3>2
  <2>9. Heap'
    BY <1>2, <1>3, <2>4, <2>8 DEF Heap, new
  <2>10. Failures'
    BY <1>2, <1>3, <1>5, PCs DEF Failures
  <2> QED BY <2>6, <2>7, <2>9, <2>10 DEF Kept
<1>6. CASE /\ open' = Front(open) /\ tree[c].item = Nothing
           /\ ReturnsNull(Len(open) - 1) /\ tree' = Before(Parent)
  <2>1. c = Len(tree)
    <3> SUFFICES ASSUME c # Len(tree) PROVE FALSE
      OBVIOUS
    <3>1. c < Len(tree)
      BY <1>1
    <3>2. c + 1 \in loose
      BY <1>1, <1>6, <3>1 DEF Bare, Parent
    <3>3. c + 1 <= c
      BY <1>1, <3>2, InnermostIsLatest DEF Parent
    <3> QED BY <1>1, <3>3
  <2>2. "value" \notin Pointers(tree, c) /\ "string" \notin Pointers(tree, c)
        /\ "pairs" \notin Pointers(tree, c)
    <3>1. Nothing.type # "string" /\ Nothing # Object
      BY DEF Nothing, Object
    <3> HIDE DEF c
    <3> QED BY <1>1, <1>6, <3>1, PointersAre
  <2> HIDE DEF c, loose
  <2>3. \A j \in Nat, p \in Pointer :
          <<j, p>> \in memory'.heap
            <=> <<j, p>> \in memory.heap /\ (j < c \/ (j = c /\ p = "key"))
    <3> SUFFICES ASSUME NEW j \in Nat, NEW p \in Pointer, <<j, p>> \in memory.heap
                 PROVE  j < c \/ (j = c /\ p = "key")
      BY <1>2
    <3>1. Holds(tree, loose, pc, j, p)
      BY <1>3 DEF Owned
    <3>2. j < c \/ j = c
      BY <1>1, <2>1, <3>1 DEF Holds
    <3>3. j = c /\ p # "key" => p \notin Pointers(tree, c)
      BY <2>2 DEF Pointer
    <3> QED BY <3>1, <3>2, <3>3 DEF Holds
  <2> QED BY <1>2, <1>3, <1>6, <2>3, KeptReturnsNull DEF c
<1>7. \/ pc' = "out" /\ UNCHANGED <<at, open, tree>>
      \/ /\ open' = Front(open) /\ tree[c].item # Nothing
         /\ pc' = IF Len(open) = 1 THEN "parsed" ELSE "push"
         /\ UNCHANGED tree
      \/ /\ open' = Front(open) /\ tree[c].item = Nothing
         /\ ReturnsNull(Len(open) - 1) /\ tree' = Before(Parent)
  BY DEF ObjectEnds
<1> QED BY <1>4, <1>5, <1>6, <1>7

\* json_free leaves nothing.
LEMMA KeptRelease ==
  ASSUME IInv, Release
  PROVE  Kept'
<1> DEFINE freed == Blocks(tree, 1)
<1>1. /\ pc \in {"written", "too_long", "parsed"} /\ pc' = "released"
      /\ pc \notin BuildPC \cup ParsePC /\ pc # "crashed" /\ pc' \notin BuildPC \cup ParsePC
      /\ memory' = Free(memory, freed) /\ tree' = <<>> /\ tree \in Seq(Node)
  BY PCs DEF Release, IInv, TypeOK
<1>2. /\ Unattached(pc, tree, open) = {} /\ Unattached(pc', tree', open') = {}
      /\ Loose(pc, open, NewNode) = {} /\ Loose(pc', open', NewNode') = {}
  BY <1>1, UnattachedAre, LooseAre DEF ValuePC
<1>3. /\ ~memory.wrong /\ memory \in MemoryType /\ memory.heap \in BlockSets
      /\ Owned(memory.heap, tree, {}, pc, {})
  BY <1>1, <1>2 DEF IInv, TypeOK, Kept, Heap, MemoryType, BlockSets
<1>4. /\ \A j \in Nat, p \in Pointer : <<j, p>> \in freed <=> <<j, p>> \in memory.heap
      /\ freed \in BlockSets
  <2>1. CASE tree = <<>>
    <3>1. freed = {}
      BY <2>1 DEF Blocks
    <3>2. \A j \in Nat, p \in Pointer : <<j, p>> \notin memory.heap
      BY <1>3, <2>1, HoldsNone DEF Owned
    <3> QED BY <3>1, <3>2 DEF BlockSets
  <2>2. CASE tree # <<>>
    <3>1. 1 \in 1..Len(tree)
      BY <1>1, <2>2
    <3> DEFINE none == {}
               first == 1
    <3>2. \A j \in none : j \in Nat /\ j <= first
      OBVIOUS
    <3>3. first \in 1..Len(tree) /\ Owned(memory.heap, tree, none, pc, {})
      BY <1>3, <3>1
    <3> HIDE DEF none, first
    <3>4. \A j \in Nat, p \in Pointer :
            <<j, p>> \in Blocks(tree, first)
              <=> /\ Holds(tree, none, pc, j, p)
                  /\ j >= first /\ ~(j = first /\ p = "key")
      BY <1>1, <3>2, <3>3, BlocksHeld
    <3>5. \A j \in Nat, p \in Pointer :
            Holds(tree, none, pc, j, p) => j >= first /\ ~(j = first /\ p = "key")
      <4> SUFFICES ASSUME NEW j \in Nat, NEW p \in Pointer, Holds(tree, none, pc, j, p)
                   PROVE  j >= first /\ ~(j = first /\ p = "key")
        OBVIOUS
      <4>1. "key" \notin Pointers(tree, first)
        BY <1>1, <3>3, PointersAre
      <4>2. j \in 1..Len(tree) /\ (p = "key" => p \in Pointers(tree, j) \/ j > 1)
        BY DEF Holds
      <4> QED BY <4>1, <4>2 DEF first
    <3>6. Blocks(tree, first) \in BlockSets
      BY <1>1, <3>3, BlocksType
    <3>7. \A j \in Nat, p \in Pointer :
            <<j, p>> \in memory.heap <=> Holds(tree, none, pc, j, p)
      BY <3>3 DEF Owned
    <3> QED BY <3>4, <3>5, <3>6, <3>7 DEF first
  <2> QED BY <2>1, <2>2
<1> HIDE DEF freed
<1>5. freed = memory.heap
  <2>1. \A b \in freed \cup memory.heap : \E j \in Nat, p \in Pointer : b = <<j, p>>
    BY <1>3, <1>4 DEF BlockSets
  <2> QED BY <1>4, <2>1
<1>6. /\ memory'.heap = {}
      /\ memory'.lost = memory.lost /\ memory'.failed = memory.failed
      /\ ~memory'.wrong
  BY <1>1, <1>3, <1>4, <1>5, FreeIs
<1>7. Stack' /\ Places'
  BY <1>1, PCs DEF Stack, Places
<1>8. Heap'
  <2>1. Owned(memory'.heap, tree', {}, pc', {})
    BY <1>1, <1>6, HoldsNone DEF Owned
  <2> QED BY <1>2, <1>6, <2>1 DEF Heap
<1>9. Failures'
  <2>1. Len(tree') = 0
    BY <1>1
  <2> QED BY <1>1, <1>6, <2>1, PCs DEF IInv, Kept, Failures
<1> QED BY <1>7, <1>8, <1>9 DEF Kept
\* Every step keeps the invariant.
LEMMA KeptNext ==
  ASSUME IInv, [Next]_vars
  PROVE  Kept'
<1>1. CASE Building
  BY <1>1, KeptCreate, KeptCreated, KeptAttach DEF Building
<1>2. CASE Writing
  BY <1>2, KeptWriting
<1>3. CASE Sending
  BY <1>3, KeptSending
<1>4. CASE Parsing
  BY <1>4, KeptParseString, KeptNumber, KeptParseBoolean, KeptParseObject, KeptParseKey,
     KeptPush, KeptObjectEnds, KeptOut DEF Parsing
<1>5. CASE Release
  BY <1>5, KeptRelease
<1>6. CASE UNCHANGED vars
  <2>1. /\ UNCHANGED <<pc, value, tree, open, at, memory>>
        /\ NewNode' = NewNode
    BY <1>6 DEF vars, reading, NewNode
  <2> QED BY <2>1 DEF IInv, Kept, Stack, Places, Heap, Failures
<1> QED BY <1>1, <1>2, <1>3, <1>4, <1>5, <1>6 DEF Next

\* Whatever is built, sent or parsed, and whichever allocations fail: at every moment
\* the nodes of the value that there is are those of the calls in progress, each in
\* the object it was created for, and exactly the blocks they and what is being read
\* point to are in use.
THEOREM Invariance == Spec => []IInv
<1>1. Init => IInv
  BY TypeInit, KeptInit DEF IInv
<1>2. IInv /\ [Next]_vars => IInv'
  BY TypeNext, KeptNext DEF IInv
<1> QED BY <1>1, <1>2, PTL DEF Spec

\* Every variable of the library has its type, and every node its depth, key and item.
THEOREM TypeCorrect == Spec => []TypeOK
<1>1. IInv => TypeOK
  BY DEF IInv
<1> QED BY <1>1, Invariance, PTL

\* json_free and the error exits of json_parse free every block once, also when
\* allocations fail, whatever text there is: the parser that refuses a text leaves
\* nothing, and has lost at most one block for each failure.
THEOREM MemoryReturnedHolds == Spec => []MemoryReturned
<1>1. IInv => MemoryReturned
  <2> SUFFICES ASSUME IInv PROVE MemoryReturned
    OBVIOUS
  <2>1. ~memory.wrong /\ (pc = "crashed" => memory.failed > 0)
        /\ (memory.failed = 0 => memory.lost = 0)
        /\ (pc = "refused" => memory.lost <= memory.failed)
    BY DEF IInv, Kept, Heap, Failures
  <2>2. ASSUME pc \in {"released", "refused"} PROVE memory.heap = {}
    <3>1. tree = <<>> /\ pc # "crashed"
      BY <2>2 DEF IInv, Kept, Stack
    <3>2. Loose(pc, open, NewNode) = {}
      BY <2>2, LooseAre DEF ValuePC
    <3>3. \A j \in Nat, p \in Pointer : <<j, p>> \notin memory.heap
      BY <3>1, <3>2, HoldsNone DEF IInv, Kept, Heap, Owned
    <3>4. memory.heap \in BlockSets
      BY DEF IInv, TypeOK, MemoryType, BlockSets
    <3>5. \A b \in memory.heap : \E j \in Nat, p \in Pointer : b = <<j, p>>
      BY <3>4 DEF BlockSets
    <3> QED BY <3>3, <3>5
  <2> QED BY <2>1, <2>2 DEF MemoryReturned
<1> QED BY <1>1, Invariance, PTL

-----------------------------------------------------------------------------
(* The text that is written. *)

\* Nodes that are values inside objects, but for those that are in no object yet.
Shaped(t, loose) ==
  \A i \in 1..Len(t) :
    IF i = 1 THEN t[i].depth = 0 /\ t[i].item \in {Object, Nothing}
    ELSE /\ t[i].depth \in 1..(t[i - 1].depth + 1)
         /\ t[i].depth = t[i - 1].depth + 1 => t[i - 1].item = Object \/ i \in loose

SerialPC == WritePC \cup {"built", "written", "too_long"}

Shape ==
  /\ pc \in BuildPC => Shaped(tree, Unattached(pc, tree, open))
  /\ pc \in SerialPC => Shaped(tree, {}) /\ tree # <<>>
  /\ pc \in BuildPC \cup {"built"} => text = <<>>

\* The value at at + 1 is next, or the object that has got the one at at.
NextIs(n) == /\ at \in 1..Len(tree) /\ ~HasPairs(tree, at)
             /\ Len(open) \in 1..Level(tree, at)
             /\ at < Len(tree) => tree[at + 1].depth <= n

Writer ==
  /\ pc \in {"write_value", "write_key"} =>
       at < Len(tree) /\ Len(open) = tree[at + 1].depth
  /\ pc = "write_key" => at > 0
  /\ pc = "write_next" => NextIs(Len(open))
  /\ pc = "write_end" => NextIs(Len(open) - 1)
  /\ pc = "written" => at = Len(tree)

NothingMissing == \A i \in 1..Len(tree) : tree[i].item # Nothing

\* The text of the first k nodes.
Made(k) == Joined(Pieces(tree, <<>>), k)

\* What is written: a part of the text, and there was room for it.
WrittenPart ==
  /\ pc = "write_value" =>
       text = IF at = 0 THEN <<>>
              ELSE Made(at) \o Between(tree, at + 1, <<>>)
                     \o Quoted(tree[at + 1].key) \o <<":">>
  /\ pc = "write_key" => text = Made(at) \o Between(tree, at + 1, <<>>)
  /\ pc \in {"write_next", "write_end"} =>
       text = Made(at) \o Closing(Level(tree, at) - Len(open))
  /\ pc = "write_next" => Len(text) < room
  /\ pc = "write_end" => Len(text) + 1 < room
  /\ pc = "written" => text = Text(tree, <<>>) /\ Len(text) < room
  /\ pc = "too_long" => Len(Text(tree, <<>>)) >= room

Fitting == NothingMissing => WrittenPart

\* What the writer reaches had all its parts.
Reached ==
  pc \in WritePC \cup {"written"} => \A i \in 1..at : tree[i].item # Nothing

FitInv == Shape /\ Writer /\ Reached /\ Fitting

LEMMA ShapedMore ==
  ASSUME NEW t \in Seq(Node), NEW o \in Seq(Nat), NEW node \in Node,
         Nested(t, o), node.depth = Len(o),
         o = <<>> => node.item \in {Object, Nothing},
         NEW loose, NEW more, Shaped(t, loose),
         \A j \in loose : j \in more,
         o # <<>> => Len(t) + 1 \in more
  PROVE  Shaped(Append(t, node), more)
<1> DEFINE g == Append(t, node)
           n == Len(t)
<1>1. n \in Nat /\ Len(g) = n + 1 /\ g[n + 1] = node /\ \A i \in 1..n : g[i] = t[i]
  BY AppendIs
<1> HIDE DEF g
<1>2. ASSUME NEW i \in 1..n
      PROVE  IF i = 1 THEN g[i].depth = 0 /\ g[i].item \in {Object, Nothing}
             ELSE /\ g[i].depth \in 1..(g[i - 1].depth + 1)
                  /\ g[i].depth = g[i - 1].depth + 1 => g[i - 1].item = Object \/ i \in more
  <2>1. g[i] = t[i] /\ (i # 1 => g[i - 1] = t[i - 1])
    BY <1>1
  <2> QED BY <2>1 DEF Shaped
<1>3. CASE n = 0
  <2>1. o = <<>>
    <3> SUFFICES ASSUME o # <<>> PROVE FALSE
      OBVIOUS
    <3>1. 1 \in 1..Len(o)
      OBVIOUS
    <3> QED BY <1>3, <3>1 DEF Nested
  <2> QED BY <1>1, <1>2, <1>3, <2>1 DEF Shaped, g
<1>4. CASE n # 0
  <2>1. o # <<>>
    BY <1>4 DEF Nested
  <2> DEFINE last == o[Len(o)]
             d == Len(o)
  <2>2. /\ d \in Nat \ {0} /\ last \in 1..n /\ t[last].depth = d - 1
        /\ \A j \in (last + 1)..n : t[j].depth >= d
    BY <2>1, InnermostIsLatest
  <2> HIDE DEF last, d
  <2>3. n \in 1..n /\ t[n].depth \in Nat
    <3>1. n \in 1..n
      BY <1>1, <1>4
    <3>2. t[n] \in Node
      BY <3>1
    <3> QED BY <3>1, <3>2 DEF Node
  <2>4. t[n].depth >= d - 1
    <3>1. CASE last = n
      BY <2>2, <2>3, <3>1
    <3>2. CASE last # n
      <4>1. n \in (last + 1)..n
        BY <1>1, <2>2, <3>2
      <4> QED BY <2>2, <2>3, <4>1
    <3> QED BY <3>1, <3>2
  <2>5. /\ g[n + 1].depth \in 1..(g[n + 1 - 1].depth + 1)
        /\ n + 1 \in more /\ n + 1 # 1
    <3>1. n + 1 - 1 = n
      BY <1>1
    <3>2. g[n] = t[n] /\ g[n + 1].depth = d
      BY <1>1, <2>3 DEF d
    <3> QED BY <1>1, <1>4, <2>1, <2>2, <2>3, <2>4, <3>1, <3>2
  <2>6. \A i \in 1..(n + 1) : i \in 1..n \/ i = n + 1
    BY <1>1
  <2>7. Shaped(g, more)
    BY <1>1, <1>2, <2>5, <2>6 DEF Shaped
  <2> QED BY <2>7 DEF g
<1> QED BY <1>3, <1>4

LEMMA ShapedLess ==
  ASSUME NEW t \in Seq(Node), NEW c \in 1..Len(t), NEW loose, NEW less, Shaped(t, loose),
         \A j \in 1..(c - 1) : j \in loose => j \in less
  PROVE  Shaped(SubSeq(t, 1, c - 1), less)
<1> DEFINE s == SubSeq(t, 1, c - 1)
<1>1. Len(s) = c - 1 /\ (\A i \in 1..(c - 1) : s[i] = t[i]) /\ Len(t) \in Nat
  OBVIOUS
<1> HIDE DEF s
<1>2. ASSUME NEW i \in 1..Len(s)
      PROVE  IF i = 1 THEN s[i].depth = 0 /\ s[i].item \in {Object, Nothing}
             ELSE /\ s[i].depth \in 1..(s[i - 1].depth + 1)
                  /\ s[i].depth = s[i - 1].depth + 1 => s[i - 1].item = Object \/ i \in less
  <2>1. i \in 1..(c - 1) /\ i \in 1..Len(t) /\ s[i] = t[i] /\ (i # 1 => s[i - 1] = t[i - 1])
    BY <1>1
  <2> QED BY <2>1 DEF Shaped
<1>3. Shaped(s, less)
  BY <1>2 DEF Shaped
<1> QED BY <1>3 DEF s

\* An object that is there gets its child.
LEMMA ShapedAttached ==
  ASSUME NEW t \in Seq(Node), NEW o \in Seq(Nat), Nested(t, o), o # <<>>,
         NEW c \in LastAt(t, Len(o)), Shaped(t, Inside(o) \cup {c}),
         t[o[Len(o)]].item # Nothing
  PROVE  Shaped(t, Inside(o))
<1> DEFINE d == Len(o)
           last == o[d]
<1>1. /\ d \in Nat \ {0} /\ last \in 1..Len(t) /\ t[last].item = Object
      /\ t[last].depth = d - 1
      /\ \A j \in (last + 1)..Len(t) : t[j].depth >= d
      /\ c \in 1..Len(t) /\ last < c /\ t[c].depth = d
  BY InnermostIsLatest, ChildIsInside
<1> HIDE DEF last, d
<1>2. ASSUME NEW i \in 1..Len(t), i # 1, t[i].depth = t[i - 1].depth + 1
      PROVE  t[i - 1].item = Object \/ i \in Inside(o)
  <2>1. CASE i = c
    <3>1. t[i - 1] \in Node /\ i - 1 \in 1..Len(t)
      BY <1>2
    <3>2. t[i - 1].depth \in Nat
      BY <3>1 DEF Node
    <3>3. ASSUME i - 1 \in (last + 1)..Len(t) PROVE FALSE
      <4>1. t[i - 1].depth >= d
        BY <1>1, <3>3
      <4>2. t[i].depth = d
        BY <1>1, <2>1
      <4> QED BY <1>1, <1>2, <3>2, <4>1, <4>2
    <3>4. i - 1 = last
      BY <1>1, <2>1, <3>1, <3>3
    <3> QED BY <1>1, <3>4
  <2>2. CASE i # c
    BY <1>2, <2>2 DEF Shaped
  <2> QED BY <2>1, <2>2
<1> QED BY <1>2 DEF Shaped

LEMMA ShapeInit == Init => Shape
<1> SUFFICES ASSUME Init PROVE Shape
  OBVIOUS
<1>1. Len(tree) = 0 /\ pc = "create" /\ text = <<>>
  BY DEF Init
<1>3. 1..0 = {}
  OBVIOUS
<1>2. Shaped(tree, Unattached(pc, tree, open))
  BY <1>1, <1>3 DEF Shaped
<1> QED BY <1>1, <1>2, PCs DEF Shape, SerialPC

LEMMA ShapeCreate ==
  ASSUME IInv, Shape, Create
  PROVE  Shape'
<1>1. /\ pc = "create" /\ value \in Values /\ at \in Nat /\ open \in Seq(Nat)
      /\ tree \in Seq(Node) /\ Coming(value)
  BY PCs DEF IInv, TypeOK, Kept, Places, Create
<1> DEFINE node == value[at + 1]
           failed == [node EXCEPT !.item = Nothing]
           loose == Inside(open)
           more == Unattached(pc', tree', open')
<1>2. /\ node \in Node /\ node.depth = Len(open)
      /\ failed \in Node /\ failed.depth = Len(open)
  <2>1. at + 1 \in 1..Len(value) /\ node.depth = Len(open)
    BY <1>1, ValueType DEF Coming
  <2>2. node \in Node
    BY <1>1, <2>1, ValueType
  <2> HIDE DEF node
  <2> QED BY <2>1, <2>2 DEF Node, Item
<1>3. Nested(tree, open) /\ Shaped(tree, loose) /\ text = <<>>
  <2>1. pc \in BuildPC /\ Unattached(pc, tree, open) = loose
    BY <1>1, PCs, UnattachedAre
  <2> QED BY <2>1 DEF IInv, Kept, Stack, Shape
<1>4. PICK new \in {node, failed} : tree' = Append(tree, new)
  BY DEF Create
<1>5. new \in Node /\ new.depth = Len(open)
      /\ (open = <<>> => new.item \in {Object, Nothing})
  <2>1. open = <<>> => node.item = Object
    <3> SUFFICES ASSUME open = <<>> PROVE node.item = Object
      OBVIOUS
    <3>1. at = 0
      BY <1>1 DEF IInv, Kept, Places
    <3> QED BY <1>1, <3>1, ValueType DEF IsObject
  <2>2. failed.item = Nothing
    <3> HIDE DEF node
    <3> QED BY <1>2 DEF Node
  <2> HIDE DEF node, failed
  <2> QED BY <1>2, <1>4, <2>1, <2>2
<1> HIDE DEF node, failed
<1>6. Len(tree) + 1 = NewNode /\ NewNode \in Nat /\ pc' \in BuildPC /\ text' = text
  BY <1>1, PCs DEF NewNode, Create
<1>7. /\ \A j \in loose : j \in more
      /\ open # <<>> => Len(tree) + 1 \in more
  <2>1. CASE open' = Append(open, NewNode) /\ pc' = "create"
    <3>1. more = Inside(open')
      BY <2>1, PCs, UnattachedAre
    <3> QED BY <1>1, <1>6, <2>1, <3>1, InsideMore
  <2>2. CASE open' = open /\ pc' = "attach"
    <3>1. more = Inside(open) \cup LastAt(tree', Len(open))
      BY <2>2, UnattachedAre
    <3>2. Len(tree) + 1 \in LastAt(tree', Len(open))
      <4>1. /\ Len(tree') = Len(tree) + 1 /\ tree'[Len(tree) + 1] = new
            /\ Len(tree) \in Nat
        BY <1>1, <1>4, <1>5, AppendIs
      <4>2. (Len(tree) + 1 + 1)..Len(tree') = {} /\ Len(tree) + 1 \in 1..Len(tree')
        BY <4>1
      <4> QED BY <1>5, <4>1, <4>2 DEF LastAt
    <3> QED BY <3>1, <3>2
  <2> QED BY <1>1, <2>1, <2>2 DEF Create
<1>8. Shaped(tree', more)
  <2> HIDE DEF loose, more
  <2> QED BY <1>1, <1>3, <1>4, <1>5, <1>7, ShapedMore
<1> QED BY <1>3, <1>6, <1>8, PCs DEF Shape, SerialPC

LEMMA ShapeCreated ==
  ASSUME IInv, Shape, Created
  PROVE  Shape'
<1>1. /\ pc = "create" /\ open \in Seq(Nat) /\ tree \in Seq(Node) /\ tree' = tree
      /\ open' = Front(open) /\ text' = text
      /\ pc' = IF Len(open) = 1 THEN "built" ELSE "attach"
  BY DEF IInv, TypeOK, Created
<1>2. Nested(tree, open) /\ Shaped(tree, Inside(open)) /\ text = <<>>
  <2>1. pc \in BuildPC /\ Unattached(pc, tree, open) = Inside(open)
    BY <1>1, PCs, UnattachedAre
  <2> QED BY <2>1 DEF IInv, Kept, Stack, Shape
<1>3. open # <<>> /\ tree # <<>>
  <2>1. open # <<>>
    <3> SUFFICES ASSUME open = <<>> PROVE FALSE
      OBVIOUS
    <3>1. at = 0 /\ value \in Values
      BY <1>1, PCs DEF IInv, Kept, Places
    <3>2. Len(value) \in Nat \ {0} /\ value[1].depth = 0
      BY <3>1, ValueType DEF IsObject
    <3>3. Len(open) = 0 /\ 0 + 1 = 1 /\ 0 < Len(value)
      BY <3>2
    <3>4. Coming(value)
      BY <3>1, <3>2, <3>3 DEF Coming
    <3> QED BY <3>4 DEF Created
  <2>2. Len(tree) # 0
    BY <1>1, <1>2, <2>1, InnermostIsLatest
  <2> QED BY <2>1, <2>2
<1>4. /\ Len(open) \in Nat \ {0} /\ Len(Front(open)) = Len(open) - 1
      /\ \A k \in 1..(Len(open) - 1) : Front(open)[k] = open[k]
  BY <1>1, <1>3, FrontIs
<1>5. CASE Len(open) = 1
  <2>1. Inside(open) = {}
    <3>1. 2..1 = {}
      OBVIOUS
    <3> QED BY <1>5, <3>1 DEF Inside
  <2>2. pc' = "built"
    BY <1>1, <1>5
  <2> QED BY <1>1, <1>2, <1>3, <2>1, <2>2, PCs DEF Shape, SerialPC
<1>6. CASE Len(open) # 1
  <2> DEFINE less == Inside(Front(open)) \cup LastAt(tree, Len(Front(open)))
  <2>1. Unattached(pc', tree', open') = less /\ pc' = "attach"
    BY <1>1, <1>6, UnattachedAre
  <2>2. ASSUME NEW j \in Inside(open) PROVE j \in less
    <3>1. PICK k \in 2..Len(open) : j = open[k]
      BY DEF Inside
    <3>2. CASE k = Len(open)
      <4>1. /\ j \in 1..Len(tree) /\ tree[j].depth = Len(open) - 1
            /\ \A i \in (j + 1)..Len(tree) : tree[i].depth >= Len(open)
        BY <1>1, <1>2, <1>3, <3>1, <3>2, InnermostIsLatest
      <4>2. \A i \in (j + 1)..Len(tree) : tree[i].depth \in Nat
        <5>1. \A i \in (j + 1)..Len(tree) : i \in 1..Len(tree)
          BY <4>1
        <5> QED BY <1>1, <5>1, NodeAt DEF Node
      <4>3. j \in LastAt(tree, Len(Front(open)))
        BY <1>4, <4>1, <4>2 DEF LastAt
      <4> QED BY <4>3
    <3>3. CASE k # Len(open)
      <4>1. k \in 2..(Len(open) - 1) /\ k \in 1..(Len(open) - 1)
        BY <1>4, <3>3
      <4>2. j = Front(open)[k] /\ k \in 2..Len(Front(open))
        BY <1>4, <3>1, <4>1
      <4> QED BY <4>2 DEF Inside
    <3> QED BY <3>2, <3>3
  <2>3. Shaped(tree, less)
    <3> HIDE DEF less
    <3>1. \A i \in 1..Len(tree) : i \in Inside(open) => i \in less
      BY <2>2
    <3> QED BY <1>2, <3>1 DEF Shaped
  <2> HIDE DEF less
  <2> QED BY <1>1, <1>2, <2>1, <2>3, PCs DEF Shape, SerialPC
<1> QED BY <1>5, <1>6

LEMMA ShapeAttach ==
  ASSUME IInv, Shape, Attach
  PROVE  Shape'
<1>1. /\ pc = "attach" /\ open' = open /\ text' = text /\ pc' \in {"create", "crashed"}
      /\ tree \in Seq(Node) /\ open \in Seq(Nat)
  BY DEF IInv, TypeOK, Attach
<1> DEFINE c == Child
<1>2. /\ open # <<>> /\ Nested(tree, open)
      /\ c \in 1..Len(tree) /\ LastAt(tree, Len(open)) = {c}
      /\ Unattached(pc, tree, open) = Inside(open) \cup {c}
  BY <1>1, ChildType
<1>3. Shaped(tree, Inside(open) \cup {c}) /\ text = <<>>
  <2> HIDE DEF c
  <2> QED BY <1>1, <1>2, PCs DEF Shape
<1>4. CASE pc' = "crashed"
  BY <1>4, PCs DEF Shape, SerialPC
<1>5. CASE pc' = "create"
  <2>1. Unattached(pc', tree', open') = Inside(open) /\ pc' \in BuildPC
    BY <1>1, <1>5, PCs, UnattachedAre
  <2>2. CASE tree' = tree /\ tree[Parent].item # Nothing
    <3> HIDE DEF c
    <3>1. c \in LastAt(tree, Len(open)) /\ tree[open[Len(open)]].item # Nothing
      BY <1>2, <2>2 DEF Parent
    <3>2. Shaped(tree, Inside(open))
      BY <1>1, <1>2, <1>3, <3>1, ShapedAttached
    <3> QED BY <1>1, <1>3, <1>5, <2>1, <2>2, <3>2, PCs DEF Shape, SerialPC
  <2>3. CASE tree' = Before(c)
    <3>1. tree' = SubSeq(tree, 1, c - 1)
      BY <2>3 DEF Before
    <3> HIDE DEF c
    <3>2. \A j \in 1..(c - 1) : j \in Inside(open) \cup {c} => j \in Inside(open)
      BY <1>2
    <3>3. Shaped(tree', Inside(open))
      BY <1>1, <1>2, <1>3, <3>1, <3>2, ShapedLess
    <3> QED BY <1>1, <1>3, <1>5, <2>1, <3>3, PCs DEF Shape, SerialPC
  <2> QED BY <1>5, <2>2, <2>3 DEF Attach
<1> QED BY <1>1, <1>4, <1>5

LEMMA ShapeWriting ==
  ASSUME IInv, Shape, Writing
  PROVE  Shape'
<1>1. /\ pc \in WritePC \cup {"built"} /\ pc' \in WritePC \cup {"written", "too_long", "crashed"}
      /\ tree' = tree
  BY PCs DEF Writing, Serialize, WriteValue, WriteKey, WriteNext, WriteEnd, TooLong
<1>2. Shaped(tree, {}) /\ tree # <<>>
  BY <1>1 DEF Shape, SerialPC
<1> QED BY <1>1, <1>2, PCs DEF Shape, SerialPC

\* Where a node is, and what comes behind it.
LEMMA ShapedIs ==
  ASSUME NEW t \in Seq(Node), t # <<>>, Shaped(t, {})
  PROVE  /\ Len(t) \in Nat \ {0} /\ t[1].depth = 0 /\ t[1].item \in {Object, Nothing}
         /\ \A i \in 1..Len(t) :
              /\ t[i].depth \in Nat /\ Level(t, i) \in Nat
              /\ Level(t, i) = IF t[i].item = Object THEN t[i].depth + 1 ELSE t[i].depth
              /\ i < Len(t) =>
                   /\ t[i + 1].depth >= 1 /\ t[i + 1].depth <= Level(t, i)
                   /\ t[i + 1].depth \in 1..Level(t, i)
                   /\ HasPairs(t, i) => t[i + 1].depth = Level(t, i)
                   /\ ~HasPairs(t, i) => t[i + 1].depth <= t[i].depth
<1>1. Len(t) \in Nat \ {0}
  OBVIOUS
<1>2. t[1].depth = 0 /\ t[1].item \in {Object, Nothing}
  <2>1. 1 \in 1..Len(t)
    BY <1>1
  <2> QED BY <2>1 DEF Shaped
<1>3. ASSUME NEW i \in 1..Len(t)
      PROVE  /\ t[i].depth \in Nat /\ Level(t, i) \in Nat
             /\ Level(t, i) = IF t[i].item = Object THEN t[i].depth + 1 ELSE t[i].depth
             /\ i < Len(t) =>
                  /\ t[i + 1].depth >= 1 /\ t[i + 1].depth <= Level(t, i)
                  /\ t[i + 1].depth \in 1..Level(t, i)
                  /\ HasPairs(t, i) => t[i + 1].depth = Level(t, i)
                  /\ ~HasPairs(t, i) => t[i + 1].depth <= t[i].depth
  <2>1. t[i].depth \in Nat /\ Level(t, i) \in Nat
    BY LevelType
  <2>2. Level(t, i) = IF t[i].item = Object THEN t[i].depth + 1 ELSE t[i].depth
    BY DEF Level
  <2>3. ASSUME i < Len(t)
        PROVE  /\ t[i + 1].depth >= 1 /\ t[i + 1].depth <= Level(t, i)
               /\ t[i + 1].depth \in 1..Level(t, i)
               /\ HasPairs(t, i) => t[i + 1].depth = Level(t, i)
               /\ ~HasPairs(t, i) => t[i + 1].depth <= t[i].depth
    <3> DEFINE next == t[i + 1].depth
    <3>1. i + 1 \in 1..Len(t) /\ i + 1 # 1 /\ i + 1 - 1 = i
      BY <1>1, <2>3
    <3>2. next \in 1..(t[i].depth + 1) /\ (next = t[i].depth + 1 => t[i].item = Object)
      BY <3>1 DEF Shaped
    <3>3. HasPairs(t, i) <=> next > t[i].depth
      BY <2>3 DEF HasPairs
    <3> HIDE DEF next
    <3>4. /\ next >= 1 /\ next <= Level(t, i) /\ next \in 1..Level(t, i)
          /\ next > t[i].depth => next = Level(t, i)
          /\ ~(next > t[i].depth) => next <= t[i].depth
      BY <2>1, <2>2, <3>2
    <3> QED BY <3>3, <3>4 DEF next
  <2> QED BY <2>1, <2>2, <2>3
<1> QED BY <1>1, <1>2, <1>3

LEMMA ShapedComplete ==
  ASSUME tree \in Seq(Node), tree # <<>>, Shaped(tree, {}), NothingMissing
  PROVE  Complete(tree)
<1>1. /\ Len(tree) \in Nat /\ tree[1].depth = 0
      /\ \A i \in 1..Len(tree) : i < Len(tree) => tree[i + 1].depth \in 1..Level(tree, i)
  BY ShapedIs
<1>2. ASSUME NEW i \in 2..Len(tree) PROVE tree[i].depth \in 1..Level(tree, i - 1)
  <2>1. i - 1 \in 1..Len(tree) /\ i - 1 < Len(tree) /\ i - 1 + 1 = i
    BY <1>1
  <2> QED BY <1>1, <2>1
<1> QED BY <1>1, <1>2 DEF Complete, NothingMissing

\* What is known at the beginning of a step of json_serialize.
LEMMA AtWriting ==
  ASSUME IInv, Shape, Writer, pc \in WritePC \cup {"built"}
  PROVE  /\ tree \in Seq(Node) /\ open \in Seq(Nat) /\ at \in Nat /\ room \in Nat
         /\ text \in Seq(Character)
         /\ tree # <<>> /\ Shaped(tree, {}) /\ Len(tree) \in Nat \ {0}
         /\ Len(open) \in Nat
         /\ pc = "built" => open = <<>> /\ Len(open) = 0 /\ text = <<>>
         /\ pc \in {"write_value", "write_key"} =>
              at + 1 \in 1..Len(tree) /\ (at = 0 \/ at \in 1..Len(tree))
         /\ pc \in {"write_next", "write_end"} => at \in 1..Len(tree) /\ Len(open) > 0
<1>1. /\ tree \in Seq(Node) /\ open \in Seq(Nat) /\ at \in Nat /\ room \in Nat
      /\ text \in Seq(Character)
  BY DEF IInv, TypeOK
<1>2. tree # <<>> /\ Shaped(tree, {})
  BY DEF Shape, SerialPC
<1>3. Len(tree) \in Nat \ {0} /\ Len(open) \in Nat
  BY <1>1, <1>2
<1>4. pc = "built" => open = <<>> /\ Len(open) = 0 /\ text = <<>>
  BY DEF IInv, Kept, Stack, Shape
<1>5. pc \in {"write_value", "write_key"} =>
        at + 1 \in 1..Len(tree) /\ (at = 0 \/ at \in 1..Len(tree))
  BY <1>1, <1>3 DEF Writer
<1>6. pc \in {"write_next", "write_end"} => at \in 1..Len(tree) /\ Len(open) > 0
  BY <1>3 DEF Writer, NextIs
<1> QED BY <1>1, <1>2, <1>3, <1>4, <1>5, <1>6

LEMMA WriterWriting ==
  ASSUME IInv, Shape, Writer, Writing
  PROVE  Writer'
<1>1. pc \in WritePC \cup {"built"} /\ tree' = tree
  BY PCs DEF Writing, Serialize, WriteValue, WriteKey, WriteNext, WriteEnd
<1>2. /\ tree \in Seq(Node) /\ open \in Seq(Nat) /\ at \in Nat
      /\ tree # <<>> /\ Shaped(tree, {}) /\ Len(tree) \in Nat \ {0}
      /\ Len(open) \in Nat
      /\ pc = "built" => open = <<>> /\ Len(open) = 0
      /\ pc \in {"write_value", "write_key"} => at + 1 \in 1..Len(tree)
      /\ pc \in {"write_next", "write_end"} => at \in 1..Len(tree) /\ Len(open) > 0
  BY <1>1, AtWriting
<1>3. tree[1].depth = 0 /\ tree[1].item \in {Object, Nothing}
      /\ \A i \in 1..Len(tree) :
           /\ tree[i].depth \in Nat /\ Level(tree, i) \in Nat
           /\ Level(tree, i) = IF tree[i].item = Object THEN tree[i].depth + 1
                                                        ELSE tree[i].depth
           /\ i < Len(tree) =>
                /\ tree[i + 1].depth >= 1 /\ tree[i + 1].depth <= Level(tree, i)
                /\ HasPairs(tree, i) => tree[i + 1].depth = Level(tree, i)
                /\ ~HasPairs(tree, i) => tree[i + 1].depth <= tree[i].depth
  BY <1>2, ShapedIs
<1>4. CASE pc' \in {"too_long", "crashed"}
  BY <1>4 DEF Writer
<1>5. CASE Serialize
  <2>1. pc' = "write_value" /\ at' = 0 /\ open' = open /\ pc = "built"
    BY <1>5 DEF Serialize
  <2>2. Len(open) = tree[0 + 1].depth /\ 0 < Len(tree)
    BY <1>2, <1>3, <2>1
  <2> QED BY <1>1, <2>1, <2>2 DEF Writer
<1>6. CASE WriteValue /\ pc' \notin {"too_long", "crashed"}
  <2>1. pc = "write_value"
    BY <1>6 DEF WriteValue
  <2>2. Len(open) = tree[at + 1].depth /\ at + 1 \in 1..Len(tree)
    BY <1>2, <2>1 DEF Writer
  <2>3. CASE /\ tree[at + 1].item = Object /\ at' = at + 1 /\ open' = Append(open, at')
             /\ pc' = IF HasPairs(tree, at') THEN "write_key" ELSE "write_end"
    <3>1. Len(open') = Len(open) + 1
      BY <1>2, <2>3, AppendIs
    <3> DEFINE a == at + 1
    <3>2. a \in 1..Len(tree) /\ Len(open) = tree[a].depth /\ tree[a].item = Object /\ at' = a
      BY <2>2, <2>3
    <3> HIDE DEF a
    <3>3. Level(tree, a) = Len(open') /\ Len(open') - 1 = tree[a].depth /\ Len(open') > 0
      BY <1>2, <1>3, <3>1, <3>2
    <3>4. CASE HasPairs(tree, a)
      <4>1. a < Len(tree)
        BY <3>4 DEF HasPairs
      <4>2. Len(open') = tree[a + 1].depth /\ a > 0
        BY <1>3, <3>2, <3>3, <3>4, <4>1
      <4> QED BY <1>1, <2>3, <3>2, <3>4, <4>1, <4>2 DEF Writer
    <3>5. CASE ~HasPairs(tree, a)
      <4>1. a < Len(tree) => tree[a + 1].depth <= Len(open') - 1
        BY <1>3, <3>2, <3>3, <3>5
      <4>2. Len(open') \in 1..Level(tree, a)
        BY <1>3, <3>2, <3>3
      <4>3. NextIs(Len(open) - 1)' /\ pc' = "write_end"
        BY <1>1, <2>3, <3>2, <3>5, <4>1, <4>2 DEF NextIs
      <4> QED BY <4>3 DEF Writer
    <3> QED BY <3>4, <3>5
  <2>4. CASE /\ tree[at + 1].item # Object /\ at' = at + 1 /\ open' = open
             /\ pc' = "write_next" /\ tree[at + 1].item # Nothing
    <3> DEFINE a == at + 1
    <3>2. a \in 1..Len(tree) /\ Len(open) = tree[a].depth /\ tree[a].item # Object /\ at' = a
          /\ tree[a].item # Nothing /\ a \in Nat
      BY <2>2, <2>4
    <3>6. a # 1
      <4> SUFFICES ASSUME a = 1 PROVE FALSE
        OBVIOUS
      <4>1. tree[1].item # Object /\ tree[1].item # Nothing
        BY <3>2, <2>4
      <4> QED BY <1>3, <4>1
    <3> HIDE DEF a
    <3>3. Level(tree, a) = Len(open)
      BY <1>3, <3>2
    <3>4. ~HasPairs(tree, a)
      <4> SUFFICES ASSUME HasPairs(tree, a) PROVE FALSE
        OBVIOUS
      <4>1. a < Len(tree) /\ tree[a + 1].depth > tree[a].depth
        BY DEF HasPairs
      <4> QED BY <1>3, <3>2, <3>3, <4>1
    <3>5. a < Len(tree) => tree[a + 1].depth <= Len(open')
      BY <1>3, <2>4, <3>2, <3>4
    <3>7. Len(open) >= 1
      <4> DEFINE b == a - 1
      <4>1. b \in 1..Len(tree) /\ b < Len(tree) /\ b + 1 = a
        BY <1>2, <3>2, <3>6
      <4> HIDE DEF b
      <4>2. tree[b + 1].depth >= 1
        BY <1>3, <4>1
      <4> QED BY <3>2, <4>1, <4>2
    <3>8. NextIs(Len(open))'
      <4>1. Len(open) \in 1..Level(tree, a)
        BY <1>2, <3>3, <3>7
      <4> QED BY <1>1, <2>4, <3>2, <3>4, <3>5, <4>1 DEF NextIs
    <3> QED BY <2>4, <3>8 DEF Writer
  <2> QED BY <1>6, <2>3, <2>4 DEF WriteValue, TooLong
<1>7. CASE WriteKey /\ pc' # "too_long"
  <2>1. pc = "write_key" /\ pc' = "write_value" /\ at' = at /\ open' = open
    BY <1>7 DEF WriteKey, TooLong
  <2>2. at < Len(tree) /\ Len(open) = tree[at + 1].depth
    BY <2>1 DEF Writer
  <2>3. at' < Len(tree') /\ Len(open') = tree'[at' + 1].depth
    BY <1>1, <2>1, <2>2
  <2> QED BY <2>1, <2>3 DEF Writer
<1>8. CASE WriteNext /\ pc' # "too_long"
  <2>1. pc = "write_next" /\ at' = at /\ open' = open /\ NextIs(Len(open))
    BY <1>8 DEF WriteNext, TooLong, Writer
  <2>2. CASE pc' = "write_key" /\ Coming(tree)
    BY <1>1, <1>2, <2>1, <2>2 DEF Writer, Coming
  <2>3. CASE pc' = "write_end" /\ ~Coming(tree)
    <3>1. at < Len(tree) => tree[at + 1].depth <= Len(open) - 1
      <4> SUFFICES ASSUME at < Len(tree) PROVE tree[at + 1].depth <= Len(open) - 1
        OBVIOUS
      <4>1. tree[at + 1].depth # Len(open) /\ tree[at + 1].depth <= Len(open)
        BY <2>1, <2>3 DEF Coming, NextIs
      <4>2. at + 1 \in 1..Len(tree)
        BY <1>2
      <4>3. tree[at + 1].depth \in Nat
        BY <1>3, <4>2
      <4> QED BY <1>2, <4>1, <4>3
    <3>2. NextIs(Len(open) - 1)'
      BY <1>1, <2>1, <3>1 DEF NextIs
    <3> QED BY <2>3, <3>2 DEF Writer
  <2> QED BY <1>8, <2>2, <2>3 DEF WriteNext, TooLong
<1>9. CASE WriteEnd
  <2>1. pc = "write_end" /\ at' = at /\ open' = Front(open) /\ NextIs(Len(open) - 1)
        /\ pc' = IF Len(open) = 1 THEN "written" ELSE "write_next"
    BY <1>9 DEF WriteEnd, Writer, reading
  <2>2. Len(open') = Len(open) - 1
    <3>1. open # <<>>
      <4> SUFFICES ASSUME open = <<>> PROVE FALSE
        OBVIOUS
      <4>1. Len(open) = 0
        OBVIOUS
      <4> QED BY <1>2, <2>1, <4>1
    <3> QED BY <1>2, <2>1, <3>1, FrontIs
  <2>3. CASE Len(open) = 1
    <3>1. ~(at < Len(tree))
      <4> SUFFICES ASSUME at < Len(tree) PROVE FALSE
        OBVIOUS
      <4>1. tree[at + 1].depth <= 0
        BY <2>1, <2>3 DEF NextIs
      <4>2. tree[at + 1].depth >= 1
        BY <1>2, <1>3, <2>1
      <4>3. tree[at + 1].depth \in Nat
        <5>1. at + 1 \in 1..Len(tree)
          BY <1>2
        <5> QED BY <1>3, <5>1
      <4> QED BY <4>1, <4>2, <4>3
    <3>2. at = Len(tree)
      BY <1>2, <2>1, <3>1
    <3> QED BY <1>1, <2>1, <2>3, <3>2 DEF Writer
  <2>4. CASE Len(open) # 1
    <3>1. NextIs(Len(open))'
      <4>1. Len(open) - 1 \in 1..Level(tree, at)
        <5>1. at \in 1..Len(tree) /\ Len(open) \in 1..Level(tree, at)
          BY <2>1 DEF NextIs
        <5>2. Level(tree, at) \in Nat
          BY <1>3, <5>1
        <5> DEFINE d == Len(open)
                   l == Level(tree, at)
        <5>3. d \in 1..l /\ l \in Nat /\ d # 1 /\ d \in Nat
          BY <1>2, <2>4, <5>1, <5>2
        <5> HIDE DEF d, l
        <5>4. d - 1 \in 1..l
          BY <5>3
        <5> QED BY <5>4 DEF d, l
      <4> QED BY <1>1, <2>1, <2>2, <4>1 DEF NextIs
    <3> QED BY <2>1, <2>4, <3>1 DEF Writer
  <2> QED BY <2>3, <2>4
<1> QED BY <1>4, <1>5, <1>6, <1>7, <1>8, <1>9 DEF Writing

LEMMA ReachedWriting ==
  ASSUME IInv, Shape, Writer, Reached, Writing
  PROVE  Reached'
<1>1. pc \in WritePC \cup {"built"} /\ tree' = tree
  BY PCs DEF Writing, Serialize, WriteValue, WriteKey, WriteNext, WriteEnd
<1>2. at \in Nat
  BY <1>1, AtWriting
<1>3. CASE Serialize
  <2>1. at' = 0 /\ 1..0 = {}
    BY <1>3 DEF Serialize
  <2>2. 1..at' = {}
    BY <2>1
  <2> QED BY <2>2 DEF Reached
<1>4. CASE WriteValue /\ at' = at + 1 /\ tree[at + 1].item # Nothing
  <2>1. \A i \in 1..at : tree[i].item # Nothing
    BY <1>1, <1>4 DEF Reached, WriteValue, WritePC
  <2>2. \A i \in 1..(at + 1) : i \in 1..at \/ i = at + 1
    BY <1>2
  <2>3. \A i \in 1..at' : tree'[i].item # Nothing
    BY <1>1, <1>4, <2>1, <2>2
  <2> QED BY <2>3 DEF Reached
<1>5. CASE pc' \in {"too_long", "crashed"}
  BY <1>5, PCs DEF Reached
<1>6. CASE at' = at /\ pc \in WritePC
  BY <1>1, <1>6 DEF Reached
<1>7. WriteValue => \/ at' = at + 1 /\ tree[at + 1].item # Nothing
                    \/ pc' \in {"too_long", "crashed"}
  <2> SUFFICES ASSUME WriteValue
               PROVE  \/ at' = at + 1 /\ tree[at + 1].item # Nothing
                      \/ pc' \in {"too_long", "crashed"}
    OBVIOUS
  <2>1. Object # Nothing
    BY DEF Object, Nothing
  <2> QED BY <2>1 DEF WriteValue, TooLong
<1>8. WriteKey \/ WriteNext \/ WriteEnd => at' = at /\ pc \in WritePC
  BY PCs DEF WriteKey, WriteNext, WriteEnd, TooLong, reading
<1> QED BY <1>3, <1>4, <1>5, <1>6, <1>7, <1>8 DEF Writing

\* Concatenations.
LEMMA Joins ==
  ASSUME NEW S, NEW a \in Seq(S), NEW b \in Seq(S)
  PROVE  /\ a \o b \in Seq(S) /\ Len(a \o b) = Len(a) + Len(b)
         /\ Len(a) \in Nat /\ Len(b) \in Nat
         /\ a \o <<>> = a /\ <<>> \o a = a /\ <<>> \in Seq(S)
  BY ConcatProperties, ConcatEmptySeq

LEMMA Associative ==
  ASSUME NEW S, NEW a \in Seq(S), NEW b \in Seq(S), NEW c \in Seq(S)
  PROVE  (a \o b) \o c = a \o (b \o c)
  BY ConcatAssociative

LEMMA ClosingMore ==
  ASSUME NEW n \in Nat
  PROVE  Closing(n) \o <<"}">> = Closing(n + 1)
<1> DEFINE c == "}"
<1>1. c \in Character
  BY DEF Character, Marks
<1>2. Closing(n) = [i \in 1..n |-> c] /\ Closing(n + 1) = [i \in 1..(n + 1) |-> c]
  BY DEF Closing
<1> HIDE DEF c
<1>3. [i \in 1..n |-> c] \o <<c>> = [i \in 1..(n + 1) |-> c]
  OBVIOUS
<1> QED BY <1>2, <1>3 DEF c

LEMMA ClosingNone == Closing(0) = <<>>
<1>1. Closing(0) \in Seq(Character) /\ Len(Closing(0)) = 0
  BY ClosingType
<1> QED BY <1>1

\* The parts of a piece.
LEMMA PieceIs ==
  ASSUME NEW v, Complete(v), NEW space \in Spaces, NEW i \in 1..Len(v)
  PROVE  /\ v[i].item \in Item /\ v[i].item # Nothing /\ v[i].key \in Seq(Character)
         /\ Written(v[i].item) \in Seq(Character)
         /\ Quoted(v[i].key) \in Seq(Character) /\ space \in Seq(Character)
         /\ i = 1 => Piece(v, i, space) = Written(v[i].item)
         /\ i # 1 =>
              /\ Piece(v, i, space) = Between(v, i, space) \o Quoted(v[i].key)
                                        \o <<":">> \o space \o Written(v[i].item)
              /\ Between(v, i, space) \in Seq(Character)
              /\ Level(v, i - 1) - v[i].depth \in Nat
              /\ Len(Between(v, i, space)) >= Level(v, i - 1) - v[i].depth
              /\ HasPairs(v, i - 1) => Between(v, i, space) = <<>>
              /\ ~HasPairs(v, i - 1) =>
                   Between(v, i, space) = Closing(Level(v, i - 1) - v[i].depth)
                                            \o (<<",">> \o space)
<1>1. v \in Seq(Node) /\ v[i] \in Node /\ Len(v) \in Nat
  BY DEF Complete
<1>2. v[i].item \in Item /\ v[i].item # Nothing /\ v[i].key \in Seq(Character)
  BY <1>1 DEF Node, Complete
<1>3. Written(v[i].item) \in Seq(Character) /\ Quoted(v[i].key) \in Seq(Character)
  BY <1>2, WrittenType, QuotedType
<1>4. space \in Seq(Character)
  <2>1. << >> \in Seq(Character)
    OBVIOUS
  <2>2. <<" ">> \in Seq(Character)
    BY MarkType
  <2> QED BY <2>1, <2>2 DEF Spaces
<1>5. ASSUME i # 1
      PROVE  /\ Piece(v, i, space) = Between(v, i, space) \o Quoted(v[i].key)
                                        \o <<":">> \o space \o Written(v[i].item)
             /\ Between(v, i, space) \in Seq(Character)
             /\ Level(v, i - 1) - v[i].depth \in Nat
             /\ Len(Between(v, i, space)) >= Level(v, i - 1) - v[i].depth
             /\ HasPairs(v, i - 1) => Between(v, i, space) = <<>>
             /\ ~HasPairs(v, i - 1) =>
                  Between(v, i, space) = Closing(Level(v, i - 1) - v[i].depth)
                                           \o (<<",">> \o space)
  <2> DEFINE n == Level(v, i - 1) - v[i].depth
             closing == Closing(n)
             front == <<",">>
  <2>1. i - 1 \in 1..Len(v) /\ i \in 2..Len(v)
    BY <1>1, <1>5
  <2>2. /\ n \in Nat /\ Level(v, i - 1) \in Nat /\ v[i].depth \in Nat
        /\ v[i].depth \in 1..Level(v, i - 1)
    BY <1>1, <2>1, LevelType DEF Complete
  <2>3. closing \in Seq(Character) /\ Len(closing) = n
    BY <2>2, ClosingType
  <2>4. front \in Seq(Character)
    BY MarkType
  <2>5. Piece(v, i, space) = Between(v, i, space) \o Quoted(v[i].key)
                                \o <<":">> \o space \o Written(v[i].item)
    BY <1>5 DEF Piece
  <2>6. CASE HasPairs(v, i - 1)
    <3>1. n = 0
      <4>1. v[i].depth > v[i - 1].depth
        <5>1. i - 1 + 1 = i
          BY <1>1
        <5> QED BY <2>6, <5>1 DEF HasPairs
      <4>2. Level(v, i - 1) <= v[i - 1].depth + 1 /\ v[i - 1].depth \in Nat
        <5>1. v[i - 1].depth \in Nat
          BY <1>1, <2>1, LevelType
        <5> QED BY <5>1 DEF Level
      <4> QED BY <2>2, <4>1, <4>2
    <3>2. closing = <<>>
      BY <3>1, ClosingNone
    <3>3. Between(v, i, space) = closing \o <<>>
      BY <2>6 DEF Between
    <3>4. closing \o <<>> = <<>> /\ <<>> \in Seq(Character) /\ Len(<<>>) = 0
      <4>1. << >> \in Seq(Character) /\ Len(<< >>) = 0
        OBVIOUS
      <4> HIDE DEF closing
      <4> QED BY <3>2, <4>1, Joins
    <3>5. Between(v, i, space) = <<>> /\ Between(v, i, space) \in Seq(Character)
          /\ Len(Between(v, i, space)) >= n
      <4>1. Between(v, i, space) = <<>> 
        BY <3>3, <3>4
      <4>2. n \in Nat /\ 0 >= n
        BY <2>2, <3>1
      <4> HIDE DEF n
      <4> QED BY <3>4, <4>1, <4>2
    <3> HIDE DEF n
    <3> QED BY <2>2, <2>5, <2>6, <3>5 DEF n
  <2>7. CASE ~HasPairs(v, i - 1)
    <3>1. Between(v, i, space) = closing \o (front \o space)
      BY <2>7 DEF Between
    <3> HIDE DEF closing, n, front
    <3>2. front \o space \in Seq(Character) /\ Len(front \o space) \in Nat
      BY <1>4, <2>4, Joins
    <3> DEFINE back == front \o space
    <3> HIDE DEF back
    <3>3. closing \o back \in Seq(Character) /\ Len(closing \o back) = n + Len(back)
          /\ Len(back) \in Nat
      BY <2>3, <3>2, Joins DEF back
    <3>4. Len(closing \o back) >= n
      BY <2>2, <3>3
    <3> QED BY <2>2, <2>5, <2>7, <3>1, <3>3, <3>4 DEF closing, n, front, back
  <2> QED BY <2>6, <2>7
<1> QED BY <1>1, <1>2, <1>3, <1>4, <1>5 DEF Piece

\* The text, node by node.
LEMMA TextMade ==
  ASSUME Complete(tree)
  PROVE  /\ Len(tree) \in Nat \ {0} /\ tree \in Seq(Node)
         /\ \A k \in 0..Len(tree) : Made(k) \in Seq(Character)
         /\ Made(0) = <<>>
         /\ \A k \in 1..Len(tree) : Made(k) = Made(k - 1) \o Piece(tree, k, <<>>)
         /\ Text(tree, <<>>) = Made(Len(tree)) \o Closing(Level(tree, Len(tree)))
<1> DEFINE p == Pieces(tree, <<>>)
<1>1. Len(tree) \in Nat \ {0} /\ tree \in Seq(Node)
  BY DEF Complete
<1>2. <<>> \in Spaces
  BY DEF Spaces
<1>3. /\ p \in Seq(Seq(Character)) /\ Len(p) = Len(tree)
      /\ Text(tree, <<>>) = Joined(p, Len(tree)) \o Closing(Level(tree, Len(tree)))
  BY <1>2, TextType
<1>4. \A k \in 1..Len(tree) : p[k] = Piece(tree, k, <<>>)
  BY DEF Pieces
<1>5. \A k : Made(k) = Joined(p, k)
  BY DEF Made
<1> HIDE DEF p
<1>6. /\ \A k \in 0..Len(tree) : Joined(p, k) \in Seq(Character)
      /\ Joined(p, 0) = <<>>
      /\ \A k \in 1..Len(tree) : Joined(p, k) = Joined(p, k - 1) \o p[k]
  BY <1>3, JoinedIs
<1> QED BY <1>1, <1>3, <1>4, <1>5, <1>6

\* A node more, as the writer writes it.
LEMMA MadeMore ==
  ASSUME Complete(tree), NEW i \in 1..Len(tree), i # 1
  PROVE  /\ Made(i) = Made(i - 1) \o Between(tree, i, <<>>) \o Quoted(tree[i].key)
                        \o <<":">> \o Written(tree[i].item)
         /\ Made(i - 1) \o Between(tree, i, <<>>) \in Seq(Character)
         /\ Made(i - 1) \o Between(tree, i, <<>>) \o Quoted(tree[i].key) \in Seq(Character)
         /\ Made(i - 1) \o Between(tree, i, <<>>) \o Quoted(tree[i].key) \o <<":">>
              \in Seq(Character)
         /\ Quoted(tree[i].key) \in Seq(Character)
         /\ Level(tree, i - 1) - tree[i].depth \in Nat
         /\ Len(Made(i)) >= Len(Made(i - 1)) + (Level(tree, i - 1) - tree[i].depth)
<1> DEFINE m == Made(i - 1)
           b == Between(tree, i, <<>>)
           q == Quoted(tree[i].key)
           w == Written(tree[i].item)
           c == <<":">>
           n == Level(tree, i - 1) - tree[i].depth
<1>1. /\ i \in Nat /\ i - 1 \in 0..Len(tree)
      /\ m \in Seq(Character) /\ Made(i) = m \o Piece(tree, i, <<>>)
  BY TextMade
<1>2. <<>> \in Spaces
  BY DEF Spaces
<1>3. /\ b \in Seq(Character) /\ q \in Seq(Character) /\ w \in Seq(Character)
      /\ Piece(tree, i, <<>>) = b \o q \o c \o <<>> \o w
      /\ n \in Nat /\ Len(b) >= n
  BY <1>2, PieceIs
<1>4. c \in Seq(Character)
  BY MarkType
<1> HIDE DEF m, b, q, w, c, n
<1>m. m \in Seq(Character)
  BY <1>1
<1>b. b \in Seq(Character)
  BY <1>3
<1>q. q \in Seq(Character)
  BY <1>3
<1>w. w \in Seq(Character)
  BY <1>3
<1> DEFINE x == b \o q
<1>5. x \in Seq(Character) /\ Len(x) = Len(b) + Len(q)
  BY <1>3, Joins
<1>x. x \in Seq(Character)
  BY <1>5
<1>6. m \o x = (m \o b) \o q
  BY ONLY <1>m, <1>b, <1>q, Associative
<1>7. m \o b \in Seq(Character)
  BY <1>1, <1>3, Joins
<1>8. (m \o b) \o q \in Seq(Character)
  BY <1>3, <1>7, Joins
<1>9. ((m \o b) \o q) \o c \in Seq(Character)
  BY <1>4, <1>8, Joins
<1> HIDE DEF x
<1>10. x \o c \in Seq(Character) /\ Len(x \o c) = Len(x) + Len(c)
  BY <1>4, <1>5, Joins
<1>11. (x \o c) \o <<>> = x \o c
  BY <1>10, Joins
<1>12. m \o ((x \o c) \o w) = ((m \o x) \o c) \o w
  <2> DEFINE y == x \o c
  <2>1. m \o y = (m \o x) \o c
    BY ONLY <1>m, <1>x, <1>4, Associative
  <2>2. y \in Seq(Character)
    BY <1>10
  <2> HIDE DEF y
  <2>3. m \o (y \o w) = (m \o y) \o w
    BY ONLY <1>m, <2>2, <1>w, Associative
  <2> QED BY <2>1, <2>3 DEF y
<1>13. Made(i) = (((m \o b) \o q) \o c) \o w
  BY <1>1, <1>3, <1>6, <1>11, <1>12 DEF x
<1>14. Len(Made(i)) >= Len(m) + n
  <2>1. /\ Len((x \o c) \o w) = Len(b) + Len(q) + Len(c) + Len(w)
        /\ (x \o c) \o w \in Seq(Character)
    <3> DEFINE y == x \o c
    <3>1. y \in Seq(Character) /\ Len(y) = Len(b) + Len(q) + Len(c)
      BY <1>5, <1>10
    <3> HIDE DEF y
    <3>2. y \o w \in Seq(Character) /\ Len(y \o w) = Len(y) + Len(w)
      BY <1>w, <3>1, Joins
    <3> QED BY <3>1, <3>2 DEF y
  <2> DEFINE y == (x \o c) \o w
  <2>2. Made(i) = m \o y
    BY <1>1, <1>3, <1>11 DEF x
  <2> HIDE DEF y
  <2>3. Len(m \o y) = Len(m) + Len(y) /\ Len(m) \in Nat /\ y \in Seq(Character)
    BY <1>1, <2>1, Joins DEF y
  <2>4. Len(b) \in Nat /\ Len(q) \in Nat /\ Len(c) \in Nat /\ Len(w) \in Nat
    BY <1>3, <1>4
  <2>5. Len(y) = Len(b) + Len(q) + Len(c) + Len(w)
    BY <2>1 DEF y
  <2> QED BY <1>3, <2>2, <2>3, <2>4, <2>5
<1> QED BY <1>3, <1>7, <1>8, <1>9, <1>13, <1>14 DEF m, b, q, w, c, n

\* What is written, and the ends of the objects open there, are no longer than the text.
LEMMA MadeFits ==
  ASSUME Complete(tree)
  PROVE  \A k \in 1..Len(tree) : Len(Made(k)) + Level(tree, k) <= Len(Text(tree, <<>>))
<1> DEFINE n == Len(tree)
           full == Len(Text(tree, <<>>))
           size(k) == Len(Made(k)) + Level(tree, k)
           Wrong == {d \in Nat : d < n /\ ~(size(n - d) <= full)}
<1>1. /\ n \in Nat \ {0} /\ tree \in Seq(Node)
      /\ \A k \in 0..n : Made(k) \in Seq(Character)
      /\ Text(tree, <<>>) = Made(n) \o Closing(Level(tree, n))
  BY TextMade
<1>2. \A k \in 1..n : Level(tree, k) \in Nat /\ tree[k].depth \in Nat
                      /\ tree[k].depth <= Level(tree, k)
  BY <1>1, LevelType DEF Level
<1>3. \A k \in 1..n : Len(Made(k)) \in Nat
  BY <1>1
<1>4. full = size(n) /\ full \in Nat
  <2> DEFINE m == Made(n)
             c == Closing(Level(tree, n))
  <2>1. n \in 0..n /\ n \in 1..n
    BY <1>1
  <2>2. m \in Seq(Character) /\ c \in Seq(Character) /\ Len(c) = Level(tree, n)
    BY <1>1, <1>2, <2>1, ClosingType
  <2> HIDE DEF m, c
  <2>3. Len(m \o c) = Len(m) + Len(c) /\ Len(m) \in Nat /\ Len(c) \in Nat
    BY <2>2, Joins
  <2> QED BY <1>1, <2>2, <2>3 DEF m, c
<1>5. ASSUME NEW k \in 1..n, k # 1 PROVE size(k - 1) <= size(k)
  <2>1. /\ Level(tree, k - 1) - tree[k].depth \in Nat
        /\ Len(Made(k)) >= Len(Made(k - 1)) + (Level(tree, k - 1) - tree[k].depth)
    BY <1>5, MadeMore
  <2>2. k - 1 \in 1..n
    BY <1>1, <1>5
  <2> QED BY <1>2, <1>3, <2>1, <2>2
<1>6. Wrong = {}
  <2> SUFFICES ASSUME Wrong # {} PROVE FALSE
    OBVIOUS
  <2>1. Wrong \subseteq Nat
    OBVIOUS
  <2>2. PICK d \in Wrong : \A e \in Wrong : d <= e
    <3> HIDE DEF Wrong
    <3> QED BY <2>1, LeastNumber
  <2>3. d \in Nat /\ d < n /\ ~(size(n - d) <= full)
    OBVIOUS
  <2>4. CASE d = 0
    <3>1. n - d = n
      BY <1>1, <2>4
    <3> QED BY <1>4, <2>3, <3>1
  <2>5. CASE d # 0
    <3>1. d - 1 \in Nat /\ d - 1 < n /\ d - 1 < d /\ n - (d - 1) \in 1..n
          /\ n - (d - 1) # 1 /\ n - (d - 1) - 1 = n - d /\ n - d \in 1..n
      BY <1>1, <2>3, <2>5
    <3>2. d - 1 \notin Wrong
      BY <2>2, <3>1
    <3>3. size(n - (d - 1)) <= full
      BY <3>1, <3>2
    <3> DEFINE k == n - (d - 1)
    <3>4. k \in 1..n /\ k # 1 /\ k - 1 = n - d
      BY <3>1
    <3> HIDE DEF k
    <3>5. size(n - d) <= size(k)
      BY <1>5, <3>4
    <3>6. size(n - d) \in Nat /\ size(k) \in Nat
      <4>1. Level(tree, n - d) \in Nat /\ Len(Made(n - d)) \in Nat
        BY <1>2, <1>3, <3>1
      <4>2. Level(tree, k) \in Nat /\ Len(Made(k)) \in Nat
        BY <1>2, <1>3, <3>4
      <4> QED BY <4>1, <4>2
    <3>7. size(k) <= full
      BY <3>3 DEF k
    <3> HIDE DEF size, full
    <3> QED BY <1>4, <2>3, <3>5, <3>6, <3>7
  <2> QED BY <2>4, <2>5
<1> QED
  <2> SUFFICES ASSUME NEW k \in 1..n PROVE size(k) <= full
    OBVIOUS
  <2>1. n - k \in Nat /\ n - k < n /\ n - (n - k) = k
    BY <1>1
  <2>2. n - k \notin Wrong
    BY <1>6
  <2> HIDE DEF size
  <2> QED BY <2>1, <2>2

\* What is written next, and that it fits.
LEMMA NextWritten ==
  ASSUME IInv, Shape, Writer, NothingMissing, WrittenPart, pc \in WritePC
  PROVE  /\ Complete(tree)
         /\ pc = "write_value" =>
              /\ Made(at + 1) = text \o Written(tree[at + 1].item)
              /\ Written(tree[at + 1].item) \in Seq(Character)
         /\ pc = "write_key" =>
              /\ text \o Quoted(tree[at + 1].key) \o <<":">> =
                   Made(at) \o Between(tree, at + 1, <<>>)
                            \o Quoted(tree[at + 1].key) \o <<":">>
              /\ text \o Quoted(tree[at + 1].key) \o <<":">> \in Seq(Character)
              /\ Quoted(tree[at + 1].key) \in Seq(Character)
              /\ Made(at + 1) = text \o Quoted(tree[at + 1].key) \o <<":">>
                                  \o Written(tree[at + 1].item)
              /\ Written(tree[at + 1].item) \in Seq(Character)
<1>1. /\ tree \in Seq(Node) /\ at \in Nat /\ tree # <<>> /\ Shaped(tree, {})
      /\ text \in Seq(Character)
      /\ pc \in {"write_value", "write_key"} =>
           at + 1 \in 1..Len(tree) /\ (at = 0 \/ at \in 1..Len(tree))
  BY AtWriting
<1>2. Complete(tree)
  BY <1>1, ShapedComplete
<1>3. ASSUME pc \in {"write_value", "write_key"}
      PROVE  /\ at + 1 \in 1..Len(tree) /\ at + 1 - 1 = at
             /\ at = 0 <=> at + 1 = 1
             /\ Written(tree[at + 1].item) \in Seq(Character)
             /\ Quoted(tree[at + 1].key) \in Seq(Character)
  <2>1. at + 1 \in 1..Len(tree) /\ at + 1 - 1 = at /\ (at = 0 <=> at + 1 = 1)
    BY <1>1, <1>3
  <2>2. <<>> \in Spaces
    BY DEF Spaces
  <2> QED BY <1>2, <2>1, <2>2, PieceIs
<1>4. ASSUME pc = "write_value"
      PROVE  Made(at + 1) = text \o Written(tree[at + 1].item)
  <2>1. /\ at + 1 \in 1..Len(tree) /\ at + 1 - 1 = at /\ (at = 0 <=> at + 1 = 1)
        /\ Written(tree[at + 1].item) \in Seq(Character)
    BY <1>3, <1>4
  <2>2. text = IF at = 0 THEN <<>>
               ELSE Made(at) \o Between(tree, at + 1, <<>>)
                      \o Quoted(tree[at + 1].key) \o <<":">>
    BY <1>4 DEF WrittenPart
  <2>3. CASE at = 0
    <3>1. Made(1) = Made(0) \o Piece(tree, 1, <<>>) /\ Made(0) = <<>>
      <4>1. 1 \in 1..Len(tree) /\ 1 - 1 = 0
        BY <2>1, <2>3
      <4> QED BY <1>2, <4>1, TextMade
    <3>2. Piece(tree, 1, <<>>) = Written(tree[1].item)
      BY DEF Piece
    <3>3. at + 1 = 1 /\ text = <<>>
      BY <2>2, <2>3
    <3> QED BY <2>1, <3>1, <3>2, <3>3
  <2>4. CASE at # 0
    <3>1. at + 1 # 1
      BY <2>1, <2>4
    <3> DEFINE i == at + 1
    <3>2. i \in 1..Len(tree) /\ i # 1 /\ i - 1 = at
      BY <1>1, <2>1, <3>1
    <3>3. text = Made(at) \o Between(tree, i, <<>>) \o Quoted(tree[i].key) \o <<":">>
      BY <2>2, <2>4
    <3> HIDE DEF i
    <3>4. Made(i) = Made(i - 1) \o Between(tree, i, <<>>) \o Quoted(tree[i].key)
                      \o <<":">> \o Written(tree[i].item)
      BY <1>2, <3>2, MadeMore
    <3>5. Made(i) = text \o Written(tree[i].item)
      BY <3>2, <3>3, <3>4
    <3> QED BY <3>5 DEF i
  <2> QED BY <2>3, <2>4
<1>5. ASSUME pc = "write_key"
      PROVE  /\ text \o Quoted(tree[at + 1].key) \o <<":">> =
                  Made(at) \o Between(tree, at + 1, <<>>)
                           \o Quoted(tree[at + 1].key) \o <<":">>
             /\ text \o Quoted(tree[at + 1].key) \o <<":">> \in Seq(Character)
             /\ Made(at + 1) = text \o Quoted(tree[at + 1].key) \o <<":">>
                                 \o Written(tree[at + 1].item)
  <2>1. /\ at + 1 \in 1..Len(tree) /\ at + 1 - 1 = at /\ (at = 0 <=> at + 1 = 1)
    BY <1>3, <1>5
  <2>2. text = Made(at) \o Between(tree, at + 1, <<>>) /\ at > 0
    BY <1>5 DEF WrittenPart, Writer
  <2>3. at + 1 # 1
    BY <2>1, <2>2
  <2> DEFINE i == at + 1
  <2>4. i \in 1..Len(tree) /\ i # 1 /\ i - 1 = at
    BY <1>1, <2>1, <2>3
  <2>5. text = Made(at) \o Between(tree, i, <<>>)
    BY <2>2
  <2> HIDE DEF i
  <2>6. /\ Made(i) = Made(i - 1) \o Between(tree, i, <<>>) \o Quoted(tree[i].key)
                      \o <<":">> \o Written(tree[i].item)
        /\ Made(i - 1) \o Between(tree, i, <<>>) \o Quoted(tree[i].key) \o <<":">>
             \in Seq(Character)
    BY <1>2, <2>4, MadeMore
  <2>7. /\ text \o Quoted(tree[i].key) \o <<":">> =
             Made(at) \o Between(tree, i, <<>>) \o Quoted(tree[i].key) \o <<":">>
        /\ text \o Quoted(tree[i].key) \o <<":">> \in Seq(Character)
        /\ Made(i) = text \o Quoted(tree[i].key) \o <<":">> \o Written(tree[i].item)
    BY <2>4, <2>5, <2>6
  <2> QED BY <2>7 DEF i
<1> QED BY <1>2, <1>3, <1>4, <1>5

\* What is written ends the objects that are no longer open.
LEMMA EndsWritten ==
  ASSUME IInv, Shape, Writer, NothingMissing, WrittenPart,
         pc \in {"write_next", "write_end"}
  PROVE  /\ Complete(tree) /\ at \in 1..Len(tree) /\ at \in Nat
         /\ Level(tree, at) \in Nat /\ Len(open) \in Nat
         /\ Level(tree, at) - Len(open) \in Nat /\ Len(open) > 0
         /\ Made(at) \in Seq(Character)
         /\ text = Made(at) \o Closing(Level(tree, at) - Len(open))
         /\ Closing(Level(tree, at) - Len(open)) \in Seq(Character)
         /\ Len(text) = Len(Made(at)) + (Level(tree, at) - Len(open))
         /\ Len(Made(at)) \in Nat
<1>1. /\ tree \in Seq(Node) /\ at \in Nat /\ tree # <<>> /\ Shaped(tree, {})
      /\ at \in 1..Len(tree) /\ Len(open) > 0 /\ Len(open) \in Nat
  BY PCs, AtWriting
<1>2. Complete(tree)
  BY <1>1, ShapedComplete
<1>3. Level(tree, at) \in Nat /\ Len(open) \in 1..Level(tree, at)
  BY <1>1, LevelType DEF Writer, NextIs
<1> DEFINE n == Level(tree, at) - Len(open)
<1>4. n \in Nat
  BY <1>1, <1>3
<1>5. text = Made(at) \o Closing(n)
  BY DEF WrittenPart
<1>6. Made(at) \in Seq(Character)
  <2>1. at \in 0..Len(tree)
    BY <1>1
  <2> QED BY <1>2, <2>1, TextMade
<1>7. Closing(n) \in Seq(Character) /\ Len(Closing(n)) = n
  BY <1>4, ClosingType
<1> HIDE DEF n
<1> DEFINE m == Made(at)
           c == Closing(n)
<1>8. m \in Seq(Character) /\ c \in Seq(Character)
  BY <1>6, <1>7
<1> HIDE DEF m, c
<1>9. Len(m \o c) = Len(m) + Len(c) /\ Len(m) \in Nat
  BY <1>8, Joins
<1>10. Len(text) = Len(Made(at)) + n /\ Len(Made(at)) \in Nat
  BY <1>5, <1>7, <1>9 DEF m, c
<1> QED BY <1>1, <1>2, <1>3, <1>4, <1>5, <1>6, <1>7, <1>10 DEF n

LEMMA FittingWriteValue ==
  ASSUME IInv, Shape, Writer, NothingMissing, WrittenPart, WriteValue
  PROVE  WrittenPart'
<1> DEFINE w == Written(tree[at + 1].item)
           full == Len(Text(tree, <<>>))
<1>1. pc = "write_value" /\ pc \in WritePC /\ tree' = tree /\ room' = room
  BY PCs DEF WriteValue
<1>2. /\ tree \in Seq(Node) /\ open \in Seq(Nat) /\ at \in Nat /\ room \in Nat
      /\ text \in Seq(Character) /\ tree # <<>> /\ Shaped(tree, {})
      /\ Len(open) \in Nat /\ at + 1 \in 1..Len(tree)
  BY <1>1, AtWriting
<1>13. at \in Nat /\ at + 1 \in Nat /\ at + 1 >= 1 /\ Len(tree) \in Nat
  BY <1>2
<1>3. Complete(tree) /\ Made(at + 1) = text \o w /\ w \in Seq(Character)
  BY <1>1, NextWritten
<1>4. /\ tree[at + 1].depth \in Nat /\ Len(open) = tree[at + 1].depth
      /\ Level(tree, at + 1) = IF tree[at + 1].item = Object
                                 THEN tree[at + 1].depth + 1 ELSE tree[at + 1].depth
  BY <1>1, <1>2, ShapedIs DEF Writer
<1>5. /\ Len(text \o w) = Len(text) + Len(w) /\ Len(text) \in Nat /\ Len(w) \in Nat
      /\ text \o w \in Seq(Character)
  <2> HIDE DEF w
  <2> QED BY <1>2, <1>3, Joins
<1>6. Len(text \o w) + Level(tree, at + 1) <= full /\ full \in Nat
  <2>1. Len(Made(at + 1)) + Level(tree, at + 1) <= full
    BY <1>2, <1>3, MadeFits
  <2>2. <<>> \in Spaces
    BY DEF Spaces
  <2>3. Text(tree, <<>>) \in Seq(Character)
    BY <1>3, <2>2, TextType
  <2> QED BY <1>3, <2>1, <2>3
<1>7. tree[at + 1].item = Object => w = <<"{">> /\ Len(w) = 1
  <2> SUFFICES ASSUME tree[at + 1].item = Object PROVE w = <<"{">> /\ Len(w) = 1
    OBVIOUS
  <2> DEFINE x == tree[at + 1].item
  <2>1. x.type = "object"
    BY DEF Object
  <2> HIDE DEF x
  <2>2. Written(x) = <<"{">>
    BY <2>1 DEF Written
  <2>3. Len(<<"{">>) = 1
    OBVIOUS
  <2> QED BY <2>2, <2>3 DEF x
<1>8. Text(tree, <<>>)' = Text(tree, <<>>) /\ \A k : Made(k)' = Made(k)
  BY <1>1 DEF Made
<1>9. CASE pc' = "too_long"
  <2>1. \/ ~Room(text, 0)
        \/ tree[at + 1].item = Object /\ ~Room(text, 2)
        \/ ~Room(text \o w, 0)
    BY <1>9 DEF WriteValue
  <2> HIDE DEF w, full
  <2>2. full >= room
    <3> DEFINE more == Level(tree, at + 1)
    <3>1. more \in Nat
      BY <1>4
    <3>2. Len(text) + Len(w) + more <= full
      BY <1>5, <1>6
    <3>3. CASE ~Room(text, 0)
      BY <1>2, <1>5, <1>6, <3>1, <3>2, <3>3 DEF Room
    <3>4. CASE tree[at + 1].item = Object /\ ~Room(text, 2)
      <4>1. more >= 1 /\ Len(w) = 1
        <5>1. tree[at + 1].item = Object
          BY <3>4
        <5>2. more = tree[at + 1].depth + 1 /\ tree[at + 1].depth \in Nat
          BY <1>4, <5>1
        <5> HIDE DEF more
        <5>3. Len(w) = 1
          BY <1>7, <5>1, Zenon
        <5> QED BY <5>2, <5>3
      <4> HIDE DEF more
      <4>2. ~(Len(text) + 2 < room)
        BY <3>4 DEF Room
      <4> QED BY <1>2, <1>5, <1>6, <3>1, <3>2, <4>1, <4>2
    <3>5. CASE ~Room(text \o w, 0)
      <4>1. ~(Len(text \o w) + 0 < room)
        BY <3>5 DEF Room
      <4> HIDE DEF more
      <4> QED BY <1>2, <1>5, <1>6, <3>1, <3>2, <4>1
    <3> QED BY <2>1, <3>3, <3>4, <3>5
  <2> QED BY <1>1, <1>8, <1>9, <2>2 DEF WrittenPart, full
<1>10. CASE pc' = "crashed"
  BY <1>10 DEF WrittenPart
<1>11. CASE /\ tree[at + 1].item = Object /\ Room(text, 2)
            /\ text' = text \o <<"{">> /\ at' = at + 1 /\ open' = Append(open, at')
            /\ pc' = IF HasPairs(tree, at') THEN "write_key" ELSE "write_end"
  <2>6. at' \in Nat /\ at' >= 1
    <3>1. at' = at + 1
      BY <1>11
    <3> QED BY <1>13, <3>1
  <2>1. text' = Made(at') /\ text' \in Seq(Character) /\ Len(text') = Len(text) + 1
    BY <1>3, <1>5, <1>7, <1>11
  <2>2. Len(text') + 1 < room
    <3>1. Len(text) + 2 < room
      BY <1>11 DEF Room
    <3> QED BY <1>2, <1>5, <2>1, <3>1
  <2>3. text' = Made(at') \o <<>>
    <3> DEFINE m == Made(at')
    <3>1. m \in Seq(Character)
      BY <2>1
    <3> HIDE DEF m
    <3>2. m \o <<>> = m
      BY <3>1, Joins
    <3> QED BY <2>1, <3>2 DEF m
  <2>4. CASE HasPairs(tree, at') /\ pc' = "write_key"
    <3> DEFINE i == at + 1 + 1
    <3>5. at' = at + 1
      BY <1>11
    <3>1. i \in 1..Len(tree) /\ i # 1 /\ i - 1 = at'
      <4>1. at + 1 < Len(tree)
        BY <2>4, <3>5 DEF HasPairs
      <4>2. i \in 1..Len(tree) /\ i # 1 /\ i - 1 = at + 1
        BY <1>13, <4>1
      <4> HIDE DEF i
      <4> QED BY <3>5, <4>2
    <3>6. i = at' + 1
      BY <3>5
    <3> HIDE DEF i
    <3>2. <<>> \in Spaces
      BY DEF Spaces
    <3>3. Between(tree, i, <<>>) = <<>>
      BY <1>3, <2>4, <3>1, <3>2, PieceIs
    <3>4. text' = Made(at') \o Between(tree, at' + 1, <<>>)
      BY <2>3, <3>3, <3>6
    <3> QED BY <1>1, <1>8, <2>4, <3>4 DEF WrittenPart, Made
  <2>5. CASE pc' = "write_end"
    <3>1. Level(tree, at') - Len(open') = 0
      <4>1. Len(open') = Len(open) + 1
        <5>1. open' = Append(open, at')
          BY <1>11
        <5>2. open \in Seq(Nat)
          BY <1>2
        <5> QED BY <2>6, <5>1, <5>2, AppendIs
      <4>2. Level(tree, at') = Len(open) + 1
        BY <1>4, <1>11
      <4> QED BY <1>2, <4>1, <4>2
    <3>2. text' = Made(at') \o Closing(Level(tree, at') - Len(open'))
      BY <2>3, <3>1, ClosingNone
    <3> QED BY <1>1, <2>2, <2>5, <3>2 DEF WrittenPart, Made
  <2> QED BY <1>11, <2>4, <2>5
<1>12. CASE /\ tree[at + 1].item # Object /\ Room(text \o w, 0)
            /\ text' = text \o w /\ at' = at + 1 /\ open' = open /\ pc' = "write_next"
  <2>1. text' = Made(at') /\ text' \in Seq(Character)
    BY <1>3, <1>5, <1>12
  <2>2. Len(text') < room
    <3>1. Len(text \o w) + 0 < room
      BY <1>12 DEF Room
    <3> QED BY <1>5, <1>12, <3>1
  <2>3. text' = Made(at') \o <<>>
    <3> DEFINE m == Made(at')
    <3>1. m \in Seq(Character)
      BY <2>1
    <3> HIDE DEF m
    <3>2. m \o <<>> = m
      BY <3>1, Joins
    <3> QED BY <2>1, <3>2 DEF m
  <2>4. Level(tree, at') - Len(open') = 0
    BY <1>2, <1>4, <1>12
  <2>5. text' = Made(at') \o Closing(Level(tree, at') - Len(open'))
    BY <2>3, <2>4, ClosingNone
  <2> QED BY <1>1, <1>12, <2>2, <2>5 DEF WrittenPart, Made
<1> QED BY <1>9, <1>10, <1>11, <1>12 DEF WriteValue, TooLong, Writes

LEMMA FullSize ==
  ASSUME Complete(tree)
  PROVE  Len(Text(tree, <<>>)) \in Nat
<1>1. <<>> \in Spaces
  BY DEF Spaces
<1>2. Text(tree, <<>>) \in Seq(Character)
  BY <1>1, TextType
<1> QED BY <1>2

LEMMA FittingWriteKey ==
  ASSUME IInv, Shape, Writer, NothingMissing, WrittenPart, WriteKey
  PROVE  WrittenPart'
<1> DEFINE q == Quoted(tree[at + 1].key)
           w == Written(tree[at + 1].item)
           c == <<":">>
           full == Len(Text(tree, <<>>))
<1>1. pc = "write_key" /\ pc \in WritePC /\ tree' = tree /\ room' = room
  BY PCs DEF WriteKey
<1>2. /\ tree \in Seq(Node) /\ room \in Nat /\ at \in Nat
      /\ text \in Seq(Character) /\ tree # <<>> /\ Shaped(tree, {})
      /\ at + 1 \in 1..Len(tree)
  BY <1>1, AtWriting
<1>3. /\ Complete(tree)
      /\ text \o q \o c = Made(at) \o Between(tree, at + 1, <<>>) \o q \o c
      /\ text \o q \o c \in Seq(Character)
      /\ q \in Seq(Character) /\ w \in Seq(Character)
      /\ Made(at + 1) = text \o q \o c \o w
  BY <1>1, NextWritten
<1>4. c \in Seq(Character) /\ Len(c) = 1
  BY MarkType
<1>5. Text(tree, <<>>)' = Text(tree, <<>>) /\ \A k : Made(k)' = Made(k)
  BY <1>1 DEF Made
<1>6. at > 0
  BY <1>1 DEF Writer
<1>7. CASE pc' = "too_long"
  <2>1. ~Room(text \o q, 1)
    BY <1>7 DEF WriteKey
  <2>2. Len(Made(at + 1)) + Level(tree, at + 1) <= full /\ full \in Nat
    BY <1>2, <1>3, MadeFits, FullSize
  <2>3. Level(tree, at + 1) \in Nat
    BY <1>2, LevelType
  <2> HIDE DEF q, w, c, full
  <2>4. text \o q \in Seq(Character) /\ Len(text \o q) \in Nat
    BY <1>2, <1>3, Joins
  <2> DEFINE tq == text \o q
  <2> HIDE DEF tq
  <2>5. Len(tq \o c) = Len(tq) + 1 /\ Len(tq) \in Nat /\ tq \o c \in Seq(Character)
    <3>1. tq \in Seq(Character)
      BY <2>4 DEF tq
    <3>2. c \in Seq(Character)
      BY <1>4 DEF c
    <3>3. Len(tq \o c) = Len(tq) + Len(c) /\ Len(tq) \in Nat /\ tq \o c \in Seq(Character)
      BY ONLY <3>1, <3>2, Joins
    <3>4. Len(c) = 1
      BY <1>4 DEF c
    <3> QED BY <3>3, <3>4
  <2> DEFINE tqc == tq \o c
  <2> HIDE DEF tqc
  <2>6. Len(tqc \o w) = Len(tqc) + Len(w) /\ Len(w) \in Nat
    BY <1>3, <2>5, Joins DEF tqc
  <2>7. Len(Made(at + 1)) = Len(tq) + 1 + Len(w)
    BY <1>3, <2>5, <2>6 DEF tq, tqc
  <2>8. ~(Len(tq) + 1 < room)
    BY <2>1 DEF Room, tq
  <2>9. full >= room
    BY <1>2, <2>2, <2>3, <2>5, <2>6, <2>7, <2>8
  <2> QED BY <1>1, <1>5, <1>7, <2>9 DEF WrittenPart, full
<1>8. CASE text' = text \o (q \o c) /\ pc' = "write_value" /\ at' = at
  <2> HIDE DEF q, c
  <2>a. text \in Seq(Character)
    BY <1>2
  <2>b. q \in Seq(Character)
    BY <1>3
  <2>c. c \in Seq(Character)
    BY <1>4
  <2>1. (text \o q) \o c = text \o (q \o c)
    BY ONLY <2>a, <2>b, <2>c, Associative
  <2>2. text' = Made(at) \o Between(tree, at + 1, <<>>) \o q \o c /\ at # 0
    <3>1. text' = (text \o q) \o c
      BY <1>8, <2>1
    <3>2. at # 0
      BY <1>2, <1>6
    <3> QED BY <1>3, <3>1, <3>2
  <2>3. text' = IF at' = 0 THEN <<>>
                ELSE Made(at') \o Between(tree, at' + 1, <<>>)
                       \o Quoted(tree[at' + 1].key) \o <<":">>
    BY <1>8, <2>2 DEF q, c
  <2> QED BY <1>1, <1>8, <2>3 DEF WrittenPart, Made
<1> QED BY <1>7, <1>8 DEF WriteKey, TooLong, Writes

LEMMA FittingWriteNext ==
  ASSUME IInv, Shape, Writer, NothingMissing, WrittenPart, WriteNext
  PROVE  WrittenPart'
<1> DEFINE n == Level(tree, at) - Len(open)
           full == Len(Text(tree, <<>>))
<1>1. pc = "write_next" /\ tree' = tree /\ room' = room
  BY DEF WriteNext
<1>2. /\ Complete(tree) /\ at \in 1..Len(tree) /\ at \in Nat
      /\ Level(tree, at) \in Nat /\ Len(open) \in Nat /\ n \in Nat /\ Len(open) > 0
      /\ Made(at) \in Seq(Character)
      /\ text = Made(at) \o Closing(n) /\ Closing(n) \in Seq(Character)
      /\ Len(text) = Len(Made(at)) + n /\ Len(Made(at)) \in Nat
  BY <1>1, EndsWritten
<1>3. Text(tree, <<>>)' = Text(tree, <<>>) /\ \A k : Made(k)' = Made(k)
  BY <1>1 DEF Made
<1>4. room \in Nat
  BY DEF IInv, TypeOK
<1>5. CASE pc' = "too_long"
  <2>1. ~(Len(text) + 1 < room)
    BY <1>5 DEF WriteNext, Room
  <2>2. Len(Made(at)) + Level(tree, at) <= full /\ full \in Nat
    BY <1>2, MadeFits, FullSize
  <2> HIDE DEF full
  <2>3. full >= room
    BY <1>2, <1>4, <2>1, <2>2
  <2> QED BY <1>1, <1>3, <1>5, <2>3 DEF WrittenPart, full
<1>6. CASE pc' = "write_key" /\ Coming(tree) /\ text' = text \o <<",">>
           /\ at' = at /\ open' = open
  <2> DEFINE i == at + 1
             m == Made(at)
             c == Closing(n)
             f == <<",">>
  <2>1. at < Len(tree) /\ tree[i].depth = Len(open) /\ Len(tree) \in Nat
    BY <1>2, <1>6, TextMade DEF Coming
  <2>2. i \in 1..Len(tree) /\ i # 1 /\ i - 1 = at
    BY <1>2, <2>1
  <2>3. ~HasPairs(tree, i - 1)
    BY <1>1, <2>2 DEF Writer, NextIs
  <2>4. <<>> \in Spaces
    BY DEF Spaces
  <2>5. Between(tree, i, <<>>) = Closing(Level(tree, i - 1) - tree[i].depth)
                                   \o (<<",">> \o <<>>)
    <3> HIDE DEF i
    <3> QED BY <1>2, <2>2, <2>3, <2>4, PieceIs
  <2>6. f \in Seq(Character)
    BY MarkType
  <2>7. m \in Seq(Character)
    BY <1>2
  <2>8. c \in Seq(Character)
    BY <1>2
  <2> HIDE DEF i
  <2>9. Between(tree, i, <<>>) = c \o (f \o <<>>)
    BY <2>1, <2>2, <2>5
  <2> HIDE DEF m, c, f, n
  <2>10. f \o <<>> = f
    BY <2>6, Joins
  <2>11. (m \o c) \o f = m \o (c \o f)
    BY ONLY <2>6, <2>7, <2>8, Associative
  <2>12. text' = m \o Between(tree, i, <<>>)
    BY <1>2, <1>6, <2>9, <2>10, <2>11 DEF m, c, f
  <2>13. text' = Made(at') \o Between(tree, at' + 1, <<>>)
    BY <1>6, <2>12 DEF m, i
  <2> QED BY <1>1, <1>6, <2>13 DEF WrittenPart, Made
<1>7. CASE pc' = "write_end" /\ text' = text /\ at' = at /\ open' = open /\ Room(text, 1)
  <2>1. Len(text') + 1 < room
    BY <1>7 DEF Room
  <2>2. text' = Made(at') \o Closing(Level(tree, at') - Len(open'))
    BY <1>2, <1>7
  <2> QED BY <1>1, <1>7, <2>1, <2>2 DEF WrittenPart, Made
<1> QED BY <1>5, <1>6, <1>7 DEF WriteNext, TooLong, Writes

LEMMA FittingWriteEnd ==
  ASSUME IInv, Shape, Writer, Writer', NothingMissing, WrittenPart, WriteEnd
  PROVE  WrittenPart'
<1> DEFINE n == Level(tree, at) - Len(open)
<1>1. /\ pc = "write_end" /\ tree' = tree /\ room' = room /\ at' = at
      /\ text' = text \o <<"}">> /\ open' = Front(open)
      /\ pc' = IF Len(open) = 1 THEN "written" ELSE "write_next"
  BY DEF WriteEnd, Writes, reading
<1>2. /\ Complete(tree) /\ at \in 1..Len(tree) /\ at \in Nat
      /\ Level(tree, at) \in Nat /\ Len(open) \in Nat /\ n \in Nat /\ Len(open) > 0
      /\ Made(at) \in Seq(Character)
      /\ text = Made(at) \o Closing(n) /\ Closing(n) \in Seq(Character)
      /\ Len(text) = Len(Made(at)) + n /\ Len(Made(at)) \in Nat
  BY <1>1, EndsWritten
<1>3. Text(tree, <<>>)' = Text(tree, <<>>) /\ \A k : Made(k)' = Made(k)
  BY <1>1 DEF Made
<1>4. room \in Nat /\ open \in Seq(Nat) /\ text \in Seq(Character)
  BY DEF IInv, TypeOK
<1>5. Len(open') = Len(open) - 1
  <2>1. open # <<>>
    <3> SUFFICES ASSUME open = <<>> PROVE FALSE
      OBVIOUS
    <3>1. Len(open) = 0
      OBVIOUS
    <3> QED BY <1>2, <3>1
  <2> QED BY <1>1, <1>4, <2>1, FrontIs
<1>6. Level(tree, at) - Len(open') = n + 1
  BY <1>2, <1>5
<1> HIDE DEF n
<1>7. text' = Made(at) \o Closing(n + 1)
  <2> DEFINE m == Made(at)
             c == Closing(n)
             f == <<"}">>
  <2>1. f \in Seq(Character)
    BY MarkType
  <2>2. m \in Seq(Character)
    BY <1>2
  <2>3. c \in Seq(Character)
    BY <1>2
  <2> HIDE DEF m, c, f
  <2>4. (m \o c) \o f = m \o (c \o f)
    BY ONLY <2>1, <2>2, <2>3, Associative
  <2>5. text' = (m \o c) \o f
    BY <1>1, <1>2 DEF m, c, f
  <2>6. c \o f = Closing(n + 1)
    BY <1>2, ClosingMore DEF c, f
  <2> QED BY <2>4, <2>5, <2>6 DEF m
<1>8. Len(text') < room
  <2>1. Len(text) + 1 < room
    BY <1>1 DEF WrittenPart
  <2> DEFINE f == <<"}">>
  <2>2. f \in Seq(Character) /\ Len(f) = 1
    BY MarkType
  <2> HIDE DEF f
  <2>5. text \in Seq(Character)
    BY <1>4
  <2>3. Len(text \o f) = Len(text) + 1
    <3>1. Len(text \o f) = Len(text) + Len(f)
      BY <2>2, <2>5, Joins
    <3> QED BY <2>2, <3>1
  <2>4. Len(text') = Len(text) + 1
    BY <1>1, <2>3 DEF f
  <2> QED BY <2>1, <2>4
<1>9. CASE Len(open) = 1
  <2>1. pc' = "written" /\ at = Len(tree)
    BY <1>1, <1>9 DEF Writer
  <2>2. n + 1 = Level(tree, Len(tree))
    BY <1>2, <1>5, <1>6, <1>9, <2>1
  <2>3. text' = Text(tree, <<>>)
    BY <1>2, <1>7, <2>1, <2>2, TextMade
  <2> QED BY <1>1, <1>3, <1>8, <2>1, <2>3 DEF WrittenPart
<1>10. CASE Len(open) # 1
  <2>1. text' = Made(at') \o Closing(Level(tree, at') - Len(open'))
    BY <1>1, <1>6, <1>7
  <2> QED BY <1>1, <1>8, <1>10, <2>1 DEF WrittenPart, Made
<1> QED BY <1>9, <1>10

LEMMA FitWriting ==
  ASSUME IInv, FitInv, Writing
  PROVE  FitInv'
<1>1. Shape' /\ Writer' /\ Reached'
  BY ShapeWriting, WriterWriting, ReachedWriting DEF FitInv
<1>2. NothingMissing' = NothingMissing
  <2>1. tree' = tree
    BY DEF Writing, Serialize, WriteValue, WriteKey, WriteNext, WriteEnd
  <2> QED BY <2>1 DEF NothingMissing
<1>3. ASSUME NothingMissing PROVE WrittenPart'
  <2>1. WrittenPart
    BY <1>3 DEF FitInv, Fitting
  <2>2. CASE Serialize
    <3>1. pc' = "write_value" /\ at' = 0 /\ text' = text /\ pc = "built"
      BY <2>2 DEF Serialize
    <3>2. text = <<>>
      BY <3>1 DEF FitInv, Shape
    <3> QED BY <3>1, <3>2 DEF WrittenPart
  <2> QED BY <1>1, <1>3, <2>1, <2>2, FittingWriteValue, FittingWriteKey,
             FittingWriteNext, FittingWriteEnd DEF FitInv, Writing
<1> QED BY <1>1, <1>2, <1>3 DEF FitInv, Fitting

LEMMA FitNext ==
  ASSUME IInv, FitInv, [Next]_vars
  PROVE  FitInv'
<1>1. ASSUME Shape', pc' \notin WritePC \cup {"written", "too_long"} PROVE FitInv'
  BY <1>1, PCs DEF FitInv, Writer, Reached, Fitting, WrittenPart
<1>2. ASSUME pc' \notin WritePC \cup BuildPC \cup {"built", "written", "too_long"}
      PROVE  FitInv'
  <2>1. Shape'
    BY <1>2, PCs DEF Shape, SerialPC
  <2> QED BY <1>1, <1>2, <2>1
<1>3. CASE Building
  <2>1. Shape'
    BY <1>3, ShapeCreate, ShapeCreated, ShapeAttach DEF FitInv, Building
  <2>2. pc' \in {"create", "attach", "built", "crashed"}
    BY <1>3 DEF Building, Create, Created, Attach
  <2> QED BY <1>1, <2>1, <2>2, PCs
<1>4. CASE Writing
  BY <1>4, FitWriting
<1>5. CASE Sending \/ Release
  <2>1. pc' \in {"sent", "cut", "object", "released"}
    BY <1>5 DEF Sending, ClientSends, OtherSends, Cut, Parse, Release
  <2> QED BY <1>2, <2>1, PCs
<1>6. CASE Parsing
  <2>1. pc' \in ParsePC \cup {"parsed", "refused", "crashed"}
    <3>1. ParseString \/ StringGoesOn => pc' \in ParsePC
      BY PCs DEF ParseString, StringBegins, StringWrong, StringLost, ValueFound, StringGoesOn
    <3>2. NumberBegins \/ DigitGoesOn \/ NumberEnds \/ ParseBoolean => pc' \in ParsePC
      BY PCs DEF NumberBegins, DigitGoesOn, NumberEnds, ValueFound, NotFound, ParseBoolean
    <3>3. ParseObject \/ NoValue \/ Out \/ ObjectEnds =>
            pc' \in ParsePC \cup {"parsed", "refused", "crashed"}
      BY PCs DEF ParseObject, ReturnsNull, NoValue, Out, ObjectEnds
    <3>4. ParseKey \/ Push => pc' \in ParsePC \cup {"parsed", "refused", "crashed"}
      BY PCs DEF ParseKey, StringBegins, StringWrong, StringLost, Push
    <3> QED BY <1>6, <3>1, <3>2, <3>3, <3>4 DEF Parsing
  <2> QED BY <1>2, <2>1, PCs
<1>7. CASE UNCHANGED vars
  <2>1. UNCHANGED <<pc, tree, open, at, text, room>>
    BY <1>7 DEF vars, reading
  <2> QED BY <2>1 DEF FitInv, Shape, Writer, NextIs, Reached, Fitting, WrittenPart,
                      NothingMissing, Made
<1> QED BY <1>3, <1>4, <1>5, <1>6, <1>7 DEF Next

\* json_serialize fails exactly when the text and its zero do not fit, and what it has
\* written is the text of the value, for values and buffers of every size.
THEOREM FitsExactlyHolds == Spec => []FitsExactly
<1>1. Init => FitInv
  <2> SUFFICES ASSUME Init PROVE FitInv
    OBVIOUS
  <2>1. Shape /\ pc = "create"
    BY ShapeInit DEF Init
  <2> QED BY <2>1, PCs DEF FitInv, Writer, Reached, Fitting, WrittenPart
<1>2. IInv /\ FitInv /\ [Next]_vars => FitInv'
  BY FitNext
<1>3. FitInv /\ TypeOK => FitsExactly
  <2> SUFFICES ASSUME FitInv, TypeOK PROVE FitsExactly
    OBVIOUS
  <2>1. ASSUME pc = "written" PROVE text = Text(tree, <<>>) /\ Len(text) < room
    <3>1. NothingMissing
      <4>1. at = Len(tree) /\ \A i \in 1..at : tree[i].item # Nothing
        BY <2>1 DEF FitInv, Writer, Reached
      <4> QED BY <4>1 DEF NothingMissing
    <3> QED BY <2>1, <3>1 DEF FitInv, Fitting, WrittenPart
  <2>2. ASSUME pc = "too_long", \A i \in 1..Len(tree) : tree[i].item # Nothing
        PROVE  Len(Text(tree, <<>>)) >= room
    BY <2>2 DEF FitInv, Fitting, WrittenPart, NothingMissing
  <2> QED BY <2>1, <2>2 DEF FitsExactly
<1> QED BY <1>1, <1>2, <1>3, Invariance, TypeCorrect, PTL DEF Spec
=============================================================================
