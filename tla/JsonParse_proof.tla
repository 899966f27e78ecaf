--------------------------- MODULE JsonParse_proof ---------------------------
(***************************************************************************)
(* Proofs about the parser of JsonText, for values of every size and depth *)
(* and for every base: what is parsed of a value's text is that value, and *)
(* nothing of a text that stops short is accepted.  The invariant says,    *)
(* for every place of the program, where in the value's text the parser is *)
(* and which of its nodes it has made; while no allocation has failed and  *)
(* the text goes on, that is the one way the parser can go.                *)
(***************************************************************************)
EXTENDS JsonText_proof

-----------------------------------------------------------------------------
(* Where a sequence stands in another. *)

\* In t, q begins behind the first p.
Stands(t, p, q) == /\ p \in Nat /\ p + Len(q) <= Len(t)
                   /\ \A j \in 1..Len(q) : t[p + j] = q[j]

LEMMA JoinedParts ==
  ASSUME NEW S, NEW a \in Seq(S), NEW b \in Seq(S)
  PROVE  Stands(a \o b, 0, a) /\ Stands(a \o b, Len(a), b)
  BY DEF Stands

LEMMA StandsInside ==
  ASSUME NEW S, NEW t \in Seq(S), NEW q \in Seq(S), NEW a \in Seq(S), NEW p, NEW r,
         Stands(t, p, q), Stands(q, r, a)
  PROVE  Stands(t, p + r, a)
<1>1. p \in Nat /\ r \in Nat /\ p + r \in Nat
  BY DEF Stands
<1>2. p + r + Len(a) <= Len(t)
  BY <1>1 DEF Stands
<1>3. ASSUME NEW j \in 1..Len(a) PROVE t[p + r + j] = a[j]
  <2>1. r + j \in 1..Len(q) /\ q[r + j] = a[j]
    BY <1>1 DEF Stands
  <2>2. t[p + (r + j)] = q[r + j]
    BY <2>1 DEF Stands
  <2>3. p + (r + j) = p + r + j
    BY <1>1
  <2> QED BY <2>1, <2>2, <2>3
<1> QED BY <1>1, <1>2, <1>3 DEF Stands

LEMMA StandsParts ==
  ASSUME NEW S, NEW t \in Seq(S), NEW a \in Seq(S), NEW b \in Seq(S), NEW p,
         Stands(t, p, a \o b)
  PROVE  Stands(t, p, a) /\ Stands(t, p + Len(a), b)
<1> DEFINE ab == a \o b
<1>1. Stands(ab, 0, a) /\ Stands(ab, Len(a), b) /\ ab \in Seq(S)
  BY JoinedParts, Joins
<1>2. Stands(t, p, ab)
  OBVIOUS
<1> HIDE DEF ab
<1>3. Stands(t, p + 0, a)
  BY ONLY <1>1, <1>2, t \in Seq(S), a \in Seq(S), StandsInside
<1>4. Stands(t, p + Len(a), b)
  BY ONLY <1>1, <1>2, t \in Seq(S), b \in Seq(S), StandsInside
<1>5. p + 0 = p
  BY <1>2 DEF Stands
<1> QED BY <1>3, <1>4, <1>5

\* A piece stands behind those before it.
LEMMA PieceStands ==
  ASSUME NEW S, NEW p \in Seq(Seq(S)), NEW k \in 1..Len(p)
  PROVE  /\ Stands(FlattenSeq(p), Len(Joined(p, k - 1)), p[k])
         /\ Len(Joined(p, k)) = Len(Joined(p, k - 1)) + Len(p[k])
         /\ Len(Joined(p, k - 1)) \in Nat /\ Len(p[k]) \in Nat
<1> DEFINE n == Len(p)
           x == p[k]
           d == Len(Joined(p, k - 1))
           Wrong == {m \in k..n : ~Stands(Joined(p, m), d, x)}
<1>1. n \in Nat /\ k \in 1..n /\ k - 1 \in 0..n /\ k \in Nat
  OBVIOUS
<1>2. x \in Seq(S)
  OBVIOUS
<1>3. /\ \A m \in 0..n : Joined(p, m) \in Seq(S)
      /\ \A m \in 1..n : Joined(p, m) = Joined(p, m - 1) \o p[m]
      /\ FlattenSeq(p) = Joined(p, n)
  BY JoinedIs
<1>4. \A m \in 1..n : p[m] \in Seq(S)
  OBVIOUS
<1>5. Joined(p, k - 1) \in Seq(S) /\ Joined(p, k) = Joined(p, k - 1) \o x
  BY <1>1, <1>3
<1> DEFINE front == Joined(p, k - 1)
<1>6. Len(front \o x) = Len(front) + Len(x) /\ Len(front) \in Nat /\ Len(x) \in Nat
      /\ Stands(front \o x, Len(front), x)
  <2>1. front \in Seq(S)
    BY <1>5
  <2> HIDE DEF front, x
  <2> QED BY ONLY <2>1, <1>2, Joins, JoinedParts
<1>7. Stands(Joined(p, k), d, x)
  BY <1>5, <1>6
<1>8. ASSUME Wrong # {} PROVE FALSE
  <2>1. PICK m \in Wrong : \A j \in Wrong : m <= j
    <3>1. Wrong \subseteq Nat
      BY <1>1
    <3> HIDE DEF Wrong
    <3> QED BY <1>8, <3>1, LeastNumber
  <2> HIDE DEF n, x, d
  <2>2. m \in k..n /\ ~Stands(Joined(p, m), d, x)
    OBVIOUS
  <2>3. m # k
    BY <1>7, <2>2
  <2>4. m \in 1..n /\ m - 1 \in k..n /\ m - 1 \in 0..n /\ m - 1 < m
    BY <1>1, <2>2, <2>3
  <2>5. m - 1 \notin Wrong
    BY <2>1, <2>4
  <2>6. Stands(Joined(p, m - 1), d, x)
    BY <2>4, <2>5
  <2> DEFINE a == Joined(p, m - 1)
             b == p[m]
  <2>7. a \in Seq(S) /\ b \in Seq(S) /\ Joined(p, m) = a \o b
    BY <1>3, <1>4, <2>4
  <2> HIDE DEF a, b
  <2>8. Stands(a \o b, 0, a) /\ a \o b \in Seq(S)
    BY <2>7, JoinedParts, Joins
  <2> DEFINE ab == a \o b
  <2>9. Stands(ab, 0 + d, x)
    <3>1. Stands(a, d, x)
      BY <2>6 DEF a
    <3>2. Stands(ab, 0, a) /\ ab \in Seq(S)
      BY <2>8
    <3> HIDE DEF ab
    <3> QED BY ONLY <1>2, <2>7, <3>1, <3>2, StandsInside
  <2>10. 0 + d = d
    BY <2>6 DEF Stands
  <2> QED BY <2>2, <2>7, <2>9, <2>10
<1>9. n \notin Wrong /\ n \in k..n
  BY <1>1, <1>8
<1>10. Stands(Joined(p, n), d, x)
  BY <1>9
<1> QED BY <1>3, <1>5, <1>6, <1>10
-----------------------------------------------------------------------------
(* Where the parts of a value are in its text. *)

\* How far the text of the value goes with the first k nodes.
Done(space, k) == Len(Joined(Pieces(value, space), k))

\* Where the key and the item of the i-th node are.
KeyAt(space, i) == Done(space, i - 1) + Len(Between(value, i, space))

ItemAt(space, i) == Done(space, i) - Len(Written(value[i].item))

\* How many objects end between a node and the next.
Ends(i) == Level(value, i) - value[i + 1].depth

\* In the text of the value, q is at p.
IsAt(space, p, q) == Stands(Text(value, space), p, q)

LEMMA SpaceType ==
  ASSUME NEW space \in Spaces
  PROVE  space \in Seq(Character) /\ Len(space) \in Nat
<1>1. << >> \in Seq(Character)
  OBVIOUS
<1>2. <<" ">> \in Seq(Character)
  BY MarkType
<1> QED BY <1>1, <1>2 DEF Spaces

LEMMA PieceAt ==
  ASSUME Complete(value), NEW space \in Spaces, NEW i \in 1..Len(value)
  PROVE  /\ IsAt(space, Done(space, i - 1), Piece(value, i, space))
         /\ Done(space, i) = Done(space, i - 1) + Len(Piece(value, i, space))
         /\ Done(space, i - 1) \in Nat /\ Done(space, i) \in Nat
         /\ Piece(value, i, space) \in Seq(Character)
         /\ Text(value, space) \in Seq(Character)
<1> DEFINE p == Pieces(value, space)
           n == Len(value)
           x == Piece(value, i, space)
           back == Closing(Level(value, n))
<1>1. /\ p \in Seq(Seq(Character)) /\ Len(p) = n
      /\ Text(value, space) = Joined(p, n) \o back
      /\ Text(value, space) \in Seq(Character)
  BY TextType
<1>2. n \in Nat \ {0} /\ n \in 1..n /\ value \in Seq(Node)
  BY DEF Complete
<1>3. back \in Seq(Character)
  BY <1>2, LevelType, ClosingType
<1>4. p[i] = x /\ x \in Seq(Character)
  BY PieceType DEF Pieces
<1>5. Done(space, i) = Len(Joined(p, i)) /\ Done(space, i - 1) = Len(Joined(p, i - 1))
  BY DEF Done
<1> DEFINE front == FlattenSeq(p)
<1>6. front = Joined(p, n) /\ front \in Seq(Character)
  <2> HIDE DEF p, n
  <2>1. n \in 0..Len(p)
    BY <1>1, <1>2
  <2> QED BY <1>1, <2>1, JoinedIs
<1>7. i \in 1..Len(p)
  BY <1>1
<1> HIDE DEF p, n, x, back
<1>8. /\ Stands(front, Done(space, i - 1), x)
      /\ Done(space, i) = Done(space, i - 1) + Len(x)
      /\ Done(space, i - 1) \in Nat /\ Len(x) \in Nat
  BY <1>1, <1>4, <1>5, <1>7, PieceStands
<1> HIDE DEF front
<1>9. Stands(Text(value, space), 0, front)
  BY <1>1, <1>3, <1>6, JoinedParts
<1> DEFINE t == Text(value, space)
           d == Done(space, i - 1)
<1>10. Stands(t, 0 + d, x)
  <2>1. t \in Seq(Character) /\ Stands(t, 0, front) /\ Stands(front, d, x)
    BY <1>1, <1>8, <1>9
  <2> HIDE DEF t, d
  <2> QED BY ONLY <1>4, <1>6, <2>1, StandsInside
<1>11. 0 + d = d
  BY <1>8
<1> QED BY <1>1, <1>4, <1>8, <1>10, <1>11 DEF IsAt, x

LEMMA FirstAt ==
  ASSUME Complete(value), NEW space \in Spaces
  PROVE  Done(space, 0) = 0 /\ ItemAt(space, 1) = 0
<1>1. Pieces(value, space) \in Seq(Seq(Character))
  BY TextType
<1>2. Done(space, 0) = 0
  <2>1. Joined(Pieces(value, space), 0) = <<>>
    BY <1>1, JoinedIs
  <2> QED BY <2>1 DEF Done
<1>3. 1 \in 1..Len(value)
  BY DEF Complete
<1>4. Done(space, 1) = Done(space, 1 - 1) + Len(Piece(value, 1, space))
      /\ Done(space, 1) \in Nat
  BY <1>3, PieceAt
<1>5. Piece(value, 1, space) = Written(value[1].item)
  BY DEF Piece
<1> QED BY <1>2, <1>4, <1>5 DEF ItemAt

LEMMA EndOfText ==
  ASSUME Complete(value), NEW space \in Spaces
  PROVE  LET n == Len(value)
         IN /\ IsAt(space, Done(space, n), Closing(Level(value, n)))
            /\ Len(Text(value, space)) = Done(space, n) + Level(value, n)
<1> DEFINE p == Pieces(value, space)
           n == Len(value)
           back == Closing(Level(value, n))
           front == Joined(p, n)
<1>1. /\ p \in Seq(Seq(Character)) /\ Len(p) = n
      /\ Text(value, space) = front \o back
  BY TextType
<1>2. n \in Nat \ {0} /\ n \in 0..n /\ n \in 1..n /\ value \in Seq(Node)
  BY DEF Complete
<1>3. back \in Seq(Character) /\ Len(back) = Level(value, n)
  BY <1>2, LevelType, ClosingType
<1>4. front \in Seq(Character)
  <2> HIDE DEF p, n
  <2> QED BY <1>1, <1>2, JoinedIs
<1>5. Done(space, n) = Len(front)
  BY DEF Done
<1> HIDE DEF front, back
<1>6. Stands(front \o back, Len(front), back) /\ Len(front \o back) = Len(front) + Len(back)
  BY <1>3, <1>4, JoinedParts, Joins
<1> QED BY <1>1, <1>3, <1>5, <1>6 DEF IsAt, back, n

\* An item is at the end of its piece.
LEMMA ItemIsAt ==
  ASSUME Complete(value), NEW space \in Spaces, NEW i \in 1..Len(value)
  PROVE  /\ IsAt(space, ItemAt(space, i), Written(value[i].item))
         /\ ItemAt(space, i) \in Nat
         /\ Done(space, i) = ItemAt(space, i) + Len(Written(value[i].item))
         /\ Len(Written(value[i].item)) \in Nat
         /\ i # 1 =>
              /\ IsAt(space, KeyAt(space, i), Quoted(value[i].key))
              /\ IsAt(space, KeyAt(space, i) + Len(Quoted(value[i].key)), <<":">>)
              /\ IsAt(space, ItemAt(space, i) - Len(space), space)
              /\ ItemAt(space, i) =
                   KeyAt(space, i) + Len(Quoted(value[i].key)) + 1 + Len(space)
              /\ KeyAt(space, i) \in Nat /\ Len(Quoted(value[i].key)) \in Nat
              /\ IsAt(space, Done(space, i - 1), Between(value, i, space))
<1> DEFINE x == Piece(value, i, space)
           t == Text(value, space)
           d == Done(space, i - 1)
           w == Written(value[i].item)
           b == Between(value, i, space)
           q == Quoted(value[i].key)
           c == <<":">>
<1>1. /\ Stands(t, d, x) /\ Done(space, i) = d + Len(x) /\ d \in Nat
      /\ Done(space, i) \in Nat
      /\ x \in Seq(Character) /\ t \in Seq(Character)
  BY PieceAt DEF IsAt
<1>2. w \in Seq(Character) /\ q \in Seq(Character) /\ space \in Seq(Character)
  BY PieceIs
<1>3. c \in Seq(Character) /\ Len(c) = 1
  BY MarkType
<1>4. CASE i = 1
  <2>1. x = w
    BY <1>4 DEF Piece
  <2> HIDE DEF x, w, t, d
  <2>2. ItemAt(space, i) = d /\ Len(w) \in Nat
    BY <1>1, <1>2, <2>1 DEF ItemAt, w
  <2> QED BY <1>1, <1>4, <2>1, <2>2 DEF IsAt, t, w
<1>5. CASE i # 1
  <2>1. x = b \o q \o c \o space \o w /\ b \in Seq(Character)
    BY <1>5, PieceIs
  <2>2. ItemAt(space, i) = Done(space, i) - Len(w)
    BY DEF ItemAt
  <2>3. KeyAt(space, i) = d + Len(b)
    BY DEF KeyAt
  <2> HIDE DEF x, w, t, d, b, q, c
  <2> DEFINE y1 == b \o q
             y2 == y1 \o c
             y3 == y2 \o space
  <2>a. t \in Seq(Character)
    BY <1>1
  <2>b. w \in Seq(Character)
    BY <1>2
  <2>c. q \in Seq(Character)
    BY <1>2
  <2>d. space \in Seq(Character)
    BY <1>2
  <2>e. b \in Seq(Character)
    BY <2>1
  <2>f. c \in Seq(Character) /\ Len(c) = 1
    BY <1>3
  <2>4. /\ y1 \in Seq(Character) /\ Len(y1) = Len(b) + Len(q)
        /\ Len(b) \in Nat /\ Len(q) \in Nat
    BY ONLY <2>c, <2>e, Joins
  <2> HIDE DEF y1
  <2>g. y1 \in Seq(Character)
    BY <2>4
  <2>5. y2 \in Seq(Character) /\ Len(y2) = Len(y1) + 1
    <3>1. c \in Seq(Character)
      BY <2>f
    <3>2. y2 \in Seq(Character) /\ Len(y2) = Len(y1) + Len(c)
      BY ONLY <3>1, <2>g, Joins
    <3> QED BY <2>f, <3>2
  <2> HIDE DEF y2
  <2>h. y2 \in Seq(Character)
    BY <2>5
  <2>6. y3 \in Seq(Character) /\ Len(y3) = Len(y2) + Len(space) /\ Len(space) \in Nat
    BY ONLY <2>d, <2>h, Joins
  <2> HIDE DEF y3
  <2>i. y3 \in Seq(Character)
    BY <2>6
  <2>7. x = y3 \o w
    BY <2>1 DEF y1, y2, y3
  <2>8. Len(x) = Len(y3) + Len(w) /\ Len(w) \in Nat
    BY ONLY <2>b, <2>i, <2>7, Joins
  <2>j. Stands(t, d, y3 \o w)
    BY <1>1, <2>7
  <2>9. Stands(t, d, y3) /\ Stands(t, d + Len(y3), w)
    BY ONLY <2>a, <2>b, <2>i, <2>j, StandsParts
  <2>10. Stands(t, d, y2) /\ Stands(t, d + Len(y2), space)
    <3>1. Stands(t, d, y2 \o space)
      BY <2>9 DEF y3
    <3> QED BY ONLY <2>a, <2>d, <2>h, <3>1, StandsParts
  <2>11. Stands(t, d, y1) /\ Stands(t, d + Len(y1), c)
    <3>1. Stands(t, d, y1 \o c)
      BY <2>10 DEF y2
    <3> QED BY ONLY <2>a, <2>f, <2>g, <3>1, StandsParts
  <2>12. Stands(t, d, b) /\ Stands(t, d + Len(b), q)
    <3>1. Stands(t, d, b \o q)
      BY <2>11 DEF y1
    <3> QED BY ONLY <2>a, <2>c, <2>e, <3>1, StandsParts
  <2> DEFINE l == ItemAt(space, i)
             k == KeyAt(space, i)
  <2>13. /\ l = d + Len(y3) /\ l - Len(space) = d + Len(y2) /\ l \in Nat
         /\ Done(space, i) = l + Len(w)
         /\ k = d + Len(b) /\ k + Len(q) = d + Len(y1) /\ k \in Nat
         /\ l = k + Len(q) + 1 + Len(space)
    <3> HIDE DEF l, k
    <3>1. l = d + Len(x) - Len(w) /\ k = d + Len(b)
      BY <1>1, <2>2, <2>3 DEF l, k
    <3>2. /\ d \in Nat /\ Len(b) \in Nat /\ Len(q) \in Nat /\ Len(space) \in Nat
          /\ Len(w) \in Nat
          /\ Len(y1) = Len(b) + Len(q) /\ Len(y2) = Len(y1) + 1
          /\ Len(y3) = Len(y2) + Len(space) /\ Len(x) = Len(y3) + Len(w)
      BY <1>1, <2>4, <2>5, <2>6, <2>8
    <3>3. Done(space, i) = d + Len(x)
      BY <1>1
    <3> QED BY ONLY <3>1, <3>2, <3>3
  <2> QED BY <1>5, <2>4, <2>8, <2>9, <2>10, <2>11, <2>12, <2>13 DEF IsAt, t, w, q, b, c, d
<1> QED BY <1>4, <1>5
-----------------------------------------------------------------------------
(* What a character of the text says. *)

\* In the text of the value, c is at p.
Sign(space, p, c) == /\ p \in Nat /\ p < Len(Text(value, space))
                     /\ Text(value, space)[p + 1] = c

LEMMA SignIn ==
  ASSUME NEW space, NEW p, NEW q \in Seq(Character), IsAt(space, p, q),
         NEW j \in Nat, j < Len(q), Len(Text(value, space)) \in Nat
  PROVE  Sign(space, p + j, q[j + 1])
<1> DEFINE t == Text(value, space)
<1>1. Stands(t, p, q) /\ Len(t) \in Nat
  BY DEF IsAt
<1>2. j + 1 \in 1..Len(q) /\ Len(q) \in Nat
  OBVIOUS
<1> HIDE DEF t
<1>3. p \in Nat /\ p + Len(q) <= Len(t) /\ t[p + (j + 1)] = q[j + 1]
  BY <1>1, <1>2 DEF Stands
<1>4. p + j \in Nat /\ p + j < Len(t) /\ p + (j + 1) = p + j + 1
  BY <1>1, <1>2, <1>3
<1>5. t[p + j + 1] = q[j + 1]
  BY <1>3, <1>4
<1> QED BY <1>4, <1>5 DEF Sign, t

LEMMA SignAlone ==
  ASSUME NEW space, NEW p, NEW c \in Character, IsAt(space, p, <<c>>),
         Len(Text(value, space)) \in Nat
  PROVE  Sign(space, p, c)
<1>1. <<c>> \in Seq(Character) /\ Len(<<c>>) = 1 /\ <<c>>[1] = c
  OBVIOUS
<1> DEFINE q == <<c>>
<1>2. q \in Seq(Character) /\ 0 < Len(q) /\ q[0 + 1] = c /\ IsAt(space, p, q)
  BY <1>1
<1> HIDE DEF q
<1>3. Sign(space, p + 0, q[0 + 1])
  BY <1>2, SignIn
<1>4. p + 0 = p
  BY DEF IsAt, Stands
<1> QED BY <1>2, <1>3, <1>4

\* The nodes of an object.
LEMMA Levels ==
  ASSUME IsObject(value), NEW i \in 1..Len(value)
  PROVE  /\ Complete(value) /\ value \in Seq(Node) /\ Len(value) \in Nat \ {0}
         /\ i \in Nat /\ i > 0
         /\ value[i] \in Node /\ value[i].depth \in Nat
         /\ value[i].item \in Item /\ value[i].item # Nothing
         /\ value[i].key \in Seq(Character)
         /\ Level(value, i) \in Nat /\ Level(value, i) > 0
         /\ value[i].item = Object => Level(value, i) = value[i].depth + 1
         /\ value[i].item # Object => Level(value, i) = value[i].depth
         /\ i # 1 => value[i].depth > 0
         /\ i = 1 => value[i] = [depth |-> 0, key |-> <<>>, item |-> Object]
         /\ i < Len(value) =>
              /\ i + 1 \in 1..Len(value) /\ i + 1 # 1 /\ i + 1 - 1 = i
              /\ value[i + 1].depth \in 1..Level(value, i)
              /\ Ends(i) \in Nat /\ Ends(i) < Level(value, i)
              /\ value[i + 1].depth = Level(value, i) - Ends(i)
              /\ HasPairs(value, i) <=> value[i + 1].depth > value[i].depth
         /\ HasPairs(value, i) =>
              i < Len(value) /\ value[i].item = Object /\ Ends(i) = 0
<1>1. Complete(value) /\ value \in Seq(Node) /\ Len(value) \in Nat \ {0}
  BY ObjectIsComplete DEF Complete
<1>2. value[i] \in Node /\ i \in Nat /\ i > 0
  BY <1>1
<1>3. /\ value[i].depth \in Nat /\ value[i].item \in Item /\ value[i].item # Nothing
      /\ value[i].key \in Seq(Character)
  BY <1>1, <1>2 DEF Node, Complete
<1>4. i = 1 => value[i] = [depth |-> 0, key |-> <<>>, item |-> Object]
  BY DEF IsObject
<1>5. i # 1 => value[i].depth > 0
  <2> SUFFICES ASSUME i # 1 PROVE value[i].depth > 0
    OBVIOUS
  <2>1. i \in 2..Len(value) /\ i - 1 \in 1..Len(value)
    BY <1>1, <1>2
  <2>2. value[i].depth \in 1..Level(value, i - 1) /\ Level(value, i - 1) \in Nat
    BY <1>1, <2>1, LevelType DEF Complete
  <2> QED BY <2>2
<1>6. /\ value[i].item = Object => Level(value, i) = value[i].depth + 1
      /\ value[i].item # Object => Level(value, i) = value[i].depth
  BY DEF Level
<1>7. Level(value, i) \in Nat /\ Level(value, i) > 0
  BY <1>3, <1>4, <1>5, <1>6
<1>8. ASSUME i < Len(value)
      PROVE  /\ i + 1 \in 1..Len(value) /\ i + 1 # 1 /\ i + 1 - 1 = i
             /\ value[i + 1].depth \in 1..Level(value, i)
             /\ Ends(i) \in Nat /\ Ends(i) < Level(value, i)
             /\ value[i + 1].depth = Level(value, i) - Ends(i)
             /\ HasPairs(value, i) <=> value[i + 1].depth > value[i].depth
             /\ HasPairs(value, i) => value[i].item = Object /\ Ends(i) = 0
  <2>1. i + 1 \in 2..Len(value) /\ i + 1 - 1 = i /\ i + 1 \in 1..Len(value) /\ i + 1 # 1
    BY <1>1, <1>2, <1>8
  <2>2. value[i + 1].depth \in 1..Level(value, i)
    BY <1>1, <2>1 DEF Complete
  <2>3. HasPairs(value, i) <=> value[i + 1].depth > value[i].depth
    BY <1>8 DEF HasPairs
  <2> DEFINE d == value[i + 1].depth
             l == Level(value, i)
  <2>4. d \in 1..l /\ l \in Nat /\ Ends(i) = l - d
    BY <1>7, <2>2 DEF Ends
  <2> HIDE DEF d, l
  <2>5. Ends(i) \in Nat /\ Ends(i) < l /\ d = l - Ends(i)
    BY <2>4
  <2>6. HasPairs(value, i) => value[i].item = Object /\ Ends(i) = 0
    <3>1. value[i].item # Object => l = value[i].depth
      BY <1>6 DEF l
    <3>2. value[i].item = Object => l = value[i].depth + 1
      BY <1>6 DEF l
    <3>3. HasPairs(value, i) => d > value[i].depth
      BY <2>3 DEF d
    <3> QED BY <1>3, <2>4, <3>1, <3>2, <3>3
  <2> QED BY <2>1, <2>2, <2>3, <2>5, <2>6 DEF d, l
<1>9. HasPairs(value, i) => i < Len(value)
  BY DEF HasPairs
<1> QED BY <1>1, <1>2, <1>3, <1>4, <1>5, <1>6, <1>7, <1>8, <1>9

LEMMA TextSize ==
  ASSUME IsObject(value), NEW space \in Spaces
  PROVE  /\ Text(value, space) \in Seq(Character) /\ Len(Text(value, space)) \in Nat
         /\ Complete(value) /\ 1 \in 1..Len(value) /\ Len(value) \in Nat \ {0}
         /\ Len(value) \in 1..Len(value)
<1>1. Complete(value) /\ Len(value) \in Nat \ {0}
  BY ObjectIsComplete DEF Complete
<1>2. Text(value, space) \in Seq(Character)
  BY <1>1, TextType
<1> QED BY <1>1, <1>2

\* An object that is to end before the next value ends.
LEMMA EndSign ==
  ASSUME IsObject(value), NEW space \in Spaces, NEW i \in 1..Len(value), NEW m \in Nat,
         m < Level(value, i), i < Len(value) => m < Ends(i)
  PROVE  Sign(space, Done(space, i) + m, "}")
<1> DEFINE n == Len(value)
           e == IF i = n THEN Level(value, n) ELSE Ends(i)
<1>1. /\ Complete(value) /\ Len(Text(value, space)) \in Nat
      /\ Text(value, space) \in Seq(Character)
  BY TextSize
<1>2. /\ Level(value, i) \in Nat /\ Len(value) \in Nat /\ i \in Nat
      /\ i < Len(value) =>
           i + 1 \in 1..Len(value) /\ i + 1 # 1 /\ i + 1 - 1 = i /\ Ends(i) \in Nat
      /\ HasPairs(value, i) => i < Len(value) /\ Ends(i) = 0
  BY Levels
<1>3. e \in Nat /\ m < e
  BY <1>2
<1>4. IsAt(space, Done(space, i), Closing(e))
  <2>1. CASE i = n
    BY <1>1, <2>1, EndOfText
  <2>2. CASE i # n
    <3>1. i < Len(value) /\ ~HasPairs(value, i) /\ e = Ends(i)
      BY <1>2, <2>2
    <3> DEFINE j == i + 1
    <3>2. j \in 1..Len(value) /\ j # 1 /\ j - 1 = i
      BY <1>2, <3>1
    <3> HIDE DEF j
    <3>3. IsAt(space, Done(space, i), Between(value, j, space))
      BY <1>1, <3>2, ItemIsAt
    <3> DEFINE a == Closing(e)
               f == <<",">>
               b == f \o space
    <3>4. Between(value, j, space) = a \o b
      <4>1. e = Level(value, j - 1) - value[j].depth
        BY <3>1, <3>2 DEF Ends, j
      <4>2. ~HasPairs(value, j - 1)
        BY <3>1, <3>2
      <4> HIDE DEF e
      <4>3. Between(value, j, space) =
              Closing(Level(value, j - 1) - value[j].depth) \o (<<",">> \o space)
        BY <1>1, <3>2, <4>2, PieceIs
      <4> QED BY <4>1, <4>3
    <3>5. a \in Seq(Character)
      <4> HIDE DEF e
      <4> QED BY <1>3, ClosingType
    <3>6. b \in Seq(Character)
      <4>1. f \in Seq(Character)
        BY MarkType
      <4>2. space \in Seq(Character)
        BY SpaceType
      <4> HIDE DEF f
      <4> QED BY ONLY <4>1, <4>2, Joins
    <3> HIDE DEF a, b
    <3> DEFINE t == Text(value, space)
               d == Done(space, i)
    <3>7. t \in Seq(Character) /\ Stands(t, d, a \o b)
      BY <1>1, <3>3, <3>4 DEF IsAt
    <3> HIDE DEF t, d
    <3>8. Stands(t, d, a)
      BY ONLY <3>5, <3>6, <3>7, StandsParts
    <3> QED BY <3>8 DEF IsAt, a, t, d
  <2> QED BY <2>1, <2>2
<1> HIDE DEF e
<1> DEFINE c == Closing(e)
<1>5. c \in Seq(Character) /\ m < Len(c)
  BY <1>3, ClosingType
<1>6. c[m + 1] = "}"
  <2>1. m + 1 \in 1..e
    BY <1>3
  <2> QED BY <2>1 DEF Closing
<1>7. IsAt(space, Done(space, i), c)
  BY <1>4
<1> HIDE DEF c
<1>8. Sign(space, Done(space, i) + m, c[m + 1])
  BY <1>1, <1>5, <1>7, SignIn
<1> QED BY <1>6, <1>8

\* Between two pairs there is a comma behind the objects that end.
LEMMA CommaSign ==
  ASSUME IsObject(value), NEW space \in Spaces, NEW i \in 1..Len(value),
         i < Len(value), ~HasPairs(value, i)
  PROVE  /\ Sign(space, Done(space, i) + Ends(i), ",")
         /\ IsAt(space, Done(space, i) + Ends(i) + 1, space)
         /\ KeyAt(space, i + 1) = Done(space, i) + Ends(i) + 1 + Len(space)
<1>1. /\ Complete(value) /\ Len(Text(value, space)) \in Nat
      /\ Text(value, space) \in Seq(Character)
  BY TextSize
<1> DEFINE j == i + 1
           e == Ends(i)
<1>2. j \in 1..Len(value) /\ j # 1 /\ j - 1 = i /\ e \in Nat
  BY Levels
<1>3. e = Level(value, i) - value[j].depth
  BY DEF Ends
<1> HIDE DEF j, e
<1> DEFINE a == Closing(e)
           f == <<",">>
           b == f \o space
           t == Text(value, space)
           d == Done(space, i)
<1>4. Between(value, j, space) = a \o b
  BY <1>1, <1>2, <1>3, PieceIs
<1>5. IsAt(space, Done(space, i), Between(value, j, space)) /\ KeyAt(space, j) \in Nat
  BY <1>1, <1>2, ItemIsAt
<1>6. a \in Seq(Character) /\ Len(a) = e
  BY <1>2, ClosingType
<1>7. f \in Seq(Character) /\ Len(f) = 1
  BY MarkType
<1>8. space \in Seq(Character) /\ Len(space) \in Nat
  BY SpaceType
<1>9. KeyAt(space, j) = d + Len(a \o b)
  BY <1>2, <1>4 DEF KeyAt
<1>10. Stands(t, d, a \o b) /\ t \in Seq(Character)
  BY <1>1, <1>4, <1>5 DEF IsAt
<1>a. "," \in Character
  BY DEF Character, Marks
<1>11. b \in Seq(Character) /\ Len(b) = Len(f) + Len(space)
  <2> HIDE DEF f
  <2>1. f \in Seq(Character)
    BY <1>7
  <2>2. space \in Seq(Character)
    BY <1>8
  <2> QED BY ONLY <2>1, <2>2, Joins
<1> HIDE DEF b, t, d, a
<1>12. Stands(t, d, a) /\ Stands(t, d + Len(a), b)
  <2>1. a \in Seq(Character)
    BY <1>6
  <2>2. b \in Seq(Character)
    BY <1>11
  <2> QED BY ONLY <1>10, <2>1, <2>2, StandsParts
<1> HIDE DEF f
<1>13. Stands(t, d + e, f) /\ Stands(t, d + e + 1, space)
  <2>1. f \in Seq(Character)
    BY <1>7
  <2>2. space \in Seq(Character)
    BY <1>8
  <2>3. t \in Seq(Character)
    BY <1>10
  <2>4. Stands(t, d + e, f \o space)
    BY <1>6, <1>12 DEF b
  <2>5. Stands(t, d + e, f) /\ Stands(t, d + e + Len(f), space)
    BY ONLY <2>1, <2>2, <2>3, <2>4, StandsParts
  <2> QED BY <1>7, <2>5
<1>14. Sign(space, d + e, ",")
  <2>1. IsAt(space, d + e, <<",">>)
    BY <1>13 DEF IsAt, t, f
  <2> QED BY <1>1, <1>a, <2>1, SignAlone
<1>15. KeyAt(space, j) = d + e + 1 + Len(space)
  <2>1. Len(a \o b) = Len(a) + Len(b)
    <3>1. a \in Seq(Character)
      BY <1>6
    <3>2. b \in Seq(Character)
      BY <1>11
    <3> QED BY ONLY <3>1, <3>2, Joins
  <2>2. d \in Nat
    BY <1>10 DEF Stands
  <2> QED BY <1>2, <1>6, <1>7, <1>8, <1>9, <1>11, <2>1, <2>2
<1> QED BY <1>13, <1>14, <1>15 DEF IsAt, t, d, e, j

\* A key is where its object begins.
LEMMA FirstKey ==
  ASSUME IsObject(value), NEW space \in Spaces, NEW i \in 1..Len(value),
         HasPairs(value, i)
  PROVE  KeyAt(space, i + 1) = Done(space, i)
<1> DEFINE j == i + 1
<1>1. j \in 1..Len(value) /\ j # 1 /\ j - 1 = i
  BY Levels
<1>2. Complete(value)
  BY TextSize
<1> HIDE DEF j
<1>3. Between(value, j, space) = <<>>
  BY <1>1, <1>2, PieceIs
<1>4. Len(<< >>) = 0 /\ Done(space, i) \in Nat
  <2>1. Len(<< >>) = 0
    OBVIOUS
  <2> QED BY <1>2, <2>1, PieceAt
<1>5. KeyAt(space, j) = Done(space, i)
  BY <1>1, <1>3, <1>4 DEF KeyAt
<1> QED BY <1>5 DEF j
\* Something is behind every piece, and tells whether pairs follow.
LEMMA PieceEnds ==
  ASSUME IsObject(value), NEW space \in Spaces, NEW i \in 1..Len(value)
  PROVE  /\ HasPairs(value, i) => Sign(space, Done(space, i), Quote)
         /\ ~HasPairs(value, i) => \E c \in {"}", ","} : Sign(space, Done(space, i), c)
         /\ ~HasPairs(value, i) /\ value[i].item = Object => Sign(space, Done(space, i), "}")
<1>1. /\ Level(value, i) \in Nat /\ Level(value, i) > 0
      /\ i \in Nat /\ Len(value) \in Nat
      /\ value[i].depth \in Nat
      /\ value[i].item = Object => Level(value, i) = value[i].depth + 1
      /\ i < Len(value) =>
           /\ i + 1 \in 1..Len(value) /\ i + 1 # 1 /\ i + 1 - 1 = i
           /\ Ends(i) \in Nat
           /\ value[i + 1].depth = Level(value, i) - Ends(i)
           /\ HasPairs(value, i) <=> value[i + 1].depth > value[i].depth
      /\ HasPairs(value, i) => i < Len(value)
  BY Levels
<1>2. Complete(value) /\ Len(Text(value, space)) \in Nat
  BY TextSize
<1>a. Done(space, i) \in Nat
  BY <1>2, PieceAt
<1>3. ASSUME HasPairs(value, i) PROVE Sign(space, Done(space, i), Quote)
  <2> DEFINE j == i + 1
             q == Quoted(value[j].key)
  <2>1. j \in 1..Len(value) /\ j # 1
    BY <1>1, <1>3
  <2>2. KeyAt(space, j) = Done(space, i)
    BY <1>3, FirstKey
  <2> HIDE DEF j
  <2>3. IsAt(space, Done(space, i), q)
    BY <1>2, <2>1, <2>2, ItemIsAt
  <2>4. q \in Seq(Character) /\ value[j].key \in Seq(Character)
    BY <1>2, <2>1, PieceIs
  <2>5. Len(q) > 0 /\ q[1] = Quote
    <3> DEFINE e == Escaped(value[j].key)
    <3>1. e \in Seq(Character) /\ <<Quote>> \in Seq(Character)
      BY <2>4, QuotedType, MarkType
    <3>2. q = <<Quote>> \o e \o <<Quote>>
      BY DEF Quoted
    <3> HIDE DEF e, q
    <3> QED BY <3>1, <3>2
  <2> HIDE DEF q
  <2>6. Sign(space, Done(space, i) + 0, q[0 + 1])
    BY <1>2, <2>3, <2>4, <2>5, SignIn
  <2>7. Done(space, i) + 0 = Done(space, i)
    BY <1>a
  <2> QED BY <2>5, <2>6, <2>7
<1>4. ASSUME ~HasPairs(value, i), i < Len(value) => 0 < Ends(i)
      PROVE  Sign(space, Done(space, i), "}")
  <2>1. Sign(space, Done(space, i) + 0, "}")
    BY <1>1, <1>4, EndSign
  <2>2. Done(space, i) + 0 = Done(space, i)
    BY <1>a
  <2> QED BY <2>1, <2>2
<1>5. ASSUME ~HasPairs(value, i), i < Len(value), ~(0 < Ends(i))
      PROVE  Sign(space, Done(space, i), ",") /\ value[i].item # Object
  <2>1. Ends(i) = 0
    BY <1>1, <1>5
  <2>2. Sign(space, Done(space, i) + Ends(i), ",")
    BY <1>5, CommaSign
  <2>3. Done(space, i) + Ends(i) = Done(space, i)
    BY <1>a, <2>1
  <2>4. value[i].item # Object
    BY <1>1, <1>5, <2>1
  <2> QED BY <2>2, <2>3, <2>4
<1> QED BY <1>3, <1>4, <1>5

\* A space.
Blank == " "

\* How each kind of item begins.
ItemBegins(x, c) ==
  /\ c # Blank
  /\ c = Quote <=> x.type = "string"
  /\ c \in ToSet(Digits) <=> x.type = "number"
  /\ c \in {"t", "f"} <=> x.type = "boolean"
  /\ c = "{" <=> x.type = "object"

LEMMA FirstOfItem ==
  ASSUME NEW x \in Item, x # Nothing
  PROVE  Len(Written(x)) > 0 /\ ItemBegins(x, Written(x)[1])
<1>1. \A c \in ToSet(Digits) : c \notin {Quote, "t", "f", "{", Blank}
  BY JsonAssumption DEF Plain, Marks, Blank
<1>2. CASE x.type = "string"
  <2> DEFINE e == Escaped(x.string)
             w == Written(x)
  <2>1. /\ w = <<Quote>> \o e \o <<Quote>>
        /\ e \in Seq(Character) /\ <<Quote>> \in Seq(Character)
    BY <1>2, ItemCases, QuotedType, MarkType DEF Written, Quoted
  <2> HIDE DEF e, w
  <2>2. Len(w) > 0 /\ w[1] = Quote
    BY <2>1
  <2>3. Quote \notin ToSet(Digits) /\ Quote \notin {"t", "f", "{", Blank}
    BY <1>1 DEF Quote, Blank
  <2> QED BY <1>2, <2>2, <2>3 DEF ItemBegins, w
<1>3. CASE x.type = "number"
  <2> DEFINE w == Numeral[x.number]
  <2>1. Written(x) = w /\ x.number \in Nat
    BY <1>3, ItemCases, JsonAssumption DEF Written
  <2>2. w \in Seq(ToSet(Digits)) /\ Len(w) > 0
    BY <2>1, NumeralType
  <2> HIDE DEF w
  <2>3. w[1] \in ToSet(Digits)
    BY <2>2
  <2> QED BY <1>1, <1>3, <2>1, <2>2, <2>3 DEF ItemBegins
<1>4. CASE x.type = "boolean"
  <2>1. Written(x) = Word(x.boolean) /\ x.boolean \in BOOLEAN
    BY <1>4, ItemCases DEF Written
  <2>2. Len(Written(x)) > 0 /\ Written(x)[1] \in {"t", "f"}
    <3>1. CASE x.boolean = TRUE
      BY <2>1, <3>1 DEF Word
    <3>2. CASE x.boolean = FALSE
      BY <2>1, <3>2 DEF Word
    <3> QED BY <2>1, <3>1, <3>2
  <2>3. \A c \in {"t", "f"} : c \notin ToSet(Digits) /\ c # Quote /\ c # "{" /\ c # Blank
    BY <1>1 DEF Quote, Blank
  <2> QED BY <1>4, <2>2, <2>3 DEF ItemBegins
<1>5. CASE x.type = "object"
  <2> DEFINE b == "{"
             w == Written(x)
  <2>1. w = <<b>>
    BY <1>5 DEF Written
  <2> HIDE DEF b, w
  <2>2. Len(w) > 0 /\ w[1] = b
    BY <2>1
  <2>3. "{" \notin ToSet(Digits) /\ "{" # Quote /\ "{" # Blank
    BY <1>1 DEF Quote, Blank
  <2> QED BY <1>5, <2>2, <2>3 DEF ItemBegins, b, w
<1> QED BY <1>2, <1>3, <1>4, <1>5, ItemCases

LEMMA ItemSign ==
  ASSUME IsObject(value), NEW space \in Spaces, NEW i \in 1..Len(value)
  PROVE  \E c : Sign(space, ItemAt(space, i), c) /\ ItemBegins(value[i].item, c)
<1> DEFINE w == Written(value[i].item)
           a == ItemAt(space, i)
<1>1. Complete(value) /\ Len(Text(value, space)) \in Nat
  BY TextSize
<1>2. value[i].item \in Item /\ value[i].item # Nothing /\ w \in Seq(Character)
  BY <1>1, PieceIs
<1>3. Len(w) > 0 /\ ItemBegins(value[i].item, w[1])
  BY <1>2, FirstOfItem
<1>4. IsAt(space, a, w) /\ a \in Nat
  BY <1>1, ItemIsAt
<1> HIDE DEF w, a
<1>5. Sign(space, a + 0, w[0 + 1])
  BY <1>1, <1>2, <1>3, <1>4, SignIn
<1>6. a + 0 = a
  BY <1>4
<1> QED BY <1>3, <1>5, <1>6 DEF a

-----------------------------------------------------------------------------
(* Strings in the text. *)

\* Where in the text its next character is, when j characters of s have been read that
\* is at p.
StringPlace(s, p, j) == p + 1 + Len(Joined(Escaping(s), j))

\* Characters before which an escape is written.
Escapes(c) == c \in DOMAIN Letter \/ c \in {Quote, Escape}

LEMMA ArrivedType ==
  ASSUME NEW s \in Seq(Character)
  PROVE  /\ Arrived(s) \in Seq(Character) /\ Len(Arrived(s)) = Len(s)
         /\ \A k \in 1..Len(s) :
              /\ Arrived(s)[k] \in Character
              /\ s[k] \in DOMAIN Letter => Arrived(s)[k] = Letter[s[k]]
              /\ s[k] \notin DOMAIN Letter => Arrived(s)[k] = s[k]
<1>1. Len(s) \in Nat
  OBVIOUS
<1>2. ASSUME NEW k \in 1..Len(s)
      PROVE  /\ Arrived(s)[k] \in Character
             /\ s[k] \in DOMAIN Letter => Arrived(s)[k] = Letter[s[k]]
             /\ s[k] \notin DOMAIN Letter => Arrived(s)[k] = s[k]
  <2>1. Arrived(s)[k] = IF s[k] \in DOMAIN Letter THEN Letter[s[k]] ELSE s[k]
    BY DEF Arrived
  <2>2. s[k] \in Character
    OBVIOUS
  <2>3. s[k] \in DOMAIN Letter => Letter[s[k]] \in Character
    BY LetterType
  <2> QED BY <2>1, <2>2, <2>3
<1> DEFINE a == Arrived(s)
<1>3. a = [k \in 1..Len(s) |-> a[k]]
  BY DEF Arrived
<1> HIDE DEF a
<1>4. \A k \in 1..Len(s) : a[k] \in Character
  BY <1>2 DEF a
<1>5. a \in Seq(Character) /\ Len(a) = Len(s)
  BY ONLY <1>1, <1>3, <1>4
<1> QED BY <1>2, <1>5 DEF a

\* How a character of a string is written, in terms of what arrives.
LEMMA EscapingIs ==
  ASSUME NEW s \in Seq(Character), NEW k \in 1..Len(s)
  PROVE  Escaping(s)[k] = IF Escapes(s[k]) THEN <<Escape, Arrived(s)[k]>> ELSE <<s[k]>>
<1> DEFINE c == s[k]
           b == Arrived(s)[k]
<1>1. /\ c \in DOMAIN Letter => b = Letter[c]
      /\ c \notin DOMAIN Letter => b = c
  BY ArrivedType
<1>2. Escaping(s)[k] = CASE c \in DOMAIN Letter    -> <<Escape, Letter[c]>>
                         [] c \in {Quote, Escape} -> <<Escape, c>>
                         [] OTHER                  -> <<c>>
  BY DEF Escaping
<1> HIDE DEF b, c
<1>3. CASE c \in DOMAIN Letter
  <2>1. c \notin {Quote, Escape}
    BY <1>3, LetterType
  <2> QED BY <1>1, <1>2, <1>3, <2>1 DEF Escapes, b, c
<1>4. CASE c \notin DOMAIN Letter /\ c \in {Quote, Escape}
  BY <1>1, <1>2, <1>4 DEF Escapes, b, c
<1>5. CASE c \notin DOMAIN Letter /\ c \notin {Quote, Escape}
  BY <1>1, <1>2, <1>5 DEF Escapes, b, c
<1> QED BY <1>3, <1>4, <1>5

\* Only strings are not what they were.
LEMMA ArrivedIs ==
  ASSUME NEW x \in Item
  PROVE  /\ ArrivedItem(x) \in Item
         /\ x.type # "string" => ArrivedItem(x) = x
         /\ x.type = "string" => ArrivedItem(x) = String(Arrived(x.string))
         /\ ArrivedItem(x) = Object <=> x = Object
         /\ ArrivedItem(x) = Nothing <=> x = Nothing
<1>1. CASE x.type = "string"
  <2>1. x.string \in Seq(Character) /\ x # Object /\ x # Nothing
    BY <1>1 DEF Item, Object, Nothing
  <2>2. ArrivedItem(x) = String(Arrived(x.string)) /\ Arrived(x.string) \in Seq(Character)
    BY <1>1, <2>1, ArrivedType DEF ArrivedItem
  <2> DEFINE a == Arrived(x.string)
  <2> HIDE DEF a
  <2>3. String(a) \in Item /\ String(a) # Object /\ String(a) # Nothing
    BY <2>2 DEF Item, String, Object, Nothing, a
  <2> QED BY <1>1, <2>1, <2>2, <2>3 DEF a
<1>2. CASE x.type # "string"
  BY <1>2 DEF ArrivedItem
<1> QED BY <1>1, <1>2

LEMMA StringSigns ==
  ASSUME IsObject(value), NEW space \in Spaces, NEW s \in Seq(Character), NEW p,
         IsAt(space, p, Quoted(s)), NEW j \in 0..Len(s)
  PROVE  LET a == StringPlace(s, p, j)
         IN /\ a \in Nat /\ p \in Nat /\ a > p
            /\ Sign(space, p, Quote)
            /\ j = 0 => a = p + 1
            /\ j = Len(s) => Sign(space, a, Quote) /\ a + 1 = p + Len(Quoted(s))
            /\ j < Len(s) /\ Escapes(s[j + 1]) =>
                 /\ Sign(space, a, Escape) /\ Sign(space, a + 1, Arrived(s)[j + 1])
                 /\ StringPlace(s, p, j + 1) = a + 2
            /\ j < Len(s) /\ ~Escapes(s[j + 1]) =>
                 Sign(space, a, s[j + 1]) /\ StringPlace(s, p, j + 1) = a + 1
<1> DEFINE e == Escaped(s)
           es == Escaping(s)
           o == <<Quote>>
           oe == o \o e
           t == Text(value, space)
           a == StringPlace(s, p, j)
           jo(k) == Joined(es, k)
<1>1. t \in Seq(Character) /\ Len(t) \in Nat
  BY TextSize
<1>2. e \in Seq(Character) /\ o \in Seq(Character) /\ Len(o) = 1 /\ Quote \in Character
  BY QuotedType, MarkType, CharacterType
<1>3. /\ es \in Seq(Seq(Character)) /\ Len(es) = Len(s) /\ e = FlattenSeq(es)
      /\ \A k \in 1..Len(s) :
           es[k] = IF Escapes(s[k]) THEN <<Escape, Arrived(s)[k]>> ELSE <<s[k]>>
  <2>1. es \in Seq(Seq(Character)) /\ Len(es) = Len(s)
    BY EscapingType
  <2>2. e = FlattenSeq(es)
    BY DEF Escaping, Escaped
  <2> QED BY <2>1, <2>2, EscapingIs
<1>4. Quoted(s) = oe \o o
  BY DEF Quoted
<1>5. Stands(t, p, Quoted(s)) /\ p \in Nat
  BY DEF IsAt, Stands
<1> HIDE DEF e, es, o, t
<1>6. oe \in Seq(Character) /\ Len(oe) = 1 + Len(e) /\ Len(e) \in Nat
  <2>1. e \in Seq(Character)
    BY <1>2
  <2>2. o \in Seq(Character)
    BY <1>2
  <2>3. oe \in Seq(Character) /\ Len(oe) = Len(o) + Len(e) /\ Len(e) \in Nat
    BY ONLY <2>1, <2>2, Joins
  <2> QED BY <1>2, <2>3
<1> HIDE DEF oe
<1>7. Stands(t, p, oe) /\ Stands(t, p + Len(oe), o) /\ Len(Quoted(s)) = Len(oe) + 1
  <2>1. o \in Seq(Character)
    BY <1>2
  <2>2. oe \in Seq(Character)
    BY <1>6
  <2>3. t \in Seq(Character)
    BY <1>1
  <2>4. Stands(t, p, oe \o o)
    BY <1>4, <1>5
  <2>5. Len(oe \o o) = Len(oe) + Len(o)
    BY ONLY <2>1, <2>2, Joins
  <2>6. Stands(t, p, oe) /\ Stands(t, p + Len(oe), o)
    BY ONLY <2>1, <2>2, <2>3, <2>4, StandsParts
  <2> QED BY <1>2, <1>4, <2>5, <2>6
<1>8. Stands(t, p, o) /\ Stands(t, p + 1, e)
  <2>1. o \in Seq(Character)
    BY <1>2
  <2>2. e \in Seq(Character)
    BY <1>2
  <2>3. t \in Seq(Character)
    BY <1>1
  <2>4. Stands(t, p, o \o e)
    BY <1>7 DEF oe
  <2>5. Stands(t, p, o) /\ Stands(t, p + Len(o), e)
    BY ONLY <2>1, <2>2, <2>3, <2>4, StandsParts
  <2> QED BY <1>2, <2>5
<1>9. Sign(space, p, Quote)
  <2>1. IsAt(space, p, <<Quote>>)
    BY <1>8 DEF IsAt, o, t
  <2>2. Len(Text(value, space)) \in Nat
    BY <1>1 DEF t
  <2> QED BY <1>2, <2>1, <2>2, SignAlone
<1>10. /\ Joined(es, 0) = <<>>
       /\ \A k \in 0..Len(s) : Joined(es, k) \in Seq(Character)
       /\ e = Joined(es, Len(s))
  BY <1>3, JoinedIs
<1>11. a = p + 1 + Len(Joined(es, j)) /\ a \in Nat /\ a > p
  <2>1. Len(Joined(es, j)) \in Nat
    BY <1>10
  <2>2. a = p + 1 + Len(Joined(es, j))
    BY DEF StringPlace, es
  <2> QED BY <1>5, <2>1, <2>2
<1>12. j = 0 => a = p + 1
  <2>1. Len(<< >>) = 0
    OBVIOUS
  <2> QED BY <1>5, <1>10, <1>11, <2>1
<1>13. ASSUME j = Len(s) PROVE Sign(space, a, Quote) /\ a + 1 = p + Len(Quoted(s))
  <2>1. a = p + 1 + Len(e)
    BY <1>10, <1>11, <1>13
  <2>2. p + Len(oe) = a
    BY <1>5, <1>6, <2>1
  <2>3. IsAt(space, a, <<Quote>>)
    BY <1>7, <2>2 DEF IsAt, o, t
  <2>4. Len(Text(value, space)) \in Nat
    BY <1>1 DEF t
  <2>5. Sign(space, a, Quote)
    BY <1>2, <2>3, <2>4, SignAlone
  <2> QED BY <1>5, <1>6, <1>7, <2>1, <2>5
<1>14. ASSUME j < Len(s)
       PROVE  /\ IsAt(space, a, es[j + 1])
              /\ StringPlace(s, p, j + 1) = a + Len(es[j + 1])
  <2> DEFINE k == j + 1
  <2>1. k \in 1..Len(es) /\ k - 1 = j /\ k \in 1..Len(s)
    BY <1>3, <1>14
  <2> HIDE DEF k
  <2>2. /\ Stands(e, Len(Joined(es, k - 1)), es[k])
        /\ Len(Joined(es, k)) = Len(Joined(es, k - 1)) + Len(es[k])
        /\ Len(es[k]) \in Nat /\ Len(Joined(es, k - 1)) \in Nat
    BY <1>3, <2>1, PieceStands
  <2> DEFINE l == Len(Joined(es, k - 1))
             x == es[k]
  <2>3. x \in Seq(Character)
    BY <1>3, <2>1
  <2>4. Stands(e, l, x)
    BY <2>2
  <2>5. a = p + 1 + l
    BY <1>11, <2>1
  <2> HIDE DEF l, x
  <2>6. Stands(t, p + 1 + l, x)
    <3>1. t \in Seq(Character)
      BY <1>1
    <3>2. e \in Seq(Character)
      BY <1>2
    <3>3. Stands(t, p + 1, e)
      BY <1>8
    <3> QED BY ONLY <2>3, <2>4, <3>1, <3>2, <3>3, StandsInside
  <2>7. IsAt(space, a, x)
    BY <2>5, <2>6 DEF IsAt, t
  <2>8. StringPlace(s, p, k) = a + Len(x)
    <3>1. StringPlace(s, p, k) = p + 1 + Len(Joined(es, k))
      BY DEF StringPlace, es
    <3>2. Len(Joined(es, k)) = l + Len(x) /\ l \in Nat /\ Len(x) \in Nat
      BY <2>2 DEF l, x
    <3> QED BY <1>5, <2>5, <3>1, <3>2
  <2> QED BY <2>7, <2>8 DEF x, k
<1>15. ASSUME j < Len(s), Escapes(s[j + 1])
       PROVE  /\ Sign(space, a, Escape) /\ Sign(space, a + 1, Arrived(s)[j + 1])
              /\ StringPlace(s, p, j + 1) = a + 2
  <2> DEFINE c == Arrived(s)[j + 1]
             x == <<Escape, c>>
  <2>a. j + 1 \in 1..Len(s)
    BY <1>15
  <2>1. c \in Character /\ j + 1 \in 1..Len(s) /\ Escape \in Character
    <3>1. c \in Character
      BY <2>a, ArrivedType
    <3> QED BY <2>a, <3>1, CharacterType
  <2>2. es[j + 1] = x
    BY <1>3, <1>15, <2>1
  <2> HIDE DEF c
  <2>3. x \in Seq(Character) /\ Len(x) = 2 /\ x[0 + 1] = Escape /\ x[1 + 1] = c
    BY <2>1
  <2>4. IsAt(space, a, x) /\ StringPlace(s, p, j + 1) = a + 2
    BY <1>14, <1>15, <2>2, <2>3
  <2>5. Len(Text(value, space)) \in Nat
    BY <1>1 DEF t
  <2> HIDE DEF x, a
  <2>6. Sign(space, a + 0, x[0 + 1])
    BY <2>3, <2>4, <2>5, SignIn
  <2>7. Sign(space, a + 1, x[1 + 1])
    BY <2>3, <2>4, <2>5, SignIn
  <2>8. a + 0 = a
    BY <1>11
  <2> QED BY <2>3, <2>4, <2>6, <2>7, <2>8 DEF c
<1>16. ASSUME j < Len(s), ~Escapes(s[j + 1])
       PROVE  Sign(space, a, s[j + 1]) /\ StringPlace(s, p, j + 1) = a + 1
  <2> DEFINE c == s[j + 1]
             x == <<c>>
  <2>1. c \in Character /\ j + 1 \in 1..Len(s)
    BY <1>16
  <2>2. es[j + 1] = x
    BY <1>3, <1>16, <2>1
  <2> HIDE DEF c
  <2>3. Len(x) = 1
    BY <2>1
  <2>4. IsAt(space, a, <<c>>) /\ StringPlace(s, p, j + 1) = a + 1
    BY <1>14, <1>16, <2>2, <2>3
  <2>5. Len(Text(value, space)) \in Nat
    BY <1>1 DEF t
  <2> HIDE DEF x, a
  <2>6. Sign(space, a, c)
    BY <2>1, <2>4, <2>5, SignAlone
  <2> QED BY <2>4, <2>6 DEF c
<1> HIDE DEF a
<1> QED BY <1>5, <1>9, <1>11, <1>12, <1>13, <1>15, <1>16 DEF a
-----------------------------------------------------------------------------
(* Numbers in the text. *)

LEMMA DigitIs ==
  ASSUME NEW m \in Nat, NEW k \in Nat, Digit(m) = Digit(k)
  PROVE  m % Base = k % Base
<1> DEFINE a == m % Base
           b == k % Base
<1>1. a \in 0..(Base - 1) /\ b \in 0..(Base - 1)
  BY DivMod
<1>2. Digits[a + 1] = Digits[b + 1]
  BY DEF Digit
<1> HIDE DEF a, b
<1>3. a + 1 \in 1..Len(Digits) /\ b + 1 \in 1..Len(Digits)
  BY <1>1, BaseType DEF Base
<1>4. a + 1 = b + 1
  BY <1>2, <1>3, JsonAssumption
<1>5. a = b
  BY <1>1, <1>4, BaseType
<1> QED BY <1>5 DEF a, b

\* A numeral of one digit, and one of more.
LEMMA NumeralSize ==
  ASSUME NEW n \in Nat
  PROVE  /\ Numeral[n] \in Seq(ToSet(Digits)) /\ Len(Numeral[n]) \in Nat \ {0}
         /\ n < Base \/ n >= Base
         /\ n < Base => Numeral[n] = <<Digit(n)>> /\ Len(Numeral[n]) = 1
         /\ n >= Base =>
              /\ Numeral[n] = Numeral[n \div Base] \o <<Digit(n)>>
              /\ Len(Numeral[n]) = Len(Numeral[n \div Base]) + 1
              /\ n \div Base \in Nat /\ n \div Base < n
              /\ Numeral[n \div Base] \in Seq(ToSet(Digits))
              /\ Len(Numeral[n \div Base]) \in Nat \ {0}
         /\ Digit(n) \in ToSet(Digits)
<1> DEFINE q == n \div Base
           c == Digit(n)
<1>1. Numeral[n] = IF n < Base THEN <<c>> ELSE Numeral[q] \o <<c>>
  BY NumeralIs
<1>2. Numeral[n] \in Seq(ToSet(Digits)) /\ Len(Numeral[n]) \in Nat \ {0}
  BY NumeralType
<1>3. c \in ToSet(Digits)
  BY DigitType
<1>4. n < Base \/ n >= Base
  BY BaseType
<1>5. ASSUME n < Base PROVE Numeral[n] = <<Digit(n)>> /\ Len(Numeral[n]) = 1
  BY <1>1, <1>5
<1>6. ASSUME n >= Base
      PROVE  /\ Numeral[n] = Numeral[n \div Base] \o <<Digit(n)>>
             /\ Len(Numeral[n]) = Len(Numeral[n \div Base]) + 1
             /\ n \div Base \in Nat /\ n \div Base < n
             /\ Numeral[n \div Base] \in Seq(ToSet(Digits))
             /\ Len(Numeral[n \div Base]) \in Nat \ {0}
  <2>1. q \in Nat /\ q < n /\ ~(n < Base)
    BY <1>6, DivMod, BaseType
  <2> HIDE DEF q, c
  <2>2. Numeral[n] = Numeral[q] \o <<c>>
    BY <1>1, <2>1
  <2>3. Numeral[q] \in Seq(ToSet(Digits)) /\ Len(Numeral[q]) \in Nat \ {0}
    BY <2>1, NumeralType
  <2> DEFINE f == Numeral[q]
  <2>4. f \in Seq(ToSet(Digits))
    BY <2>3
  <2> HIDE DEF f
  <2>5. Len(f \o <<c>>) = Len(f) + 1
    BY <1>3, <2>4
  <2> QED BY <2>1, <2>2, <2>3, <2>5 DEF f, q, c
<1> QED BY <1>2, <1>3, <1>4, <1>5, <1>6

\* Sequences that are the same with one more each.
LEMMA SameEnds ==
  ASSUME NEW S, NEW f \in Seq(S), NEW g \in Seq(S), NEW a \in S, NEW b \in S,
         f \o <<a>> = g \o <<b>>
  PROVE  f = g /\ a = b
<1>1. Len(f) = Len(g)
  <2>1. Len(f \o <<a>>) = Len(f) + 1 /\ Len(g \o <<b>>) = Len(g) + 1
    OBVIOUS
  <2>2. Len(f) \in Nat /\ Len(g) \in Nat
    OBVIOUS
  <2> QED BY <2>1, <2>2
<1>2. a = b
  <2>1. (f \o <<a>>)[Len(f) + 1] = a /\ (g \o <<b>>)[Len(g) + 1] = b
    OBVIOUS
  <2> QED BY <1>1, <2>1
<1>3. ASSUME NEW j \in 1..Len(f) PROVE f[j] = g[j]
  <2>1. (f \o <<a>>)[j] = f[j] /\ (g \o <<b>>)[j] = g[j]
    BY <1>1
  <2> QED BY <2>1
<1>4. f = g
  BY <1>1, <1>3
<1> QED BY <1>2, <1>4

\* A numeral is that of one number only.
LEMMA NumeralSame ==
  ASSUME NEW n \in Nat, NEW l \in Nat, Numeral[n] = Numeral[l]
  PROVE  n = l
<1> DEFINE Twice(m) == \E k \in Nat : Numeral[m] = Numeral[k] /\ m # k
           Wrong == {m \in 0..n : Twice(m)}
<1>1. ASSUME Wrong # {} PROVE FALSE
  <2>1. PICK m \in Wrong : \A j \in Wrong : m <= j
    <3>1. Wrong \subseteq Nat
      OBVIOUS
    <3> HIDE DEF Wrong
    <3> QED BY <1>1, <3>1, LeastNumber
  <2>2. m \in 0..n /\ m \in Nat /\ Twice(m)
    OBVIOUS
  <2>3. PICK k \in Nat : Numeral[m] = Numeral[k] /\ m # k
    BY <2>2
  <2>4. CASE m < Base
    <3>1. Numeral[m] = <<Digit(m)>> /\ Len(Numeral[m]) = 1
      BY <2>2, <2>4, NumeralSize
    <3>2. k < Base /\ Numeral[k] = <<Digit(k)>>
      <4>1. ~(k >= Base)
        <5> SUFFICES ASSUME k >= Base PROVE FALSE
          OBVIOUS
        <5> DEFINE x == Len(Numeral[k \div Base])
        <5>1. Len(Numeral[k]) = x + 1 /\ x \in Nat \ {0}
          BY NumeralSize
        <5> HIDE DEF x
        <5> QED BY <2>3, <3>1, <5>1
      <4> QED BY <4>1, NumeralSize
    <3>3. Digit(m) = Digit(k)
      <4>1. <<Digit(m)>> = <<Digit(k)>>
        BY <2>3, <3>1, <3>2
      <4> QED BY <4>1
    <3>4. m % Base = k % Base
      BY <2>2, <3>3, DigitIs
    <3>5. m % Base = m /\ k % Base = k
      BY <2>2, <2>4, <3>2, DivMod
    <3> QED BY <2>3, <3>4, <3>5
  <2>5. CASE m >= Base
    <3> DEFINE q == m \div Base
               r == k \div Base
               f == Numeral[q]
               g == Numeral[r]
    <3>1. /\ Numeral[m] = f \o <<Digit(m)>> /\ Len(Numeral[m]) = Len(f) + 1
          /\ f \in Seq(ToSet(Digits)) /\ Len(f) \in Nat \ {0} /\ q \in Nat /\ q < m
      BY <2>2, <2>5, NumeralSize
    <3>2. k >= Base
      <4> SUFFICES ASSUME k < Base PROVE FALSE
        BY NumeralSize
      <4>1. Len(Numeral[k]) = 1
        BY NumeralSize
      <4> HIDE DEF f
      <4> QED BY <2>3, <3>1, <4>1
    <3>3. /\ Numeral[k] = g \o <<Digit(k)>>
          /\ g \in Seq(ToSet(Digits)) /\ r \in Nat
      BY <3>2, NumeralSize
    <3>4. f = g /\ Digit(m) = Digit(k)
      <4> DEFINE a == Digit(m)
                 b == Digit(k)
      <4>1. a \in ToSet(Digits) /\ b \in ToSet(Digits)
        BY <2>2, DigitType
      <4>2. f \in Seq(ToSet(Digits)) /\ g \in Seq(ToSet(Digits)) /\ f \o <<a>> = g \o <<b>>
        BY <2>3, <3>1, <3>3
      <4> HIDE DEF f, g, a, b
      <4>3. f = g /\ a = b
        BY <4>1, <4>2, SameEnds
      <4> QED BY <4>3 DEF a, b
    <3>5. q = r
      <4>1. q \notin Wrong /\ q \in 0..n
        <5> HIDE DEF Wrong, q
        <5> QED BY <2>1, <2>2, <3>1
      <4>2. ~Twice(q)
        <5> HIDE DEF q, Twice
        <5> QED BY <4>1
      <4> HIDE DEF q, r
      <4> QED BY <3>3, <3>4, <4>2 DEF f, g
    <3>6. m % Base = k % Base
      BY <2>2, <3>4, DigitIs
    <3>7. m = q * Base + (m % Base) /\ k = r * Base + (k % Base)
      BY <2>2, DivMod
    <3> HIDE DEF q, r
    <3> QED BY <2>3, <3>5, <3>6, <3>7
  <2>6. m < Base \/ m >= Base
    BY <2>2, NumeralSize
  <2> QED BY <2>4, <2>5, <2>6
<1>2. n \notin Wrong
  BY <1>1
<1>3. ~Twice(n)
  <2> HIDE DEF Twice
  <2> QED BY <1>2
<1> QED BY <1>3

\* A numeral begins with numerals, of numbers that are not greater.
LEMMA NumeralBegins ==
  ASSUME NEW n \in Nat, NEW l \in 1..Len(Numeral[n])
  PROVE  \E x \in 0..n : Numeral[x] = SubSeq(Numeral[n], 1, l)
<1> DEFINE Good(m) == \A k \in 1..Len(Numeral[m]) :
                        \E x \in 0..m : Numeral[x] = SubSeq(Numeral[m], 1, k)
           Wrong == {m \in 0..n : ~Good(m)}
<1>1. ASSUME Wrong # {} PROVE FALSE
  <2>1. PICK m \in Wrong : \A j \in Wrong : m <= j
    <3>1. Wrong \subseteq Nat
      OBVIOUS
    <3> HIDE DEF Wrong
    <3> QED BY <1>1, <3>1, LeastNumber
  <2>2. m \in 0..n /\ m \in Nat /\ ~Good(m)
    OBVIOUS
  <2>3. PICK k \in 1..Len(Numeral[m]) :
               \A x \in 0..m : Numeral[x] # SubSeq(Numeral[m], 1, k)
    BY <2>2
  <2> DEFINE s == Numeral[m]
  <2>4. s \in Seq(ToSet(Digits)) /\ Len(s) \in Nat \ {0} /\ m \in 0..m
    <3>1. m \in 0..m
      BY <2>2
    <3>2. s \in Seq(ToSet(Digits)) /\ Len(s) \in Nat \ {0}
      BY <2>2, NumeralSize
    <3> QED BY <3>1, <3>2
  <2>5. k # Len(s)
    <3> SUFFICES ASSUME k = Len(s) PROVE FALSE
      OBVIOUS
    <3>1. SubSeq(s, 1, Len(s)) = s
      <4> HIDE DEF s
      <4> QED BY <2>4
    <3> QED BY <2>3, <2>4, <3>1
  <2>6. m >= Base
    <3> SUFFICES ASSUME m < Base PROVE FALSE
      BY <2>2, NumeralSize
    <3>1. Len(s) = 1
      BY <2>2, NumeralSize
    <3> HIDE DEF s
    <3> QED BY <2>3, <2>5, <3>1 DEF s
  <2> DEFINE q == m \div Base
             f == Numeral[q]
             c == Digit(m)
  <2>7. /\ s = f \o <<c>> /\ Len(s) = Len(f) + 1
        /\ f \in Seq(ToSet(Digits)) /\ Len(f) \in Nat \ {0} /\ q \in Nat /\ q < m
        /\ c \in ToSet(Digits)
    BY <2>2, <2>6, NumeralSize
  <2>8. Good(q)
    <3>1. q \in 0..n /\ q \notin Wrong
      <4> HIDE DEF Wrong, q
      <4> QED BY <2>1, <2>2, <2>7
    <3> HIDE DEF Good, q
    <3> QED BY <3>1
  <2>9. k \in 1..Len(f)
    <3>1. k \in 1..Len(s) /\ k # Len(s)
      BY <2>3, <2>5
    <3> HIDE DEF s, f
    <3> QED BY <2>7, <3>1
  <2>10. PICK x \in 0..q : Numeral[x] = SubSeq(f, 1, k)
    BY <2>8, <2>9
  <2>11. SubSeq(s, 1, k) = SubSeq(f, 1, k)
    <3> HIDE DEF s, f, c
    <3>1. SubSeq(f \o <<c>>, 1, k) = SubSeq(f, 1, k)
      BY <2>7, <2>9
    <3> QED BY <2>7, <3>1
  <2>12. x \in 0..m
    <3> HIDE DEF q
    <3> QED BY <2>7, <2>10
  <2> QED BY <2>3, <2>10, <2>11, <2>12
<1>2. n \notin Wrong
  BY <1>1
<1>3. Good(n)
  <2> HIDE DEF Good
  <2> QED BY <1>2
<1> QED BY <1>3

\* The digit that is next is what the number read so far lacks.
LEMMA NumeralGoesOn ==
  ASSUME NEW n \in 0..(Range64 - 1), NEW l \in Nat, l < Len(Numeral[n]),
         NEW x \in Nat,
         IF l = 0 THEN x = 0 ELSE Numeral[x] = SubSeq(Numeral[n], 1, l),
         NEW d \in 1..Len(Digits), Numeral[n][l + 1] = Digits[d]
  PROVE  /\ Accumulate(x, d - 1) \in 0..n
         /\ Numeral[Accumulate(x, d - 1)] = SubSeq(Numeral[n], 1, l + 1)
<1> DEFINE s == Numeral[n]
           y == x * Base + (d - 1)
<1>1. n \in Nat /\ n < Range64 /\ Range64 \in Nat /\ Range64 > 0 /\ Base \in Nat /\ Base > 1
      /\ d \in 1..Base /\ d - 1 \in 0..(Base - 1) /\ d - 1 \in Nat
  BY BaseType, JsonAssumption DEF Base
<1>2. s \in Seq(ToSet(Digits)) /\ Len(s) \in Nat \ {0}
  BY <1>1, NumeralSize
<1>3. l + 1 \in 1..Len(s)
  <2> HIDE DEF s
  <2> QED BY <1>2 DEF s
<1>4. PICK z \in 0..n : Numeral[z] = SubSeq(s, 1, l + 1)
  BY <1>1, <1>3, NumeralBegins
<1> DEFINE f == SubSeq(s, 1, l)
           g == SubSeq(s, 1, l + 1)
<1>5. g = f \o <<Digits[d]>> /\ Len(g) = l + 1 /\ Len(f) = l
      /\ f \in Seq(ToSet(Digits)) /\ Digits[d] \in ToSet(Digits)
  <2>1. s[l + 1] = Digits[d]
    OBVIOUS
  <2> HIDE DEF s
  <2>2. s[l + 1] \in ToSet(Digits)
    BY <1>2, <1>3
  <2>3. Len(g) = l + 1 /\ Len(f) = l /\ f \in Seq(ToSet(Digits)) /\ g \in Seq(ToSet(Digits))
    BY <1>2, <1>3
  <2> DEFINE c == s[l + 1]
             h == f \o <<c>>
  <2>4. h \in Seq(ToSet(Digits)) /\ Len(h) = l + 1
    <3> HIDE DEF f, c
    <3> QED BY <2>2, <2>3 DEF c
  <2>5. \A j \in 1..(l + 1) : g[j] = h[j]
    <3> SUFFICES ASSUME NEW j \in 1..(l + 1) PROVE g[j] = h[j]
      OBVIOUS
    <3>1. g[j] = s[j]
      BY <1>2, <1>3
    <3>2. CASE j = l + 1
      <4> HIDE DEF f, g, c
      <4>1. (f \o <<c>>)[Len(f) + 1] = c
        <5>1. f \in Seq(ToSet(Digits)) /\ c \in ToSet(Digits)
          BY <2>2, <2>3 DEF c
        <5> QED BY ONLY <5>1
      <4>2. h[j] = c
        BY <2>3, <3>2, <4>1
      <4> QED BY <3>1, <3>2, <4>2 DEF c
    <3>3. CASE j # l + 1
      <4>1. j \in 1..l
        BY <3>3
      <4>2. f[j] = s[j]
        BY <1>2, <1>3, <4>1
      <4> HIDE DEF f, g, c
      <4>3. h[j] = f[j]
        BY <2>2, <2>3, <4>1 DEF c
      <4> QED BY <3>1, <4>2, <4>3
    <3> QED BY <3>2, <3>3
  <2>6. g = h
    <3> HIDE DEF g, h, f
    <3> QED BY <2>3, <2>4, <2>5
  <2> QED BY <2>1, <2>2, <2>3, <2>6
<1> HIDE DEF f, g
<1>6. z \in Nat /\ Numeral[z] = g
  BY <1>1, <1>4 DEF g
<1>7. ASSUME NEW r \in Nat, Digit(r) = Digits[d] PROVE r % Base = d - 1
  <2> DEFINE e == d - 1
  <2>1. e \in Nat /\ e < Base /\ e + 1 = d
    BY <1>1
  <2> HIDE DEF e
  <2>2. e % Base = e
    BY <2>1, DivMod
  <2>3. Digit(e) = Digits[d]
    BY <2>1, <2>2 DEF Digit
  <2>4. r % Base = e
    BY <1>7, <2>1, <2>2, <2>3, DigitIs
  <2> QED BY <2>4 DEF e
<1>8. z = y
  <2>1. CASE l = 0
    <3>1. z < Base
      <4> SUFFICES ASSUME z >= Base PROVE FALSE
        BY <1>6, NumeralSize
      <4> DEFINE k == Len(Numeral[z \div Base])
      <4>1. Len(Numeral[z]) = k + 1 /\ k \in Nat \ {0}
        BY <1>6, NumeralSize
      <4> HIDE DEF k
      <4> QED BY <1>5, <1>6, <2>1, <4>1
    <3>2. Numeral[z] = <<Digit(z)>>
      BY <1>6, <3>1, NumeralSize
    <3>3. Digit(z) = Digits[d]
      <4>1. f = << >>
        BY <1>5, <2>1
      <4>2. g = <<Digits[d]>>
        BY <1>5, <4>1
      <4>3. <<Digit(z)>> = <<Digits[d]>>
        BY <1>6, <3>2, <4>2
      <4> QED BY <4>3
    <3>4. z % Base = d - 1 /\ z % Base = z
      BY <1>6, <1>7, <3>1, <3>3, DivMod
    <3>5. x = 0
      BY <2>1
    <3> QED BY <1>1, <3>4, <3>5
  <2>2. CASE l # 0
    <3>1. z >= Base
      <4> SUFFICES ASSUME z < Base PROVE FALSE
        BY <1>6, NumeralSize
      <4>1. Len(Numeral[z]) = 1
        BY <1>6, NumeralSize
      <4> QED BY <1>5, <1>6, <2>2, <4>1
    <3> DEFINE q == z \div Base
               h == Numeral[q]
    <3>2. /\ Numeral[z] = h \o <<Digit(z)>> /\ q \in Nat
          /\ h \in Seq(ToSet(Digits)) /\ Digit(z) \in ToSet(Digits)
      BY <1>6, <3>1, NumeralSize
    <3>3. h = f /\ Digit(z) = Digits[d]
      <4> DEFINE a == Digit(z)
                 b == Digits[d]
      <4>1. /\ h \o <<a>> = f \o <<b>> /\ h \in Seq(ToSet(Digits)) /\ a \in ToSet(Digits)
            /\ f \in Seq(ToSet(Digits)) /\ b \in ToSet(Digits)
        BY <1>5, <1>6, <3>2
      <4> HIDE DEF h, a, b
      <4>2. h = f /\ a = b
        BY <4>1, SameEnds
      <4> QED BY <4>2 DEF a, b
    <3>4. q = x
      <4>1. Numeral[q] = Numeral[x]
        BY <2>2, <3>3 DEF f
      <4> HIDE DEF q
      <4> QED BY <3>2, <4>1, NumeralSame
    <3>5. z % Base = d - 1
      BY <1>6, <1>7, <3>3
    <3>6. z = q * Base + (z % Base)
      BY <1>6, DivMod
    <3> HIDE DEF q
    <3> QED BY <3>4, <3>5, <3>6
  <2> QED BY <2>1, <2>2
<1>9. Accumulate(x, d - 1) = z
  <2>1. Accumulate(x, d - 1) = y % Range64
    BY DEF Accumulate, Base
  <2>2. y % Range64 = z
    <3>1. z \in Nat /\ z < Range64
      BY <1>1
    <3> HIDE DEF y
    <3> QED BY <1>1, <1>8, <3>1
  <2> QED BY <2>1, <2>2
<1> QED BY <1>4, <1>9
-----------------------------------------------------------------------------
(* Where the parser of a value's text, or of its beginning, can be. *)

\* The text is the value's, or begins like it.
Begins(space) ==
  /\ Len(text) <= Len(Text(value, space))
  /\ \A i \in 1..Len(text) : text[i] = Text(value, space)[i]

\* The text cannot be accepted any more.
Stopped(space) == memory.failed > 0 \/ Len(text) < Len(Text(value, space))

\* The nodes are the first ones of the value, but for objects that could not be made.
Alike ==
  /\ Len(tree) <= Len(value)
  /\ \A i \in 1..Len(tree) :
       /\ tree[i].depth = value[i].depth /\ tree[i].key = Arrived(value[i].key)
       /\ \/ tree[i].item = ArrivedItem(value[i].item)
          \/ value[i].item = Object /\ tree[i].item = Nothing

\* After a failure the parser goes on in an object that it could not make.
Missing == memory.failed > 0 => \E k \in 1..Len(open) : tree[open[k]].item = Nothing

\* A value is due in the innermost object.
Due == /\ Alike /\ Missing
       /\ Len(tree) < Len(value)
       /\ Len(open) = value[NewNode].depth

DueItem == Due /\ key = Arrived(value[NewNode].key)

\* The string read so far is the beginning of what arrives of s, which is at p.
Within(s, p) ==
  /\ from = p /\ p < Len(text)
  /\ Len(string) <= Len(s)
  /\ \A j \in 1..Len(string) : string[j] = Arrived(s)[j]
  /\ at = StringPlace(s, p, Len(string))

\* The number read so far is the beginning of n, which is at p.
WithinNumber(n, p) ==
  /\ from = p /\ at >= p /\ at <= Len(text)
  /\ at - p <= Len(Numeral[n])
  /\ IF at - p = 0 THEN number = 0
     ELSE number \in 0..n /\ Numeral[number] = SubSeq(Numeral[n], 1, at - p)

\* No object begins at p, and no other value.
NoObject(p) == SkipSpace(p) = p /\ ~Is(p, "{")

Barren(p) == NoObject(p) /\ \A c \in {"t", "f"} \cup ToSet(Digits) : ~Is(p, c)

\* Behind the last node, and the ends of the objects closed since.
Behind(space) ==
  /\ Alike /\ Missing
  /\ Len(open) <= Level(value, Len(tree))
  /\ at = Done(space, Len(tree)) + (Level(value, Len(tree)) - Len(open))

\* The depth of the next value, if there is one, is d at most.
NextWithin(d) == Len(tree) < Len(value) => value[NewNode].depth <= d

AtKey(space) ==
  Due /\ KeyAt(space, NewNode) = at + IF HasPairs(value, Len(tree)) THEN 0 ELSE Len(space)

InKey(space) == Due /\ Within(value[NewNode].key, KeyAt(space, NewNode))

AtString(space) == DueItem /\ ItemAt(space, NewNode) = at + Len(space)

InItem(space) == /\ DueItem /\ value[NewNode].item.type = "string"
                 /\ Within(value[NewNode].item.string, ItemAt(space, NewNode))

\* The item is due, and has come.
AtItem(space) == DueItem /\ ItemAt(space, NewNode) = at /\ at < Len(text)

AtNumber(space) == AtItem(space) /\ value[NewNode].item.type # "string"

InDigits(space) ==
  /\ DueItem /\ ItemAt(space, NewNode) < Len(text)
  /\ \/ /\ value[NewNode].item.type = "number"
        /\ WithinNumber(value[NewNode].item.number, ItemAt(space, NewNode))
     \/ /\ value[NewNode].item.type \in {"boolean", "object"}
        /\ from = at /\ ItemAt(space, NewNode) = at

AtBoolean(space) == AtItem(space) /\ value[NewNode].item.type \in {"boolean", "object"}

AtObject(space) ==
  DueItem /\ ItemAt(space, NewNode) = at /\ value[NewNode].item = Object

AtPush(space) ==
  Behind(space) /\ ~HasPairs(value, Len(tree)) /\ NextWithin(Len(open))

AtEnd(space) == Behind(space) /\ NextWithin(Len(open) - 1)

Reading(space) ==
  /\ pc = "key" => AtKey(space)
  /\ pc = "key_loop" => InKey(space)
  /\ pc = "string" => AtString(space)
  /\ pc = "string_loop" => InItem(space)
  /\ pc = "number" => AtNumber(space) \/ (Stopped(space) /\ Barren(at))
  /\ pc = "digits" => InDigits(space) \/ (Stopped(space) /\ Barren(at) /\ from = at)
  /\ pc = "boolean" => AtBoolean(space) \/ (Stopped(space) /\ Barren(at))
  /\ pc = "object" => AtObject(space) \/ (Stopped(space) /\ NoObject(at) /\ open # <<>>)
  /\ pc = "push" => AtPush(space) \/ (Stopped(space) /\ at >= Len(text))
  /\ pc = "end" => AtEnd(space) \/ (Stopped(space) /\ ~CanEnd)
  /\ pc \in {"out", "no_value", "refused"} => Stopped(space)
  /\ pc = "parsed" =>
       /\ tree = ArrivedValue(value) /\ memory.failed = 0
       /\ Len(text) = Len(Text(value, space))

TextPC == ParsePC \cup {"sent", "cut", "parsed", "refused"}

Fresh ==
  /\ pc \in BuildPC \cup {"sent", "cut"} => key = <<>>
  /\ pc \in {"sent", "cut"} => memory.failed = 0

InStep ==
  /\ Fresh
  /\ pc \in TextPC /\ value # <<>> =>
       /\ \E space \in Spaces : Begins(space)
       /\ \A space \in Spaces : Begins(space) => Reading(space)

-----------------------------------------------------------------------------
(* Reading a character. *)

\* The state of the parser: the text is that of a value, or begins like it.
Parses(space) == /\ IInv /\ value # <<>> /\ pc \in ParsePC
                 /\ space \in Spaces /\ Begins(space)

LEMMA ParsesIs ==
  ASSUME NEW space, Parses(space)
  PROVE  /\ TypeOK /\ space \in Spaces /\ Len(space) \in Nat
         /\ IsObject(value) /\ Complete(value) /\ Len(value) \in Nat \ {0}
         /\ Len(text) \in Nat /\ Len(Text(value, space)) \in Nat
         /\ Len(text) <= Len(Text(value, space))
         /\ Len(tree) \in Nat /\ NewNode = Len(tree) + 1
         /\ tree \in Seq(Node) /\ open \in Seq(Nat) /\ Len(open) \in Nat
         /\ string \in Seq(Character) /\ at \in Nat /\ from \in Nat
         /\ memory \in MemoryType /\ memory.failed \in Nat
         /\ pc # "object" => Len(open) > 0 /\ Len(tree) > 0 /\ open # <<>>
<1>1. /\ TypeOK /\ value \in Values /\ Nested(tree, open)
      /\ pc # "object" => open # <<>>
  BY DEF Parses, IInv, TypeOK, Kept, Stack
<1>2. IsObject(value) /\ Len(value) \in Nat \ {0} /\ Complete(value)
  BY <1>1, ValueType, ObjectIsComplete
<1>3. /\ text \in Seq(Character) /\ tree \in Seq(Node) /\ open \in Seq(Nat)
      /\ string \in Seq(Character) /\ at \in Nat /\ from \in Nat /\ memory \in MemoryType
  BY <1>1 DEF TypeOK
<1>4. /\ Len(text) \in Nat /\ Len(tree) \in Nat /\ Len(open) \in Nat
      /\ memory.failed \in Nat /\ NewNode = Len(tree) + 1
  BY <1>3 DEF MemoryType, NewNode
<1>5. space \in Spaces /\ Len(text) <= Len(Text(value, space))
  BY DEF Parses, Begins
<1>6. Len(space) \in Nat
  BY <1>5, SpaceType
<1>7. Len(Text(value, space)) \in Nat
  BY <1>2, <1>5, TextSize
<1>8. ASSUME pc # "object" PROVE Len(open) > 0 /\ Len(tree) > 0 /\ open # <<>>
  <2>1. open # <<>>
    BY <1>1, <1>8
  <2>2. Len(open) > 0
    BY <1>3, <2>1
  <2>3. open[1] = 1 /\ open[1] \in 1..Len(tree)
    BY <1>1, <1>4, <2>1, <2>2 DEF Nested
  <2> QED BY <1>4, <2>1, <2>2, <2>3
<1> QED BY <1>1, <1>2, <1>3, <1>4, <1>5, <1>6, <1>7, <1>8

LEMMA SignRead ==
  ASSUME NEW space, Parses(space), NEW p, NEW c, Sign(space, p, c)
  PROVE  /\ p \in Nat
         /\ p < Len(text) => At(p) = c /\ text[p + 1] = c
         /\ p >= Len(text) => Stopped(space) /\ Len(text) < Len(Text(value, space))
         /\ p < Len(text) \/ p >= Len(text)
<1>1. Len(text) \in Nat /\ Len(Text(value, space)) \in Nat
  BY ParsesIs
<1>2. p \in Nat /\ p < Len(Text(value, space)) /\ Text(value, space)[p + 1] = c
  BY DEF Sign
<1>3. ASSUME p < Len(text) PROVE At(p) = c /\ text[p + 1] = c
  <2>1. p + 1 \in 1..Len(text)
    BY <1>1, <1>2, <1>3
  <2>2. text[p + 1] = c
    BY <1>2, <2>1 DEF Parses, Begins
  <2> QED BY <1>3, <2>2 DEF At
<1> QED BY <1>1, <1>2, <1>3 DEF Stopped

\* Spaces up to r are skipped, if the text goes on there.
LEMMA SkipTo ==
  ASSUME TypeOK, NEW p \in Nat, NEW r \in Nat, p <= r,
         \A q \in p..(r - 1) : q < Len(text) => text[q + 1] = Blank,
         r < Len(text) => text[r + 1] # Blank
  PROVE  SkipSpace(p) = IF r < Len(text) THEN r ELSE p
<1> DEFINE n == Len(text) - 1
           others == {q \in p..n : text[q + 1] # Blank}
<1>1. SkipSpace(p) = IF others = {} THEN p
                     ELSE CHOOSE q \in others : \A o \in others : q <= o
  BY DEF SkipSpace, Blank
<1>2. Len(text) \in Nat /\ n \in Int
  BY DEF TypeOK
<1>3. \A q \in others : q \in Nat /\ q >= r
  <2> SUFFICES ASSUME NEW q \in others PROVE q \in Nat /\ q >= r
    OBVIOUS
  <2>1. q \in p..n /\ text[q + 1] # Blank
    OBVIOUS
  <2> HIDE DEF others
  <2>2. q \in Nat /\ q < Len(text) /\ q >= p
    BY <1>2, <2>1
  <2>3. ~(q \in p..(r - 1))
    BY <2>1, <2>2
  <2> QED BY <2>2, <2>3
<1>4. CASE r < Len(text)
  <2>1. r \in others
    BY <1>2, <1>4
  <2> HIDE DEF others
  <2>2. others # {} /\ \E q \in others : \A o \in others : q <= o
    BY <1>3, <2>1
  <2>3. SkipSpace(p) \in others /\ \A o \in others : SkipSpace(p) <= o
    BY <1>1, <2>2
  <2>4. SkipSpace(p) >= r /\ SkipSpace(p) <= r /\ SkipSpace(p) \in Nat
    BY <1>3, <2>1, <2>3
  <2> QED BY <1>4, <2>4
<1>5. CASE ~(r < Len(text))
  <2>1. others = {}
    <3> SUFFICES ASSUME NEW q \in others PROVE FALSE
      OBVIOUS
    <3>1. q \in p..n
      OBVIOUS
    <3> HIDE DEF others
    <3>2. q >= r /\ q \in Nat
      BY <1>3
    <3> QED BY <1>2, <1>5, <3>1, <3>2
  <2> HIDE DEF others
  <2> QED BY <1>1, <1>5, <2>1
<1> QED BY <1>4, <1>5

\* No space is skipped where none is, or nothing.
LEMMA SkipNone ==
  ASSUME TypeOK, NEW p \in Nat, p < Len(text) => At(p) # Blank
  PROVE  SkipSpace(p) = p
<1>1. p <= p /\ \A q \in p..(p - 1) : q < Len(text) => text[q + 1] = Blank
  OBVIOUS
<1>2. p < Len(text) => text[p + 1] # Blank
  BY DEF At
<1> QED BY <1>1, <1>2, SkipTo

\* The space that may be before a key or an item.
LEMMA SkipLayout ==
  ASSUME NEW space, Parses(space), NEW p \in Nat, NEW c, NEW gap \in Spaces,
         IsAt(space, p, gap), Sign(space, p + Len(gap), c), c # Blank
  PROVE  /\ p + Len(gap) < Len(text) => /\ SkipSpace(p) = p + Len(gap)
                                        /\ At(p + Len(gap)) = c
         /\ p + Len(gap) >= Len(text) =>
              /\ SkipSpace(p) = p /\ Stopped(space)
              /\ p < Len(text) => At(p) = Blank
         /\ p + Len(gap) < Len(text) \/ p + Len(gap) >= Len(text)
         /\ p + Len(gap) \in Nat
<1> DEFINE r == p + Len(gap)
<1>1. TypeOK /\ Len(text) \in Nat /\ Len(Text(value, space)) \in Nat
  BY ParsesIs
<1>2. gap \in Seq(Character) /\ Len(gap) \in Nat /\ \A j \in 1..Len(gap) : gap[j] = Blank
  <2>1. gap \in Seq(Character) /\ Len(gap) \in Nat
    BY SpaceType
  <2>2. CASE gap = << >>
    BY <2>1, <2>2
  <2>3. CASE gap = <<Blank>>
    <3>1. Len(gap) = 1 /\ gap[1] = Blank
      BY <2>3
    <3> QED BY <2>1, <3>1
  <2> QED BY <2>1, <2>2, <2>3 DEF Spaces, Blank
<1>3. ASSUME NEW q \in p..(r - 1), q < Len(text) PROVE text[q + 1] = Blank
  <2> DEFINE j == q - p
  <2>1. j \in Nat /\ j < Len(gap) /\ p + j = q /\ j + 1 \in 1..Len(gap)
    BY <1>2
  <2> HIDE DEF j
  <2>2. Sign(space, p + j, gap[j + 1])
    BY <1>1, <1>2, <2>1, SignIn
  <2>3. Sign(space, q, Blank)
    BY <1>2, <2>1, <2>2
  <2> QED BY <1>3, <2>3, SignRead
<1>4. r \in Nat /\ p <= r
  BY <1>2
<1>5. /\ r < Len(text) => At(r) = c /\ text[r + 1] = c
      /\ r >= Len(text) => Stopped(space)
      /\ r < Len(text) \/ r >= Len(text)
  BY SignRead
<1> HIDE DEF r
<1>6. SkipSpace(p) = IF r < Len(text) THEN r ELSE p
  BY <1>1, <1>3, <1>4, <1>5, SkipTo
<1>7. ASSUME r >= Len(text), p < Len(text) PROVE At(p) = Blank
  <2>1. p \in p..(r - 1)
    BY <1>1, <1>4, <1>7
  <2> QED BY <1>3, <1>7, <2>1 DEF At
<1>8. r >= Len(text) => ~(r < Len(text))
  BY <1>1, <1>4
<1> QED BY <1>4, <1>5, <1>6, <1>7, <1>8 DEF r

LEMMA BarrenIs ==
  ASSUME TypeOK, NEW p, SkipSpace(p) = p,
         p < Len(text) => At(p) \in {"}", ",", ":", Blank, Quote}
  PROVE  Barren(p) /\ NoObject(p)
<1>1. \A c \in {"}", ",", ":", Blank, Quote} : c \notin ToSet(Digits) \cup {"t", "f", "{"}
  BY JsonAssumption DEF Marks, Quote, Blank
<1> QED BY <1>1 DEF Barren, NoObject, Is

\* The parser stays stopped.
LEMMA StoppedStill ==
  ASSUME NEW space, text' = text, value' = value, memory.failed \in Nat,
         \/ memory'.failed = memory.failed /\ Stopped(space)
         \/ memory'.failed = memory.failed + 1
         \/ Len(text) < Len(Text(value, space))
  PROVE  Stopped(space)'
  BY DEF Stopped

\* What depends on the text and the value only.
LEMMA SameText ==
  ASSUME NEW space, text' = text, value' = value, beyond' = beyond
  PROVE  /\ Begins(space)' <=> Begins(space)
         /\ \A k : Done(space, k)' = Done(space, k) /\ KeyAt(space, k)' = KeyAt(space, k)
                   /\ ItemAt(space, k)' = ItemAt(space, k)
         /\ \A p : SkipSpace(p)' = SkipSpace(p) /\ At(p)' = At(p)
         /\ \A p : (Barren(p)' <=> Barren(p)) /\ (NoObject(p)' <=> NoObject(p))
         /\ \A s, p, j : StringPlace(s, p, j)' = StringPlace(s, p, j)
<1>1. \A k : Done(space, k)' = Done(space, k)
  BY DEF Done
<1>2. \A k : KeyAt(space, k)' = KeyAt(space, k) /\ ItemAt(space, k)' = ItemAt(space, k)
  BY <1>1 DEF KeyAt, ItemAt
<1>3. \A p : SkipSpace(p)' = SkipSpace(p) /\ At(p)' = At(p)
  BY DEF SkipSpace, At
<1>4. \A p, c : Is(p, c)' <=> Is(p, c)
  BY DEF Is, At
<1>5. \A p : (Barren(p)' <=> Barren(p)) /\ (NoObject(p)' <=> NoObject(p))
  BY <1>3, <1>4 DEF Barren, NoObject
<1> QED BY <1>1, <1>2, <1>3, <1>5 DEF Begins, StringPlace
LEMMA CannotEnd ==
  ASSUME text' = text, beyond' = beyond, at' < Len(text) => At(at') # "}"
  PROVE  ~CanEnd'
  BY DEF CanEnd, At

LEMMA MissingMore ==
  ASSUME NEW space, Parses(space), Missing, memory'.failed = memory.failed,
         \A i \in 1..Len(tree) : tree'[i].item = tree[i].item,
         \A k \in 1..Len(open) : open'[k] = open[k],
         Len(open') \in Nat, Len(open') >= Len(open)
  PROVE  Missing'
<1>1. Nested(tree, open) /\ Len(open) \in Nat
  BY ParsesIs DEF Parses, IInv, Kept, Stack
<1>2. ASSUME memory'.failed > 0
      PROVE  \E k \in 1..Len(open') : tree'[open'[k]].item = Nothing
  <2>1. PICK k \in 1..Len(open) : tree[open[k]].item = Nothing
    BY <1>2 DEF Missing
  <2>2. open[k] \in 1..Len(tree) /\ k \in 1..Len(open')
    BY <1>1, <2>1 DEF Nested
  <2>3. tree'[open'[k]].item = Nothing
    BY <2>1, <2>2
  <2> QED BY <2>2, <2>3
<1> QED BY <1>2 DEF Missing

\* What is due stays due.
LEMMA DueStill ==
  ASSUME NEW space, Parses(space), Due,
         UNCHANGED <<value, tree, open>>, memory'.failed = memory.failed
  PROVE  Due' /\ (DueItem /\ key' = key => DueItem') /\ NewNode' = NewNode
         /\ Alike' /\ Missing'
  BY DEF Due, DueItem, Alike, Missing, NewNode

LEMMA DueIs ==
  ASSUME NEW space, Parses(space), Due
  PROVE  /\ NewNode \in 1..Len(value) /\ Len(open) = value[NewNode].depth
         /\ value[NewNode].item \in Item /\ value[NewNode].item # Nothing
         /\ value[NewNode].key \in Seq(Character)
         /\ IsAt(space, ItemAt(space, NewNode), Written(value[NewNode].item))
         /\ ItemAt(space, NewNode) \in Nat /\ Done(space, NewNode) \in Nat
         /\ Done(space, NewNode) =
              ItemAt(space, NewNode) + Len(Written(value[NewNode].item))
         /\ Len(Written(value[NewNode].item)) \in Nat
         /\ Alike /\ Missing
         /\ \E c : /\ Sign(space, ItemAt(space, NewNode), c)
                   /\ ItemBegins(value[NewNode].item, c)
<1> DEFINE i == NewNode
<1>1. IsObject(value) /\ Complete(value) /\ space \in Spaces
  BY ParsesIs
<1>2. i \in 1..Len(value) /\ Len(open) = value[i].depth /\ Alike /\ Missing
  BY ParsesIs DEF Due
<1> HIDE DEF i
<1>3. /\ value[i].item \in Item /\ value[i].item # Nothing
      /\ value[i].key \in Seq(Character)
  BY <1>1, <1>2, Levels
<1>4. /\ IsAt(space, ItemAt(space, i), Written(value[i].item))
      /\ ItemAt(space, i) \in Nat
      /\ Done(space, i) = ItemAt(space, i) + Len(Written(value[i].item))
      /\ Len(Written(value[i].item)) \in Nat
  BY <1>1, <1>2, ItemIsAt
<1>5. Done(space, i) \in Nat
  BY <1>4
<1>6. \E c : Sign(space, ItemAt(space, i), c) /\ ItemBegins(value[i].item, c)
  BY <1>1, <1>2, ItemSign
<1> QED BY <1>2, <1>3, <1>4, <1>5, <1>6 DEF i

\* The node is made that was due.
LEMMA AlikeMore ==
  ASSUME NEW space, Parses(space), DueItem, value' = value, NEW x, tree' = Grown(x),
         \/ x = ArrivedItem(value[NewNode].item)
         \/ value[NewNode].item = Object /\ x = Nothing
  PROVE  /\ Alike' /\ Len(tree') = NewNode /\ NewNode' = NewNode + 1
         /\ tree'[NewNode].item = x
         /\ \A i \in 1..Len(tree) : tree'[i] = tree[i]
<1> DEFINE n == NewNode
           node == [depth |-> Len(open), key |-> key, item |-> x]
<1>1. /\ n \in 1..Len(value) /\ Len(open) = value[n].depth /\ value[n].item \in Item
      /\ Alike /\ key = Arrived(value[n].key)
  BY DueIs DEF DueItem
<1>2. Len(tree) \in Nat /\ n = Len(tree) + 1 /\ TypeOK /\ tree \in Seq(Node)
  BY ParsesIs
<1>3. x \in Item
  BY <1>1, ArrivedIs DEF Item
<1>4. tree' = Append(tree, node) /\ node \in Node
  BY <1>2, <1>3, GrownType
<1>5. node.depth = value[n].depth /\ node.key = Arrived(value[n].key) /\ node.item = x
  BY <1>1
<1> HIDE DEF node
<1>6. /\ Len(tree') = n /\ tree'[n] = node
      /\ \A i \in 1..Len(tree) : tree'[i] = tree[i]
  BY <1>2, <1>4, AppendIs
<1> HIDE DEF n
<1>7. Len(tree') <= Len(value')
  BY <1>1, <1>6
<1>8. ASSUME NEW i \in 1..Len(tree')
      PROVE  /\ tree'[i].depth = value[i].depth /\ tree'[i].key = Arrived(value[i].key)
             /\ \/ tree'[i].item = ArrivedItem(value[i].item)
                \/ value[i].item = Object /\ tree'[i].item = Nothing
  <2>1. CASE i = n
    BY <1>5, <1>6, <2>1 DEF n
  <2>2. CASE i # n
    <3>1. i \in 1..Len(tree)
      BY <1>2, <1>6, <2>2
    <3> QED BY <1>1, <1>6, <3>1 DEF Alike
  <2> QED BY <2>1, <2>2
<1>9. NewNode' = n + 1
  BY <1>6 DEF NewNode
<1> QED BY <1>5, <1>6, <1>7, <1>8, <1>9 DEF Alike, n

-----------------------------------------------------------------------------
(* Reading a string that a value holds, or a key. *)

LEMMA WithinIs ==
  ASSUME NEW space, Parses(space), NEW s \in Seq(Character), NEW p,
         IsAt(space, p, Quoted(s)), Within(s, p)
  PROVE  /\ from = p /\ p \in Nat /\ p < Len(text) /\ At(p) = Quote /\ SkipSpace(p) = p
         /\ Len(string) = Len(s) =>
              string = Arrived(s) /\ at + 1 = p + Len(Quoted(s))
         /\ at >= Len(text) => Len(text) < Len(Text(value, space))
         /\ ~InString /\ at < Len(text) => Len(string) = Len(s)
         /\ InString /\ Meant >= Len(text) => Len(text) < Len(Text(value, space))
         /\ InString /\ Meant < Len(text) =>
              /\ Len(string) < Len(s)
              /\ At(Meant) = Arrived(s)[Len(string) + 1]
              /\ Meant + 1 = StringPlace(s, p, Len(string) + 1)
<1> DEFINE j == Len(string)
<1>1. /\ IsObject(value) /\ space \in Spaces /\ TypeOK /\ string \in Seq(Character)
      /\ Len(text) \in Nat /\ at \in Nat
  BY ParsesIs
<1>2. /\ j \in 0..Len(s) /\ Len(s) \in Nat /\ from = p /\ p < Len(text)
      /\ \A k \in 1..j : string[k] = Arrived(s)[k]
      /\ at = StringPlace(s, p, j)
  BY <1>1 DEF Within
<1>3. j = Len(s) => string = Arrived(s)
  <2> DEFINE b == Arrived(s)
  <2>1. b \in Seq(Character) /\ Len(b) = Len(s)
    BY ArrivedType
  <2> HIDE DEF b
  <2> QED BY <1>1, <1>2, <2>1 DEF b
<1> HIDE DEF j
<1>4. /\ p \in Nat /\ Sign(space, p, Quote)
      /\ j = Len(s) => Sign(space, at, Quote) /\ at + 1 = p + Len(Quoted(s))
      /\ j < Len(s) /\ Escapes(s[j + 1]) =>
           /\ Sign(space, at, Escape) /\ Sign(space, at + 1, Arrived(s)[j + 1])
           /\ StringPlace(s, p, j + 1) = at + 2
      /\ j < Len(s) /\ ~Escapes(s[j + 1]) =>
           Sign(space, at, s[j + 1]) /\ StringPlace(s, p, j + 1) = at + 1
  BY <1>1, <1>2, StringSigns
<1>5. At(p) = Quote
  BY <1>2, <1>4, SignRead
<1>6. SkipSpace(p) = p
  <2>1. At(p) # Blank
    BY <1>5 DEF Quote, Blank
  <2> QED BY <1>1, <1>4, <2>1, SkipNone
<1>7. j = Len(s) \/ j < Len(s)
  BY <1>2
<1>8. \E c : Sign(space, at, c)
  BY <1>4, <1>7
<1>9. at >= Len(text) => Len(text) < Len(Text(value, space))
  BY <1>8, SignRead
<1>10. CASE j = Len(s)
  <2>1. at < Len(text) => At(at) = Quote
    BY <1>4, <1>10, SignRead
  <2>2. ~InString
    BY <2>1 DEF InString
  <2> QED BY <1>2, <1>3, <1>4, <1>5, <1>6, <1>9, <1>10, <2>2 DEF j
<1>11. CASE j < Len(s) /\ Escapes(s[j + 1])
  <2>1. at < Len(text) => At(at) = Escape
    BY <1>4, <1>11, SignRead
  <2>2. at < Len(text) => InString /\ Meant = at + 1
    BY <2>1 DEF InString, Meant, Escape, Quote
  <2>3. InString => at < Len(text)
    BY DEF InString
  <2>4. /\ at + 1 < Len(text) => At(at + 1) = Arrived(s)[j + 1]
        /\ at + 1 >= Len(text) => Len(text) < Len(Text(value, space))
    BY <1>4, <1>11, SignRead
  <2>5. j # Len(s)
    BY <1>2, <1>11
  <2>6. InString /\ Meant < Len(text) =>
          At(Meant) = Arrived(s)[j + 1] /\ Meant + 1 = StringPlace(s, p, j + 1)
    <3>1. at + 1 + 1 = at + 2
      BY <1>1
    <3> QED BY <1>4, <1>11, <2>2, <2>3, <2>4, <3>1
  <2> QED BY <1>2, <1>4, <1>5, <1>6, <1>9, <1>11, <2>2, <2>3, <2>4, <2>5, <2>6 DEF j
<1>12. CASE j < Len(s) /\ ~Escapes(s[j + 1])
  <2>1. at < Len(text) => At(at) = s[j + 1]
    BY <1>4, <1>12, SignRead
  <2>2. at < Len(text) => InString /\ Meant = at
    BY <1>12, <2>1 DEF InString, Meant, Escapes
  <2>3. InString => at < Len(text)
    BY DEF InString
  <2>5. j # Len(s)
    BY <1>2, <1>12
  <2>6. InString => ~(Meant >= Len(text))
    BY <1>1, <2>2, <2>3
  <2>8. Arrived(s)[j + 1] = s[j + 1]
    <3>1. j + 1 \in 1..Len(s)
      BY <1>2, <1>12
    <3> QED BY <1>12, <3>1, ArrivedType DEF Escapes
  <2>7. InString => At(Meant) = Arrived(s)[j + 1] /\ Meant + 1 = StringPlace(s, p, j + 1)
    BY <1>4, <1>12, <2>1, <2>2, <2>3, <2>8
  <2> QED BY <1>2, <1>4, <1>5, <1>6, <1>9, <1>12, <2>2, <2>3, <2>5, <2>6, <2>7 DEF j
<1> QED BY <1>7, <1>10, <1>11, <1>12

LEMMA WithinMore ==
  ASSUME NEW space, Parses(space), NEW s \in Seq(Character), NEW p,
         IsAt(space, p, Quoted(s)), Within(s, p), StringGoesOn
  PROVE  Within(s, p)'
<1> DEFINE j == Len(string)
           c == At(Meant)
<1>1. /\ string' = Append(string, c) /\ at' = Meant + 1 /\ text' = text /\ from' = from
      /\ InString /\ Meant < Len(text)
  BY DEF StringGoesOn
<1>2. /\ j < Len(s) /\ c = Arrived(s)[j + 1] /\ Meant + 1 = StringPlace(s, p, j + 1)
      /\ from = p /\ p < Len(text)
  BY <1>1, WithinIs
<1>3. string \in Seq(Character) /\ j \in Nat /\ Len(s) \in Nat
  BY ParsesIs
<1>4. \A k \in 1..j : string[k] = Arrived(s)[k]
  BY DEF Within
<1>5. j + 1 \in 1..Len(s) /\ c \in Character
  <2>1. j + 1 \in 1..Len(s)
    BY <1>2, <1>3
  <2> QED BY <1>2, <2>1, ArrivedType
<1> HIDE DEF c
<1>6. /\ Len(string') = j + 1 /\ string'[j + 1] = c
      /\ \A k \in 1..j : string'[k] = string[k]
  BY <1>1, <1>3, <1>5, AppendIs
<1> HIDE DEF j
<1>7. \A k \in 1..(j + 1) : string'[k] = Arrived(s)[k]
  <2> SUFFICES ASSUME NEW k \in 1..(j + 1) PROVE string'[k] = Arrived(s)[k]
    OBVIOUS
  <2>1. k = j + 1 \/ k \in 1..j
    BY <1>3
  <2> QED BY <1>2, <1>4, <1>6, <2>1
<1>8. Len(string') <= Len(s)
  BY <1>2, <1>3, <1>6
<1>9. at' = StringPlace(s, p, Len(string'))
  BY <1>1, <1>2, <1>6
<1> QED BY <1>1, <1>2, <1>6, <1>7, <1>8, <1>9 DEF Within
LEMMA KeyIs ==
  ASSUME NEW space, Parses(space), pc # "object", Due
  PROVE  LET i == NewNode
             q == Quoted(value[i].key)
         IN /\ i # 1 /\ IsAt(space, KeyAt(space, i), q) /\ Len(q) \in Nat
            /\ Sign(space, KeyAt(space, i), Quote)
            /\ Sign(space, KeyAt(space, i) + Len(q), ":")
            /\ IsAt(space, ItemAt(space, i) - Len(space), space)
            /\ ItemAt(space, i) = KeyAt(space, i) + Len(q) + 1 + Len(space)
            /\ KeyAt(space, i) \in Nat
            /\ AtKey(space) =>
                 \E gap \in Spaces : IsAt(space, at, gap) /\ at + Len(gap) = KeyAt(space, i)
<1> DEFINE i == NewNode
           k == Len(tree)
           q == Quoted(value[i].key)
<1>1. /\ IsObject(value) /\ Complete(value) /\ space \in Spaces /\ Len(tree) > 0
      /\ Len(Text(value, space)) \in Nat /\ at \in Nat /\ Len(space) \in Nat
  BY ParsesIs
<1>2. i \in 1..Len(value) /\ i = k + 1 /\ k \in Nat /\ k > 0 /\ Len(value) \in Nat
      /\ value[i].key \in Seq(Character)
  BY ParsesIs, DueIs
<1>3. i # 1 /\ k \in 1..Len(value) /\ k < Len(value)
  BY <1>2
<1> HIDE DEF i, k
<1>4. /\ IsAt(space, KeyAt(space, i), q)
      /\ IsAt(space, KeyAt(space, i) + Len(q), <<":">>)
      /\ IsAt(space, ItemAt(space, i) - Len(space), space)
      /\ ItemAt(space, i) = KeyAt(space, i) + Len(q) + 1 + Len(space)
      /\ KeyAt(space, i) \in Nat /\ Len(q) \in Nat
  BY <1>1, <1>2, <1>3, ItemIsAt
<1>5. Sign(space, KeyAt(space, i), Quote)
  <2>1. 0 \in 0..Len(value[i].key)
    BY <1>2
  <2> QED BY <1>1, <1>2, <1>4, <2>1, StringSigns
<1>6. Sign(space, KeyAt(space, i) + Len(q), ":")
  <2>1. ":" \in Character
    BY DEF Character, Marks
  <2> HIDE DEF q
  <2> QED BY <1>1, <1>4, <2>1, SignAlone
<1>7. ASSUME AtKey(space)
      PROVE  \E gap \in Spaces : IsAt(space, at, gap) /\ at + Len(gap) = KeyAt(space, i)
  <2>1. KeyAt(space, i) = at + IF HasPairs(value, k) THEN 0 ELSE Len(space)
    BY <1>7 DEF AtKey, i, k
  <2>2. CASE HasPairs(value, k)
    <3> DEFINE gap == << >>
    <3>1. Len(gap) = 0 /\ gap \in Spaces /\ \A j \in 1..Len(gap) : FALSE
      BY DEF Spaces
    <3> HIDE DEF gap
    <3>2. at = KeyAt(space, i) /\ at + Len(gap) = at
      BY <1>1, <2>1, <2>2, <3>1
    <3>3. at < Len(Text(value, space))
      BY <1>5, <3>2 DEF Sign
    <3>4. IsAt(space, at, gap)
      BY <1>1, <3>1, <3>2, <3>3 DEF IsAt, Stands
    <3> QED BY <3>1, <3>2, <3>4
  <2>3. CASE ~HasPairs(value, k)
    <3>1. /\ IsAt(space, Done(space, k) + Ends(k) + 1, space)
          /\ KeyAt(space, k + 1) = Done(space, k) + Ends(k) + 1 + Len(space)
      BY <1>1, <1>3, <2>3, CommaSign
    <3>2. Done(space, k) + Ends(k) + 1 \in Nat
      BY <3>1 DEF IsAt, Stands
    <3> DEFINE p == Done(space, k) + Ends(k) + 1
    <3>3. KeyAt(space, i) = p + Len(space)
      BY <1>2, <3>1
    <3> HIDE DEF p
    <3>4. p = at /\ at + Len(space) = KeyAt(space, i)
      BY <1>1, <2>1, <2>3, <3>2, <3>3 DEF p
    <3> QED BY <1>1, <3>1, <3>4 DEF p
  <2> QED BY <2>2, <2>3
<1> QED BY <1>3, <1>4, <1>5, <1>6, <1>7 DEF i

LEMMA ReadingKeyBegins ==
  ASSUME NEW space, Parses(space), Reading(space), pc = "key",
         StringBegins("key", "key_loop", "end")
  PROVE  Reading(space)'
<1> DEFINE i == NewNode
           start == SkipSpace(at)
           b == KeyAt(space, i)
<1>1. /\ UNCHANGED <<value, tree, open, text, beyond>> /\ memory \in MemoryType
      /\ Len(text) \in Nat /\ memory.failed \in Nat /\ at \in Nat
  BY ParsesIs DEF StringBegins
<1>2. AtKey(space) /\ Due
  BY DEF Reading, AtKey
<1>3. PICK gap \in Spaces : IsAt(space, at, gap) /\ at + Len(gap) = b
  BY <1>2, KeyIs
<1>4. Sign(space, b, Quote) /\ b \in Nat /\ value[i].key \in Seq(Character) /\ Quote # " "
      /\ IsAt(space, b, Quoted(value[i].key)) /\ i \in 1..Len(value)
  BY <1>2, KeyIs, DueIs DEF Quote
<1>5. /\ b < Len(text) => start = b /\ At(b) = Quote
      /\ b >= Len(text) => /\ start = at /\ Stopped(space)
                           /\ at < Len(text) => At(at) = Blank
      /\ b < Len(text) \/ b >= Len(text)
  <2>1. Sign(space, at + Len(gap), Quote) /\ Quote # Blank
    BY <1>3, <1>4 DEF Blank
  <2>2. at \in Nat
    BY <1>1
  <2> HIDE DEF b
  <2> QED BY <1>3, <2>1, <2>2, SkipLayout
<1>6. CASE Is(start, Quote) /\ pc' = "key_loop" /\ at' = start + 1 /\ from' = start
           /\ string' = <<>> /\ memory' = Alloc(memory, Block(NewNode, "key"))
  <2>1. b < Len(text)
    <3> SUFFICES ASSUME b >= Len(text) PROVE FALSE
      BY <1>5
    <3>1. start < Len(text) /\ At(start) = Quote
      BY <1>6 DEF Is
    <3> QED BY <1>5, <3>1 DEF Blank, Quote
  <2>2. start = b
    BY <1>5, <2>1
  <2>3. memory'.failed = memory.failed
    BY <1>1, <1>6 DEF Alloc, MemoryType
  <2>4. Due' /\ NewNode' = NewNode
    BY <1>1, <1>2, <2>3, DueStill
  <2>5. StringPlace(value[i].key, b, 0) = b + 1
    <3>1. IsObject(value) /\ space \in Spaces
      BY ParsesIs
    <3> DEFINE s == value[i].key
    <3>2. s \in Seq(Character) /\ IsAt(space, b, Quoted(s))
      BY <1>4
    <3> HIDE DEF b, i, s
    <3>3. 0 \in 0..Len(s)
      BY <3>2
    <3>4. StringPlace(s, b, 0) = b + 1
      BY <3>1, <3>2, <3>3, StringSigns
    <3> QED BY <3>4 DEF s
  <2>6. Len(string') = 0 /\ 0 <= Len(value[i].key) /\ \A j \in 1..Len(string') : FALSE
    <3>1. Len(<< >>) = 0 /\ 1..0 = {}
      OBVIOUS
    <3> DEFINE s == value[i].key
    <3>2. s \in Seq(Character)
      BY <1>4
    <3> HIDE DEF s
    <3>3. 0 <= Len(s)
      BY <3>2
    <3> QED BY <1>6, <3>1, <3>3 DEF s
  <2>7. KeyAt(space, i)' = KeyAt(space, i)' /\ \A k : KeyAt(space, k)' = KeyAt(space, k)
    BY <1>1, SameText
  <2>8. Within(value[i].key, b)'
    <3>1. value[i].key' = value[i].key /\ b' = b
      BY <1>1, <2>4, <2>7
    <3> HIDE DEF b
    <3> QED BY <1>1, <1>6, <2>1, <2>2, <2>5, <2>6, <3>1, <2>4 DEF Within, StringPlace
  <2>9. InKey(space)'
    BY <2>4, <2>8 DEF InKey
  <2> QED BY <1>6, <2>9 DEF Reading
<1>7. CASE /\ Is(start, Quote) => CanFail
           /\ pc' = "end" /\ at' = start
           /\ memory' = IF Is(start, Quote) THEN Fail(memory, {}) ELSE memory
  <2>1. at' < Len(text) => At(at') # "}"
    BY <1>5, <1>7 DEF Blank, Quote
  <2>2. ~CanEnd'
    BY <1>1, <2>1, CannotEnd
  <2>3. \/ memory'.failed = memory.failed /\ Stopped(space)
        \/ memory'.failed = memory.failed + 1
    <3>1. CASE Is(start, Quote)
      BY <1>1, <1>7, <3>1 DEF Fail, MemoryType
    <3>2. CASE ~Is(start, Quote)
      <4>1. ~(b < Len(text))
        BY <1>5, <3>2 DEF Is
      <4> QED BY <1>5, <1>7, <3>2, <4>1
    <3> QED BY <3>1, <3>2
  <2>4. Stopped(space)'
    BY <1>1, <2>3, StoppedStill
  <2> QED BY <1>7, <2>2, <2>4 DEF Reading
<1> QED BY <1>6, <1>7 DEF StringBegins

LEMMA ReadingGoesOn ==
  ASSUME NEW space, Parses(space), Reading(space), StringGoesOn
  PROVE  Reading(space)'
<1> DEFINE i == NewNode
<1>1. /\ UNCHANGED <<pc, value, tree, open, text, beyond, from, key, memory>>
      /\ pc \in {"key_loop", "string_loop"}
  BY DEF StringGoesOn
<1>2. \A k : KeyAt(space, k)' = KeyAt(space, k) /\ ItemAt(space, k)' = ItemAt(space, k)
  BY <1>1, SameText
<1>3. CASE pc = "key_loop"
  <2> DEFINE s == value[i].key
             p == KeyAt(space, i)
  <2>1. Due /\ Within(s, p)
    BY <1>3 DEF Reading, InKey
  <2>2. s \in Seq(Character) /\ IsAt(space, p, Quoted(s))
    BY <1>3, <2>1, DueIs, KeyIs
  <2>3. Due' /\ NewNode' = NewNode
    BY <1>1, <2>1, DueStill
  <2>4. s' = s /\ p' = p
    BY <1>1, <1>2, <2>3
  <2> HIDE DEF s, p
  <2>5. Within(s, p)'
    <3>1. PICK x, y : x = s /\ y = p
      OBVIOUS
    <3>2. x \in Seq(Character) /\ IsAt(space, y, Quoted(x)) /\ Within(x, y)
      BY <2>1, <2>2, <3>1
    <3>3. Within(x, y)'
      BY <3>2, WithinMore
    <3> QED BY <2>4, <3>1, <3>3
  <2>6. InKey(space)'
    BY <2>3, <2>5 DEF InKey, s, p
  <2> QED BY <1>1, <1>3, <2>6 DEF Reading
<1>4. CASE pc = "string_loop"
  <2> DEFINE s == value[i].item.string
             p == ItemAt(space, i)
  <2>1. Due /\ DueItem /\ Within(s, p) /\ value[i].item.type = "string"
    BY <1>4 DEF Reading, InItem, DueItem
  <2>2. s \in Seq(Character) /\ IsAt(space, p, Quoted(s))
    <3>1. /\ value[i].item \in Item /\ IsAt(space, p, Written(value[i].item))
      BY <2>1, DueIs
    <3> QED BY <2>1, <3>1, ItemCases DEF Written
  <2>3. Due' /\ DueItem' /\ NewNode' = NewNode
    BY <1>1, <2>1, DueStill
  <2>4. s' = s /\ p' = p
    BY <1>1, <1>2, <2>3
  <2>a. value[i].item.type' = "string"
    BY <1>1, <2>1, <2>3
  <2> HIDE DEF s, p
  <2>5. Within(s, p)'
    <3>1. PICK x, y : x = s /\ y = p
      OBVIOUS
    <3>2. x \in Seq(Character) /\ IsAt(space, y, Quoted(x)) /\ Within(x, y)
      BY <2>1, <2>2, <3>1
    <3>3. Within(x, y)'
      BY <3>2, WithinMore
    <3> QED BY <2>4, <3>1, <3>3
  <2>6. InItem(space)'
    BY <2>3, <2>5, <2>a DEF InItem, s, p
  <2> QED BY <1>1, <1>4, <2>6 DEF Reading
<1> QED BY <1>1, <1>3, <1>4
\* The place of an item in the next state.
LEMMA SamePlace ==
  ASSUME NEW space, UNCHANGED <<value, tree, open, text, beyond>>
  PROVE  /\ NewNode' = NewNode /\ ItemAt(space, NewNode)' = ItemAt(space, NewNode)
         /\ Done(space, NewNode)' = Done(space, NewNode)
         /\ value[NewNode]' = value[NewNode]
  BY DEF NewNode, ItemAt, Done

LEMMA ReadingKeyEnds ==
  ASSUME NEW space, Parses(space), Reading(space), pc = "key_loop",
         \/ StringWrong("key", "end")
         \/ StringLost("key", "end")
         \/ /\ StringRead
            /\ IF Is(at + 1, ":")
                 THEN pc' = "string" /\ at' = at + 2 /\ key' = string /\ UNCHANGED memory
                 ELSE /\ pc' = "out"
                      /\ memory' = Free(memory, Block(NewNode, "key"))
                      /\ UNCHANGED <<at, key>>
            /\ UNCHANGED <<value, tree, open, text, room, beyond, from, string, number>>
  PROVE  Reading(space)'
<1> DEFINE i == NewNode
           s == value[i].key
           p == KeyAt(space, i)
           t == Text(value, space)
<1>1. /\ UNCHANGED <<value, tree, open, text, beyond>> /\ memory \in MemoryType
      /\ Len(text) \in Nat /\ memory.failed \in Nat /\ at \in Nat /\ Len(space) \in Nat
  BY ParsesIs DEF StringWrong, StringLost
<1>2. Due /\ Within(s, p)
  BY DEF Reading, InKey
<1>3. /\ s \in Seq(Character) /\ IsAt(space, p, Quoted(s))
      /\ Sign(space, p + Len(Quoted(s)), ":")
      /\ ItemAt(space, i) = p + Len(Quoted(s)) + 1 + Len(space)
      /\ p \in Nat /\ Len(Quoted(s)) \in Nat
  BY <1>2, DueIs, KeyIs
<1> HIDE DEF s, p, i
<1>4. /\ from = p /\ p < Len(text) /\ At(p) = Quote
      /\ Len(string) = Len(s) =>
           string = Arrived(s) /\ at + 1 = p + Len(Quoted(s))
      /\ at >= Len(text) => Len(text) < Len(t)
      /\ ~InString /\ at < Len(text) => Len(string) = Len(s)
      /\ InString /\ Meant >= Len(text) => Len(text) < Len(t)
  BY <1>2, <1>3, WithinIs
<1>5. /\ p + Len(Quoted(s)) < Len(text) => At(p + Len(Quoted(s))) = ":"
      /\ p + Len(Quoted(s)) >= Len(text) => Len(text) < Len(t)
  BY <1>3, SignRead
<1> HIDE DEF t
<1>6. ~InString /\ at < Len(text) =>
        /\ string = Arrived(s) /\ at + 1 = p + Len(Quoted(s))
        /\ at + 1 < Len(text) => At(at + 1) = ":"
        /\ at + 1 >= Len(text) => Len(text) < Len(t)
  BY <1>4, <1>5
<1>7. at < Len(text) \/ at >= Len(text)
  BY <1>1
<1>8. CASE StringWrong("key", "end")
  <2>1. pc' = "end" /\ at' = p /\ Len(text) < Len(t)
    <3>1. Len(text) < Len(t)
      <4>1. CASE InString
        BY <1>4, <1>8, <4>1 DEF StringWrong
      <4>2. CASE ~InString
        <5>1. ~(at < Len(text))
          BY <1>8, <4>2 DEF StringWrong, InString
        <5> QED BY <1>4, <1>7, <5>1
      <4> QED BY <4>1, <4>2
    <3> QED BY <1>4, <1>8, <3>1 DEF StringWrong
  <2>2. ~CanEnd'
    <3>1. At(at') # "}"
      BY <1>4, <2>1 DEF Quote
    <3> QED BY <1>1, <3>1, CannotEnd
  <2>3. Stopped(space)'
    BY <1>1, <2>1, StoppedStill DEF t
  <2> QED BY <2>1, <2>2, <2>3 DEF Reading
<1>9. CASE StringLost("key", "end")
  <2>1. /\ pc' = "end" /\ at' = at + 1 /\ ~InString
        /\ memory' = Fail(memory, Block(NewNode, "key"))
    BY <1>9 DEF StringLost, StringRead
  <2>2. ~CanEnd'
    <3>1. at' < Len(text) => at < Len(text)
      BY <1>1, <2>1
    <3>2. at' < Len(text) => At(at') # "}"
      BY <1>6, <2>1, <3>1
    <3> QED BY <1>1, <3>2, CannotEnd
  <2>3. memory'.failed = memory.failed + 1
    BY <1>1, <2>1 DEF Fail, MemoryType
  <2>4. Stopped(space)'
    BY <1>1, <2>3, StoppedStill
  <2> QED BY <2>1, <2>2, <2>4 DEF Reading
<1>10. CASE /\ StringRead /\ Is(at + 1, ":") /\ pc' = "string" /\ at' = at + 2
            /\ key' = string /\ memory' = memory
  <2>1. ~InString /\ at < Len(text)
    BY <1>1, <1>10 DEF StringRead, Is
  <2>2. string = Arrived(s) /\ ItemAt(space, i) = at' + Len(space)
    BY <1>1, <1>3, <1>6, <1>10, <2>1
  <2>3. Due' /\ NewNode' = NewNode
    BY <1>1, <1>2, <1>10, DueStill
  <2>6. ItemAt(space, NewNode)' = ItemAt(space, NewNode)
    BY <1>1, SamePlace
  <2>7. DueItem'
    BY <1>1, <1>10, <2>2, <2>3 DEF DueItem, s, i
  <2>8. AtString(space)'
    BY <2>2, <2>6, <2>7 DEF AtString, i
  <2> QED BY <1>10, <2>8 DEF Reading
<1>11. CASE /\ StringRead /\ ~Is(at + 1, ":") /\ pc' = "out"
            /\ memory' = Free(memory, Block(NewNode, "key"))
  <2>1. Len(text) < Len(t)
    <3>1. CASE at < Len(text)
      <4>1. ~(at + 1 < Len(text))
        BY <1>6, <1>11, <3>1 DEF StringRead, Is
      <4> QED BY <1>1, <1>6, <1>11, <3>1, <4>1 DEF StringRead
    <3> QED BY <1>4, <1>7, <3>1
  <2>2. Stopped(space)'
    BY <1>1, <2>1, StoppedStill DEF t
  <2> QED BY <1>11, <2>2 DEF Reading
<1> QED BY <1>8, <1>9, <1>10, <1>11

LEMMA ReadingStringBegins ==
  ASSUME NEW space, Parses(space), Reading(space), pc = "string",
         StringBegins("string", "string_loop", "number")
  PROVE  Reading(space)'
<1> DEFINE i == NewNode
           start == SkipSpace(at)
           b == ItemAt(space, i)
           x == value[i].item
<1>1. /\ UNCHANGED <<value, tree, open, text, beyond, key>> /\ memory \in MemoryType
      /\ Len(text) \in Nat /\ memory.failed \in Nat /\ at \in Nat /\ Len(space) \in Nat
      /\ TypeOK /\ space \in Spaces
  BY ParsesIs DEF StringBegins
<1>2. Due /\ DueItem /\ b = at + Len(space)
  BY DEF Reading, AtString, DueItem
<1>3. /\ x \in Item /\ IsAt(space, b, Written(x)) /\ b \in Nat
      /\ IsAt(space, b - Len(space), space)
  BY <1>2, KeyIs, DueIs
<1>4. PICK c : Sign(space, b, c) /\ ItemBegins(x, c)
  BY <1>2, DueIs
<1>5. IsAt(space, at, space) /\ Sign(space, at + Len(space), c) /\ c # Blank
  <2>1. b - Len(space) = at
    BY <1>1, <1>2
  <2>2. IsAt(space, at, space)
    BY <1>3, <2>1
  <2>3. c # Blank
    BY <1>4 DEF ItemBegins
  <2> QED BY <1>2, <1>4, <2>2, <2>3
<1> HIDE DEF x, i, b
<1>6. /\ b < Len(text) => start = b /\ At(b) = c
      /\ b >= Len(text) => /\ start = at /\ Stopped(space)
                           /\ at < Len(text) => At(at) = Blank
      /\ b < Len(text) \/ b >= Len(text)
  <2>1. at \in Nat /\ c # " "
    BY <1>1, <1>5 DEF Blank
  <2> QED BY <1>1, <1>2, <1>5, <2>1, SkipLayout
<1>a. SkipSpace(start) = start
  <2>1. b < Len(text) => At(start) # Blank
    BY <1>5, <1>6
  <2>2. b < Len(text) => SkipSpace(start) = start
    BY <1>1, <1>3, <1>6, <2>1, SkipNone
  <2> QED BY <1>6, <2>2
<1>b. NewNode' = NewNode /\ ItemAt(space, NewNode)' = b /\ value[NewNode]' = value[NewNode]
  BY <1>1, SamePlace DEF b, i
<1>c. \A p : Barren(p)' <=> Barren(p)
  BY <1>1, SameText
<1>7. CASE Is(start, Quote) /\ pc' = "string_loop" /\ at' = start + 1 /\ from' = start
           /\ string' = <<>> /\ memory' = Alloc(memory, Block(NewNode, "string"))
  <2>1. b < Len(text) /\ start = b /\ c = Quote
    <3>1. start < Len(text) /\ At(start) = Quote
      BY <1>7 DEF Is
    <3>2. ~(b >= Len(text))
      BY <1>6, <3>1 DEF Blank, Quote
    <3> QED BY <1>6, <3>1, <3>2
  <2>2. x.type = "string" /\ x.string \in Seq(Character) /\ IsAt(space, b, Quoted(x.string))
    <3>1. x.type = "string"
      BY <1>4, <2>1 DEF ItemBegins
    <3>2. Written(x) = Quoted(x.string)
      BY <3>1 DEF Written
    <3> QED BY <1>3, <3>1, <3>2, ItemCases
  <2>3. memory'.failed = memory.failed
    BY <1>1, <1>7 DEF Alloc, MemoryType
  <2>4. Due' /\ DueItem'
    BY <1>1, <1>2, <2>3, DueStill
  <2> DEFINE s == x.string
  <2>a. s \in Seq(Character) /\ IsAt(space, b, Quoted(s))
    BY <2>2
  <2> HIDE DEF s
  <2>5. StringPlace(s, b, 0) = b + 1 /\ 0 <= Len(s)
    <3>1. IsObject(value)
      BY ParsesIs
    <3>2. 0 \in 0..Len(s) /\ 0 <= Len(s)
      BY <2>a
    <3>3. StringPlace(s, b, 0) = b + 1
      BY <1>1, <2>a, <3>1, <3>2, StringSigns
    <3> QED BY <3>2, <3>3
  <2>6. Len(string') = 0 /\ \A j \in 1..Len(string') : FALSE
    <3>1. Len(<< >>) = 0 /\ 1..0 = {}
      OBVIOUS
    <3> QED BY <1>7, <3>1
  <2>7. PICK y, z : y = s /\ z = b
    OBVIOUS
  <2>8. Within(y, z)'
    BY <1>1, <1>7, <2>1, <2>5, <2>6, <2>7 DEF Within, StringPlace
  <2>9. value[NewNode].item.string' = y /\ value[NewNode].item.type' = "string"
    BY <1>b, <2>2, <2>7 DEF s, x, i
  <2>10. ItemAt(space, NewNode)' = z
    BY <1>b, <2>7
  <2>11. InItem(space)'
    BY <2>4, <2>8, <2>9, <2>10 DEF InItem
  <2> QED BY <1>7, <2>11 DEF Reading
<1>8. CASE /\ Is(start, Quote) => CanFail
           /\ pc' = "number" /\ at' = start
           /\ memory' = IF Is(start, Quote) THEN Fail(memory, {}) ELSE memory
  <2>1. CASE Is(start, Quote)
    <3>1. memory'.failed = memory.failed + 1
      BY <1>1, <1>8, <2>1 DEF Fail, MemoryType
    <3>2. Stopped(space)'
      BY <1>1, <3>1, StoppedStill
    <3>3. Barren(start)
      BY <1>1, <1>a, <2>1, BarrenIs DEF Is
    <3>4. Barren(at)'
      <4>1. PICK y : y = at'
        OBVIOUS
      <4>2. Barren(y)'
        BY <1>8, <1>c, <3>3, <4>1
      <4> QED BY <4>1, <4>2 DEF Barren, NoObject
    <3> QED BY <1>8, <3>2, <3>4 DEF Reading
  <2>2. CASE ~Is(start, Quote) /\ b < Len(text)
    <3>1. c # Quote
      BY <1>6, <2>2 DEF Is
    <3>2. x.type # "string"
      BY <1>4, <3>1 DEF ItemBegins
    <3>3. DueItem'
      BY <1>1, <1>2, <1>8, <2>2, DueStill
    <3>4. at' = b /\ text' = text
      BY <1>1, <1>6, <1>8, <2>2
    <3>5. value[NewNode].item.type' # "string"
      BY <1>b, <3>2 DEF x, i
    <3>6. AtNumber(space)'
      BY <1>b, <2>2, <3>3, <3>4, <3>5 DEF AtNumber, AtItem
    <3>7. pc' = "number"
      BY <1>8
    <3> QED BY <3>6, <3>7 DEF Reading
  <2>3. CASE ~Is(start, Quote) /\ b >= Len(text)
    <3>1. Stopped(space)'
      BY <1>1, <1>6, <1>8, <2>3, StoppedStill
    <3>2. Barren(start)
      BY <1>1, <1>6, <1>a, <2>3, BarrenIs
    <3>3. Barren(at)'
      <4>1. PICK y : y = at'
        OBVIOUS
      <4>2. Barren(y)'
        BY <1>8, <1>c, <3>2, <4>1
      <4> QED BY <4>1, <4>2 DEF Barren, NoObject
    <3> QED BY <1>8, <3>1, <3>3 DEF Reading
  <2> QED BY <1>6, <2>1, <2>2, <2>3
<1> QED BY <1>7, <1>8 DEF StringBegins

-----------------------------------------------------------------------------
(* A value has been read. *)

LEMMA BarrenNext ==
  ASSUME UNCHANGED <<value, text, beyond>>, NEW y, at' = y, Barren(y)
  PROVE  Barren(at)' /\ NoObject(at)'
<1>1. Barren(y)'
  BY SameText
<1> QED BY <1>1 DEF Barren, NoObject

\* Behind the end nothing is skipped.
LEMMA BarrenBehind ==
  ASSUME TypeOK, NEW p \in Nat, p >= Len(text)
  PROVE  Barren(p)
<1>1. ~(p < Len(text))
  BY DEF TypeOK
<1>2. SkipSpace(p) = p
  BY <1>1, SkipNone
<1> QED BY <1>1, <1>2, BarrenIs

\* Nothing that a value begins with is behind an item.
LEMMA BarrenDone ==
  ASSUME NEW space, Parses(space), Due
  PROVE  Barren(Done(space, NewNode))
<1> DEFINE i == NewNode
           d == Done(space, i)
<1>1. TypeOK /\ IsObject(value) /\ space \in Spaces /\ i \in 1..Len(value) /\ d \in Nat
  BY ParsesIs, DueIs
<1> HIDE DEF i
<1>2. PICK c : Sign(space, d, c) /\ c \in {"}", ",", Quote}
  BY <1>1, PieceEnds
<1> HIDE DEF d
<1>3. d < Len(text) => At(d) = c
  BY <1>2, SignRead
<1>4. c # Blank
  BY <1>2 DEF Blank, Quote
<1>5. SkipSpace(d) = d
  BY <1>1, <1>3, <1>4, SkipNone
<1>6. Barren(d)
  BY <1>1, <1>2, <1>3, <1>5, BarrenIs
<1> QED BY <1>6 DEF d, i

LEMMA PushIs ==
  ASSUME NEW space, Parses(space), DueItem, NEW x, x = ArrivedItem(value[NewNode].item),
         x # Object, tree' = Grown(x), at' = Done(space, NewNode),
         UNCHANGED <<value, open, text, beyond>>, memory'.failed = memory.failed
  PROVE  AtPush(space)'
<1> DEFINE i == NewNode
           d == Done(space, i)
           l == Len(open)
           n == Len(value)
<1>1. /\ IsObject(value) /\ i \in 1..n /\ d \in Nat /\ l \in Nat /\ l = value[i].depth
      /\ n \in Nat /\ Missing /\ Len(tree) \in Nat
  BY ParsesIs, DueIs DEF DueItem
<1>2. /\ Alike' /\ Len(tree') = i /\ NewNode' = i + 1
      /\ \A k \in 1..Len(tree) : tree'[k] = tree[k]
  BY AlikeMore
<1>3. Missing'
  <2>1. \A k \in 1..Len(tree) : tree'[k].item = tree[k].item
    BY <1>2
  <2>2. /\ \A k \in 1..Len(open) : open'[k] = open[k]
        /\ Len(open') \in Nat /\ Len(open') >= Len(open)
    BY <1>1
  <2> QED BY <1>1, <2>1, <2>2, MissingMore
<1>4. /\ Level(value, i) = l /\ ~HasPairs(value, i)
      /\ i < n => value[i + 1].depth \in 1..l
  <2>1. value[i].item # Object
    <3>1. value[i].item \in Item
      BY DueIs DEF DueItem
    <3> QED BY <3>1, ArrivedIs
  <2> QED BY <1>1, <2>1, Levels
<1>6. value' = value /\ open' = open /\ at' = d
  OBVIOUS
<1>7. i \in Nat
  BY <1>1
<1> HIDE DEF i, d, n
<1>8. Done(space, Len(tree))' = d
  <2>1. Done(space, Len(tree))' = Len(Joined(Pieces(value', space), Len(tree')))
    BY DEF Done
  <2>2. Done(space, i) = Len(Joined(Pieces(value, space), i))
    BY DEF Done
  <2> QED BY <1>2, <1>6, <2>1, <2>2 DEF d
<1>9. Level(value, Len(tree))' = l /\ ~HasPairs(value, Len(tree))'
  BY <1>2, <1>4, <1>6
<1>10. Behind(space)'
  <2>1. at' = d + (l - l) /\ l <= l
    BY <1>1, <1>6 DEF d
  <2> QED BY <1>2, <1>3, <1>6, <1>8, <1>9, <2>1 DEF Behind
<1>11. NextWithin(Len(open))'
  <2>1. i < n => value[i + 1].depth <= l
    BY <1>1, <1>4
  <2> QED BY <1>2, <1>6, <2>1 DEF NextWithin, n
<1> QED BY <1>9, <1>10, <1>11 DEF AtPush

LEMMA FoundReading ==
  ASSUME NEW space, Parses(space), NEW x, NEW next \in Nat, NEW other,
         other \in {"number", "boolean", "object"}, pc # "object",
         ValueFound(x, next, other),
         \/ /\ DueItem /\ x = ArrivedItem(value[NewNode].item) /\ x # Object
            /\ next = Done(space, NewNode)
         \/ Len(text) < Len(Text(value, space)) /\ next >= Len(text)
  PROVE  Reading(space)'
<1>1. /\ UNCHANGED <<value, open, text, beyond>> /\ memory \in MemoryType /\ at' = next
      /\ memory.failed \in Nat /\ open # <<>> /\ TypeOK
      /\ \/ pc' = "push" /\ tree' = Grown(x) /\ memory'.failed = memory.failed
         \/ pc' = other /\ memory'.failed = memory.failed + 1
  <2>1. /\ memory \in MemoryType /\ memory.failed \in Nat /\ open # <<>> /\ TypeOK
    BY ParsesIs
  <2>2. memory' = Alloc(memory, Block(NewNode, "value")) => memory'.failed = memory.failed
    BY <2>1 DEF Alloc, MemoryType
  <2>3. ASSUME NEW b, memory' = Free(Fail(memory, {}), b)
        PROVE  memory'.failed = memory.failed + 1
    BY <2>1, <2>3 DEF Free, Fail, MemoryType
  <2> QED BY <2>1, <2>2, <2>3 DEF ValueFound
<1>2. CASE pc' = "push" /\ tree' = Grown(x) /\ memory'.failed = memory.failed
  <2>1. CASE /\ DueItem /\ x = ArrivedItem(value[NewNode].item) /\ x # Object
             /\ next = Done(space, NewNode)
    <3>1. AtPush(space)'
      BY <1>1, <1>2, <2>1, PushIs
    <3> QED BY <1>2, <3>1 DEF Reading
  <2>2. CASE Len(text) < Len(Text(value, space)) /\ next >= Len(text)
    <3>1. Stopped(space)'
      BY <1>1, <2>2, StoppedStill
    <3>2. at' >= Len(text')
      BY <1>1, <2>2
    <3> QED BY <1>2, <3>1, <3>2 DEF Reading
  <2> QED BY <2>1, <2>2
<1>3. CASE pc' = other /\ memory'.failed = memory.failed + 1
  <2>1. Stopped(space)'
    BY <1>1, <1>3, StoppedStill
  <2>2. Barren(next)
    BY <1>1, BarrenDone, BarrenBehind DEF DueItem
  <2>3. Barren(at)' /\ NoObject(at)'
    BY <1>1, <2>2, BarrenNext
  <2>4. open' # <<>>
    BY <1>1
  <2> QED BY <1>3, <2>1, <2>3, <2>4 DEF Reading
<1> QED BY <1>1, <1>2, <1>3

LEMMA ReadingStringEnds ==
  ASSUME NEW space, Parses(space), Reading(space), pc = "string_loop",
         \/ StringWrong("string", "number")
         \/ StringLost("string", "number")
         \/ StringRead /\ ValueFound(String(string), at + 1, "number")
  PROVE  Reading(space)'
<1> DEFINE i == NewNode
           s == value[i].item.string
           p == ItemAt(space, i)
           t == Text(value, space)
<1>1. /\ UNCHANGED <<value, open, text, beyond>> /\ memory \in MemoryType
      /\ Len(text) \in Nat /\ memory.failed \in Nat /\ at \in Nat /\ TypeOK
  BY ParsesIs DEF StringWrong, StringLost, ValueFound
<1>2. Due /\ DueItem /\ Within(s, p) /\ value[i].item.type = "string"
  BY DEF Reading, InItem, DueItem
<1>3. /\ value[i].item \in Item /\ IsAt(space, p, Written(value[i].item)) /\ p \in Nat
      /\ Done(space, i) = p + Len(Written(value[i].item))
  BY <1>2, DueIs
<1>4. /\ ArrivedItem(value[i].item) = String(Arrived(s)) /\ s \in Seq(Character)
      /\ String(Arrived(s)) # Object /\ Written(value[i].item) = Quoted(s)
  <2> DEFINE x == value[i].item
  <2>1. x \in Item /\ x.type = "string"
    BY <1>2, <1>3
  <2> HIDE DEF x
  <2>2. x.string \in Seq(Character) /\ x # Object
    BY <2>1, ItemCases
  <2>3. ArrivedItem(x) = String(Arrived(x.string)) /\ ArrivedItem(x) # Object
    BY <2>1, <2>2, ArrivedIs
  <2>4. Written(x) = Quoted(x.string)
    BY <2>1 DEF Written
  <2> QED BY <2>2, <2>3, <2>4 DEF x
<1>5. IsAt(space, p, Quoted(s)) /\ Done(space, i) = p + Len(Quoted(s))
  BY <1>3, <1>4
<1> HIDE DEF s, p, i
<1>6. /\ from = p /\ p < Len(text) /\ At(p) = Quote /\ SkipSpace(p) = p
      /\ Len(string) = Len(s) =>
           string = Arrived(s) /\ at + 1 = p + Len(Quoted(s))
      /\ at >= Len(text) => Len(text) < Len(t)
      /\ ~InString /\ at < Len(text) => Len(string) = Len(s)
      /\ InString /\ Meant >= Len(text) => Len(text) < Len(t)
  BY <1>2, <1>4, <1>5, WithinIs
<1>7. at < Len(text) \/ at >= Len(text)
  BY <1>1
<1>8. ASSUME ~InString
      PROVE  \/ at < Len(text) /\ string = Arrived(s) /\ at + 1 = Done(space, i)
             \/ at >= Len(text) /\ Len(text) < Len(t)
  BY <1>5, <1>6, <1>7, <1>8
<1> HIDE DEF t
<1>9. CASE StringWrong("string", "number")
  <2>1. Len(text) < Len(t)
    <3>1. CASE InString
      BY <1>6, <1>9, <3>1 DEF StringWrong
    <3>2. CASE ~InString
      <4>1. ~(at < Len(text))
        BY <1>9, <3>2 DEF StringWrong, InString
      <4> QED BY <1>6, <1>7, <4>1
    <3> QED BY <3>1, <3>2
  <2>2. Stopped(space)'
    BY <1>1, <2>1, StoppedStill DEF t
  <2>3. Barren(p)
    BY <1>1, <1>6, BarrenIs
  <2>4. pc' = "number" /\ at' = p
    BY <1>6, <1>9 DEF StringWrong
  <2>5. Barren(at)'
    BY <1>1, <2>3, <2>4, BarrenNext
  <2> QED BY <2>2, <2>4, <2>5 DEF Reading
<1>10. CASE StringLost("string", "number")
  <2>1. /\ pc' = "number" /\ at' = at + 1 /\ ~InString
        /\ memory' = Fail(memory, Block(NewNode, "string"))
    BY <1>10 DEF StringLost, StringRead
  <2>2. memory'.failed = memory.failed + 1
    BY <1>1, <2>1 DEF Fail, MemoryType
  <2>3. Stopped(space)'
    BY <1>1, <2>2, StoppedStill
  <2>4. Barren(at + 1)
    <3>1. CASE at + 1 = Done(space, i)
      BY <1>2, <3>1, BarrenDone DEF i
    <3>2. CASE at >= Len(text)
      <4>1. at + 1 \in Nat /\ at + 1 >= Len(text)
        BY <1>1, <3>2
      <4> QED BY <1>1, <4>1, BarrenBehind
    <3> QED BY <1>8, <2>1, <3>1, <3>2
  <2>5. Barren(at)'
    BY <1>1, <2>1, <2>4, BarrenNext
  <2> QED BY <2>1, <2>3, <2>5 DEF Reading
<1>11. CASE StringRead /\ ValueFound(String(string), at + 1, "number")
  <2>1. PICK x, next : x = String(string) /\ next = at + 1
    OBVIOUS
  <2>2. next \in Nat /\ (at >= Len(text) => next >= Len(text))
    BY <1>1, <2>1
  <2>3. \/ /\ DueItem /\ x = ArrivedItem(value[NewNode].item) /\ x # Object
           /\ next = Done(space, NewNode)
        \/ Len(text) < Len(Text(value, space)) /\ next >= Len(text)
    <3>1. ~InString
      BY <1>11 DEF StringRead
    <3>2. CASE string = Arrived(s) /\ at + 1 = Done(space, i)
      BY <1>2, <1>4, <2>1, <3>2 DEF i
    <3>3. CASE at >= Len(text) /\ Len(text) < Len(t)
      BY <2>2, <3>3 DEF t
    <3> QED BY <1>8, <3>1, <3>2, <3>3
  <2>4. ValueFound(x, next, "number")
    BY <1>11, <2>1
  <2>5. pc # "object"
    OBVIOUS
  <2>6. "number" \in {"number", "boolean", "object"}
    OBVIOUS
  <2> QED BY <2>2, <2>3, <2>4, <2>5, <2>6, FoundReading
<1> QED BY <1>9, <1>10, <1>11

-----------------------------------------------------------------------------
(* Numbers and words. *)

\* Nothing but an item's beginning is where the item is.
LEMMA ItemRead ==
  ASSUME NEW space, Parses(space), DueItem, ItemAt(space, NewNode) = at, at < Len(text)
  PROVE  /\ SkipSpace(at) = at
         /\ \E c : /\ At(at) = c /\ Sign(space, at, c)
                   /\ ItemBegins(value[NewNode].item, c)
<1>1. PICK c : Sign(space, at, c) /\ ItemBegins(value[NewNode].item, c)
  BY DueIs DEF DueItem
<1>2. At(at) = c /\ c # Blank
  BY <1>1, SignRead DEF ItemBegins
<1>3. TypeOK /\ at \in Nat
  BY ParsesIs
<1>4. SkipSpace(at) = at
  BY <1>2, <1>3, SkipNone
<1> QED BY <1>1, <1>2, <1>4

LEMMA NumeralFilled ==
  ASSUME NEW n \in Nat
  PROVE  Len(Numeral[n]) \in Nat /\ Len(Numeral[n]) > 0
<1>1. Len(Numeral[n]) \in Nat \ {0}
  BY NumeralSize
<1> QED BY <1>1

LEMMA ReadingNumberBegins ==
  ASSUME NEW space, Parses(space), Reading(space), NumberBegins
  PROVE  Reading(space)'
<1> DEFINE i == NewNode
           p == ItemAt(space, i)
           x == value[i].item
<1>1. /\ UNCHANGED <<value, tree, open, text, beyond, key, memory>>
      /\ pc = "number" /\ pc' = "digits"
      /\ at' = SkipSpace(at) /\ from' = at' /\ number' = 0
      /\ Len(text) \in Nat /\ memory.failed \in Nat /\ at \in Nat
  BY ParsesIs DEF NumberBegins
<1>2. CASE AtNumber(space)
  <2>1. DueItem /\ Due /\ p = at /\ at < Len(text) /\ x.type # "string"
    BY <1>2 DEF AtNumber, AtItem, DueItem
  <2>2. SkipSpace(at) = at
    BY <2>1, ItemRead
  <2>3. x \in Item /\ x # Nothing
    BY <2>1, DueIs
  <2>4. DueItem'
    BY <1>1, <2>1, DueStill
  <2>5. /\ NewNode' = NewNode /\ ItemAt(space, NewNode)' = p
        /\ value[NewNode]' = value[NewNode]
    BY <1>1, SamePlace
  <2> HIDE DEF p
  <2>6. at' = p /\ p < Len(text') /\ from' = p
    BY <1>1, <2>1, <2>2
  <2>7. CASE x.type = "number"
    <3> DEFINE n == x.number
    <3>1. n \in 0..(Range64 - 1)
      BY <2>3, <2>7, ItemCases
    <3>2. n \in Nat
      BY <3>1, JsonAssumption
    <3>3. Len(Numeral[n]) \in Nat /\ Len(Numeral[n]) > 0
      BY <3>2, NumeralFilled
    <3> HIDE DEF n
    <3>4. PICK m, q : m = n /\ q = p
      OBVIOUS
    <3>5. /\ from' = q /\ at' = q /\ q \in Nat /\ Len(text') \in Nat /\ q <= Len(text')
          /\ number' = 0 /\ Len(Numeral[m]) \in Nat
      BY <1>1, <2>1, <2>6, <3>3, <3>4
    <3>6. at' - q = 0 /\ at' >= q /\ 0 <= Len(Numeral[m])
      BY <3>5
    <3>7. WithinNumber(m, q)'
      BY <3>5, <3>6 DEF WithinNumber
    <3>8. value[NewNode].item.number' = m /\ value[NewNode].item.type' = "number"
      BY <2>5, <2>7, <3>4 DEF n
    <3>9. ItemAt(space, NewNode)' = q /\ q < Len(text')
      BY <2>5, <2>6, <3>4
    <3>10. InDigits(space)'
      BY <2>4, <3>7, <3>8, <3>9 DEF InDigits
    <3> QED BY <1>1, <3>10 DEF Reading
  <2>8. CASE x.type # "number"
    <3>1. x.type \in {"boolean", "object"}
      BY <2>1, <2>3, <2>8, ItemCases
    <3>2. value[NewNode].item.type' \in {"boolean", "object"}
      BY <2>5, <3>1
    <3>3. InDigits(space)'
      BY <2>4, <2>5, <2>6, <3>2 DEF InDigits
    <3> QED BY <1>1, <3>3 DEF Reading
  <2> QED BY <2>7, <2>8
<1>3. CASE Stopped(space) /\ Barren(at)
  <2>1. SkipSpace(at) = at
    BY <1>3 DEF Barren, NoObject
  <2>2. Barren(at)'
    BY <1>1, <1>3, <2>1, BarrenNext
  <2>3. Stopped(space)'
    BY <1>1, <1>3, StoppedStill
  <2>4. from' = at'
    BY <1>1
  <2> QED BY <1>1, <2>2, <2>3, <2>4 DEF Reading
<1> QED BY <1>1, <1>2, <1>3 DEF Reading

\* What a number read so far says of the next character.
LEMMA NumberIs ==
  ASSUME NEW space, Parses(space), DueItem, value[NewNode].item.type = "number",
         WithinNumber(value[NewNode].item.number, ItemAt(space, NewNode))
  PROVE  LET n == value[NewNode].item.number
             p == ItemAt(space, NewNode)
         IN /\ n \in 0..(Range64 - 1) /\ n \in Nat /\ Len(Numeral[n]) \in Nat
            /\ p \in Nat /\ at - p \in Nat
            /\ value[NewNode].item = Number(n)
            /\ \/ /\ at - p < Len(Numeral[n])
                  /\ at >= Len(text) => Len(text) < Len(Text(value, space))
                  /\ at < Len(text) => /\ At(at) = Numeral[n][at - p + 1]
                                       /\ At(at) \in ToSet(Digits)
               \/ /\ at - p = Len(Numeral[n]) /\ at = Done(space, NewNode)
                  /\ number = n /\ Barren(at)
<1> DEFINE i == NewNode
           x == value[i].item
           n == x.number
           p == ItemAt(space, i)
           l == at - p
           w == Numeral[n]
<1>1. /\ x \in Item /\ x.type = "number" /\ p \in Nat /\ IsAt(space, p, Written(x))
      /\ Done(space, i) = p + Len(Written(x)) /\ Due
      /\ at \in Nat /\ Len(text) \in Nat /\ Len(Text(value, space)) \in Nat
  BY ParsesIs, DueIs DEF DueItem
<1>2. n \in 0..(Range64 - 1)
  BY <1>1, ItemCases
<1>3. n \in Nat
  BY <1>2, JsonAssumption
<1>4. Written(x) = w
  BY <1>1 DEF Written
<1>5. x = Number(n)
  <2> HIDE DEF x
  <2> QED BY <1>1 DEF Item, Number, Object, Nothing, n
<1>6. w \in Seq(ToSet(Digits)) /\ Len(w) \in Nat /\ ToSet(Digits) \subseteq Character
  BY <1>3, NumeralSize, CharacterType
<1>7. /\ at >= p /\ l <= Len(w)
      /\ IF l = 0 THEN number = 0 ELSE number \in 0..n /\ Numeral[number] = SubSeq(w, 1, l)
  BY DEF WithinNumber
<1>8. IsAt(space, p, w) /\ Done(space, i) = p + Len(w)
  BY <1>1, <1>4
<1>a. Len(w) > 0
  BY <1>3, NumeralFilled
<1>b. Due /\ i = NewNode
  BY <1>1
<1> HIDE DEF x, n, w, p, i
<1>9. l \in Nat /\ p + l = at
  BY <1>1, <1>7
<1> HIDE DEF l
<1>10. CASE l < Len(w)
  <2>1. w \in Seq(Character)
    BY <1>6
  <2>2. Sign(space, at, w[l + 1])
    <3>1. Sign(space, p + l, w[l + 1])
      BY <1>1, <1>8, <1>9, <1>10, <2>1, SignIn
    <3> QED BY <1>9, <3>1
  <2>3. w[l + 1] \in ToSet(Digits)
    BY <1>6, <1>9, <1>10
  <2> QED BY <1>1, <1>2, <1>3, <1>5, <1>6, <1>9, <1>10, <2>2, <2>3, SignRead
          DEF l, p, w, n, x, i
<1>11. CASE l = Len(w)
  <2>1. at = Done(space, i)
    BY <1>8, <1>9, <1>11
  <2>2. Barren(at)
    BY <1>b, <2>1, BarrenDone
  <2>3. number \in 0..n /\ Numeral[number] = SubSeq(w, 1, Len(w))
    BY <1>7, <1>11, <1>a
  <2>4. SubSeq(w, 1, Len(w)) = w
    BY <1>6
  <2>5. number = n
    BY <1>3, <2>3, <2>4, NumeralSame DEF w
  <2> QED BY <1>1, <1>2, <1>3, <1>5, <1>6, <1>9, <1>11, <2>1, <2>2, <2>5
          DEF l, p, w, n, x, i
<1> QED BY <1>6, <1>7, <1>9, <1>10, <1>11

LEMMA ReadingDigit ==
  ASSUME NEW space, Parses(space), Reading(space), DigitGoesOn
  PROVE  Reading(space)'
<1>1. PICK d \in 1..Len(Digits) : Is(at, Digits[d]) /\ number' = Accumulate(number, d - 1)
  BY DEF DigitGoesOn
<1>2. /\ UNCHANGED <<value, tree, open, text, beyond, key, memory, pc, from>>
      /\ pc = "digits" /\ at' = at + 1
      /\ Len(text) \in Nat /\ memory.failed \in Nat /\ at \in Nat
  BY ParsesIs DEF DigitGoesOn
<1>3. Digits[d] \in ToSet(Digits) /\ at < Len(text) /\ At(at) = Digits[d] /\ ~Barren(at)
  <2>1. Digits[d] \in ToSet(Digits)
    BY DEF ToSet
  <2> QED BY <1>1, <2>1 DEF Is, Barren
<1>4. InDigits(space)
  BY <1>2, <1>3 DEF Reading
<1>5. DueItem /\ ItemAt(space, NewNode) < Len(text)
  BY <1>4 DEF InDigits
<1>6. /\ value[NewNode].item.type = "number"
      /\ WithinNumber(value[NewNode].item.number, ItemAt(space, NewNode))
  <2> SUFFICES ASSUME value[NewNode].item.type \in {"boolean", "object"},
                      ItemAt(space, NewNode) = at
               PROVE  FALSE
    BY <1>4 DEF InDigits
  <2>1. PICK c : At(at) = c /\ ItemBegins(value[NewNode].item, c)
    BY <1>3, <1>5, ItemRead
  <2> QED BY <1>3, <2>1 DEF ItemBegins
<1> DEFINE n == value[NewNode].item.number
           p == ItemAt(space, NewNode)
           l == at - p
<1>7. /\ n \in 0..(Range64 - 1) /\ n \in Nat /\ Len(Numeral[n]) \in Nat
      /\ p \in Nat /\ l \in Nat
      /\ l < Len(Numeral[n]) /\ At(at) = Numeral[n][l + 1]
  BY <1>3, <1>5, <1>6, NumberIs
<1>8. DueItem'
  BY <1>2, <1>5, DueStill DEF DueItem
<1>9. NewNode' = NewNode /\ ItemAt(space, NewNode)' = p /\ value[NewNode]' = value[NewNode]
  BY <1>2, SamePlace
<1>10. /\ from = p /\ at >= p /\ at <= Len(text) /\ number \in Nat
       /\ IF l = 0 THEN number = 0
          ELSE number \in 0..n /\ Numeral[number] = SubSeq(Numeral[n], 1, l)
  <2>1. number \in 0..(Range64 - 1)
    BY DEF Parses, IInv, TypeOK
  <2>2. number \in Nat
    BY <2>1, JsonAssumption
  <2> QED BY <1>6, <2>2 DEF WithinNumber
<1>11. PICK m, q : m = n /\ q = p
  OBVIOUS
<1>12. m \in 0..(Range64 - 1) /\ m \in Nat /\ q \in Nat /\ value[NewNode].item.number' = m
       /\ value[NewNode].item.type' = "number" /\ ItemAt(space, NewNode)' = q
       /\ q < Len(text')
  BY <1>2, <1>5, <1>6, <1>7, <1>9, <1>11
<1>13. PICK h : h = l
  OBVIOUS
<1>14. /\ h \in Nat /\ h < Len(Numeral[m]) /\ Numeral[m][h + 1] = Digits[d]
       /\ IF h = 0 THEN number = 0 ELSE Numeral[number] = SubSeq(Numeral[m], 1, h)
       /\ h = at - q
  BY <1>3, <1>7, <1>10, <1>11, <1>13
<1> HIDE DEF n, p, l
<1>15. /\ Accumulate(number, d - 1) \in 0..m
       /\ Numeral[Accumulate(number, d - 1)] = SubSeq(Numeral[m], 1, h + 1)
  BY <1>10, <1>12, <1>14, NumeralGoesOn
<1>16. at' - q = h + 1 /\ at' >= q /\ at' <= Len(text') /\ from' = q /\ h + 1 # 0
  BY <1>2, <1>3, <1>7, <1>10, <1>11, <1>12, <1>14
<1>17. at' - q <= Len(Numeral[m])
  BY <1>7, <1>11, <1>14, <1>16
<1>18. number' \in 0..m /\ Numeral[number'] = SubSeq(Numeral[m], 1, at' - q)
  BY <1>1, <1>15, <1>16
<1>19. WithinNumber(m, q)'
  BY <1>16, <1>17, <1>18 DEF WithinNumber
<1>20. InDigits(space)'
  BY <1>8, <1>12, <1>19 DEF InDigits
<1> QED BY <1>2, <1>20 DEF Reading

LEMMA ReadingNumberEnds ==
  ASSUME NEW space, Parses(space), Reading(space), NumberEnds
  PROVE  Reading(space)'
<1>1. /\ pc = "digits" /\ Len(text) \in Nat /\ memory.failed \in Nat /\ at \in Nat
      /\ ~\E d \in 1..Len(Digits) : Is(at, Digits[d])
      /\ IF at = from THEN NotFound(at, "boolean")
         ELSE ValueFound(Number(number), at, "boolean")
  BY ParsesIs DEF NumberEnds
<1>2. at < Len(text) => At(at) \notin ToSet(Digits)
  <2> SUFFICES ASSUME at < Len(text), At(at) \in ToSet(Digits) PROVE FALSE
    OBVIOUS
  <2>1. PICK d \in DOMAIN Digits : Digits[d] = At(at)
    BY DEF ToSet
  <2>2. d \in 1..Len(Digits)
    BY <2>1, JsonAssumption
  <2> QED BY <1>1, <2>1, <2>2 DEF Is
<1> DEFINE i == NewNode
           n == value[i].item.number
           p == ItemAt(space, i)
           l == at - p
<1>3. CASE /\ InDigits(space) /\ value[i].item.type = "number" /\ WithinNumber(n, p)
  <2>1. DueItem /\ p < Len(text)
    BY <1>3 DEF InDigits
  <2>2. from = p
    BY <1>3 DEF WithinNumber
  <2>3. /\ n \in Nat /\ Len(Numeral[n]) \in Nat /\ p \in Nat /\ l \in Nat
        /\ value[i].item = Number(n)
        /\ \/ l < Len(Numeral[n]) /\ at >= Len(text) /\ Len(text) < Len(Text(value, space))
           \/ l = Len(Numeral[n]) /\ at = Done(space, i) /\ number = n
    <3>1. at < Len(text) \/ at >= Len(text)
      BY <1>1
    <3> QED BY <1>2, <1>3, <2>1, <3>1, NumberIs
  <2>4. at # from
    <3>1. Len(Numeral[n]) > 0
      BY <2>3, NumeralFilled
    <3>2. CASE at >= Len(text)
      BY <1>1, <2>1, <2>2, <2>3, <3>2
    <3>3. CASE l = Len(Numeral[n])
      BY <1>1, <2>2, <2>3, <3>1, <3>3
    <3> QED BY <2>3, <3>2, <3>3
  <2>5. PICK x, next : x = Number(number) /\ next = at
    OBVIOUS
  <2>6. ValueFound(x, next, "boolean") /\ next \in Nat
    BY <1>1, <2>4, <2>5
  <2>7. Number(n) # Object /\ ArrivedItem(Number(n)) = Number(n)
    BY DEF Number, Object, ArrivedItem
  <2>8. \/ /\ DueItem /\ x = ArrivedItem(value[NewNode].item) /\ x # Object
           /\ next = Done(space, NewNode)
        \/ Len(text) < Len(Text(value, space)) /\ next >= Len(text)
    BY <2>1, <2>3, <2>5, <2>7
  <2>9. pc # "object" /\ "boolean" \in {"number", "boolean", "object"}
    BY <1>1
  <2> QED BY <2>6, <2>8, <2>9, FoundReading
<1>4. CASE InDigits(space) /\ ~(value[i].item.type = "number" /\ WithinNumber(n, p))
  <2>1. /\ DueItem /\ p < Len(text) /\ from = at /\ p = at
        /\ value[i].item.type \in {"boolean", "object"}
    BY <1>4 DEF InDigits
  <2>2. /\ UNCHANGED <<value, tree, open, text, beyond, key, memory>>
        /\ pc' = "boolean" /\ at' = at
    BY <1>1, <2>1 DEF NotFound
  <2>3. DueItem'
    BY <2>1, <2>2, DueStill DEF DueItem
  <2>4. /\ NewNode' = NewNode /\ ItemAt(space, NewNode)' = p
        /\ value[NewNode]' = value[NewNode]
    BY <2>2, SamePlace
  <2> HIDE DEF p
  <2>5. AtBoolean(space)'
    BY <2>1, <2>2, <2>3, <2>4 DEF AtBoolean, AtItem
  <2> QED BY <2>2, <2>5 DEF Reading
<1>5. CASE Stopped(space) /\ Barren(at) /\ from = at
  <2>1. /\ UNCHANGED <<value, tree, open, text, beyond, key, memory>>
        /\ pc' = "boolean" /\ at' = at
    BY <1>1, <1>5 DEF NotFound
  <2>2. Stopped(space)'
    BY <1>1, <1>5, <2>1, StoppedStill
  <2>3. Barren(at)'
    BY <1>5, <2>1, BarrenNext
  <2> QED BY <2>1, <2>2, <2>3 DEF Reading
<1> QED BY <1>1, <1>3, <1>4, <1>5 DEF Reading

LEMMA WordIs ==
  ASSUME NEW b \in BOOLEAN
  PROVE  /\ Word(b) \in Seq(Character) /\ Len(Word(b)) \in Nat /\ Len(Word(b)) > 0
         /\ Word(b)[1] = IF b THEN "t" ELSE "f"
<1>1. Word(b) \in Seq(Character)
  BY WordType
<1>2. Len(Word(b)) > 0 /\ Word(b)[1] = IF b THEN "t" ELSE "f"
  BY DEF Word
<1> QED BY <1>1, <1>2

LEMMA ReadingBoolean ==
  ASSUME NEW space, Parses(space), Reading(space), ParseBoolean
  PROVE  Reading(space)'
<1> DEFINE start == SkipSpace(at)
           is(b) == /\ start + Len(Word(b)) < Len(text)
                    /\ SubSeq(text, start + 1, start + Len(Word(b))) = Word(b)
           i == NewNode
           p == ItemAt(space, i)
           x == value[i].item
<1>1. /\ pc = "boolean" /\ Len(text) \in Nat /\ memory.failed \in Nat /\ at \in Nat
      /\ open # <<>> /\ text \in Seq(Character)
      /\ IF \E b \in BOOLEAN : is(b)
           THEN \E b \in BOOLEAN :
                  is(b) /\ ValueFound(Boolean(b), start + Len(Word(b)), "object")
           ELSE NotFound(start, "object")
  BY ParsesIs DEF ParseBoolean, Parses, IInv, TypeOK
<1>2. start = at
  <2>1. CASE AtBoolean(space)
    BY <2>1, ItemRead DEF AtBoolean, AtItem
  <2>2. CASE Barren(at)
    BY <2>2 DEF Barren, NoObject
  <2> QED BY <1>1, <2>1, <2>2 DEF Reading
<1>3. ASSUME NEW b \in BOOLEAN, is(b)
      PROVE  /\ at < Len(text) /\ At(at) = IF b THEN "t" ELSE "f"
             /\ at + Len(Word(b)) < Len(text)
  <2> DEFINE m == at + Len(Word(b))
  <2>1. m < Len(text) /\ SubSeq(text, at + 1, m) = Word(b)
    BY <1>2, <1>3
  <2>2. Len(Word(b)) \in Nat /\ Len(Word(b)) > 0 /\ Word(b)[1] = IF b THEN "t" ELSE "f"
    BY WordIs
  <2>3. m \in Nat /\ at + 1 <= m
    BY <1>1, <2>2
  <2> HIDE DEF m
  <2>4. SubSeq(text, at + 1, m)[1] = text[at + 1]
    BY <1>1, <2>1, <2>3
  <2>5. at < Len(text)
    BY <1>1, <2>1, <2>3
  <2> QED BY <2>1, <2>2, <2>4, <2>5 DEF At, m
<1>4. ASSUME ~\E b \in BOOLEAN : is(b)
      PROVE  /\ UNCHANGED <<value, tree, open, text, beyond, key, memory>>
             /\ pc' = "object" /\ at' = at
  BY <1>1, <1>2, <1>4 DEF NotFound
<1>5. CASE AtBoolean(space) /\ x.type = "boolean"
  <2>1. DueItem /\ Due /\ p = at /\ at < Len(text)
    BY <1>5 DEF AtBoolean, AtItem, DueItem
  <2>2. /\ x \in Item /\ IsAt(space, p, Written(x)) /\ i \in 1..Len(value)
        /\ Done(space, i) = p + Len(Written(x)) /\ Len(Text(value, space)) \in Nat
        /\ IsObject(value) /\ space \in Spaces /\ Len(Written(x)) \in Nat
    BY <2>1, DueIs, ParsesIs
  <2> DEFINE w == x.boolean
  <2>3. w \in BOOLEAN
    BY <1>5, <2>2, ItemCases
  <2>4. x = Boolean(w) /\ Written(x) = Word(w) /\ x # Object /\ ArrivedItem(x) = x
    <3> HIDE DEF x
    <3>4. ArrivedItem(x) = x
      BY <1>5, <2>2, ArrivedIs
    <3>1. x = Boolean(w)
      BY <1>5, <2>2 DEF Item, Boolean, Object, Nothing
    <3>2. Written(x) = Word(w)
      BY <1>5 DEF Written
    <3>3. x # Object
      BY <1>5, <2>2, ItemCases
    <3> QED BY <3>1, <3>2, <3>3, <3>4
  <2>5. IsAt(space, at, Word(w)) /\ Done(space, i) = at + Len(Word(w))
    BY <2>1, <2>2, <2>4
  <2> HIDE DEF x, i, p, w
  <2>6. Word(w) \in Seq(Character) /\ Len(Word(w)) \in Nat /\ Len(Word(w)) > 0
        /\ Word(w)[1] = IF w THEN "t" ELSE "f"
    BY <2>3, WordIs
  <2>7. At(at) = Word(w)[1]
    <3>1. Sign(space, at + 0, Word(w)[0 + 1])
      BY <2>2, <2>5, <2>6, SignIn
    <3>2. Sign(space, at, Word(w)[1])
      BY <1>1, <3>1
    <3> QED BY <2>1, <3>2, SignRead
  <2>8. CASE \E b \in BOOLEAN : is(b)
    <3>1. PICK b \in BOOLEAN :
                  is(b) /\ ValueFound(Boolean(b), at + Len(Word(b)), "object")
      BY <1>1, <1>2, <2>8
    <3>2. b = w
      <4>1. At(at) = IF b THEN "t" ELSE "f"
        BY <1>3, <3>1
      <4>2. At(at) = IF w THEN "t" ELSE "f"
        BY <2>6, <2>7
      <4>3. b \in BOOLEAN /\ w \in BOOLEAN /\ "t" # "f"
        BY <2>3, <3>1
      <4> QED BY ONLY <4>1, <4>2, <4>3
    <3>3. PICK next : next = at + Len(Word(b))
      OBVIOUS
    <3>4. /\ ValueFound(Boolean(b), next, "object") /\ next \in Nat
          /\ DueItem /\ Boolean(b) = ArrivedItem(value[NewNode].item) /\ Boolean(b) # Object
          /\ next = Done(space, NewNode)
      BY <1>1, <2>1, <2>4, <2>5, <2>6, <3>1, <3>2, <3>3 DEF x, i
    <3>5. pc # "object" /\ "object" \in {"number", "boolean", "object"}
      BY <1>1
    <3> QED BY <3>4, <3>5, FoundReading
  <2>9. CASE ~\E b \in BOOLEAN : is(b)
    <3>1. ~is(w)
      BY <2>3, <2>9
    <3> DEFINE m == at + Len(Word(w))
    <3>2. m \in Nat /\ at + 1 <= m
      BY <1>1, <2>6
    <3>3. m >= Len(text)
      <4> SUFFICES ASSUME m < Len(text) PROVE FALSE
        BY <1>1, <3>2
      <4> DEFINE q == SubSeq(text, at + 1, m)
      <4>1. Len(q) = Len(Word(w)) /\ q \in Seq(Character)
        <5>1. m - (at + 1) + 1 = Len(Word(w))
          BY <1>1, <2>6
        <5> HIDE DEF m
        <5>2. at + 1 \in 1..(Len(text) + 1) /\ m \in 0..Len(text)
          BY <1>1, <3>2
        <5>3. Len(q) = m - (at + 1) + 1 /\ q \in Seq(Character)
          BY <1>1, <3>2, <5>2
        <5> QED BY <5>1, <5>3
      <4>2. ASSUME NEW j \in 1..Len(Word(w)) PROVE q[j] = Word(w)[j]
        <5> DEFINE e == j - 1
        <5>1. e \in Nat /\ e < Len(Word(w)) /\ e + 1 = j
          BY <2>6
        <5> HIDE DEF e
        <5>2. Sign(space, at + e, Word(w)[e + 1])
          BY <2>2, <2>5, <2>6, <5>1, SignIn
        <5>3. at + e < Len(text)
          BY <1>1, <2>6, <5>1
        <5>4. text[at + e + 1] = Word(w)[e + 1]
          BY <5>2, <5>3, SignRead
        <5>5. q[j] = text[at + e + 1]
          <6>1. at + e + 1 = (at + 1) + j - 1
            BY <1>1, <5>1
          <6>2. m <= Len(text) /\ j \in 1..(m - (at + 1) + 1) /\ at + 1 \in Nat /\ at + 1 >= 1
            BY <1>1, <2>6
          <6> HIDE DEF m
          <6>3. q[j] = text[(at + 1) + j - 1]
            BY <1>1, <3>2, <6>2
          <6> QED BY <6>1, <6>3
        <5> QED BY <5>1, <5>4, <5>5
      <4> HIDE DEF q
      <4>3. q = Word(w)
        BY <2>6, <4>1, <4>2
      <4> QED BY <1>2, <3>1, <4>3 DEF q
    <3>4. Len(text) < Len(Text(value, space))
      <4>1. PICK c : Sign(space, Done(space, i), c)
        BY <2>2, PieceEnds
      <4>2. Done(space, i) = m
        BY <2>5
      <4> QED BY <3>3, <4>1, <4>2, SignRead
    <3>5. Stopped(space)'
      BY <1>1, <1>4, <2>9, <3>4, StoppedStill
    <3>6. NoObject(at)
      <4>1. SkipSpace(at) = at /\ At(at) # "{"
        BY <1>2, <2>6, <2>7
      <4> QED BY <4>1 DEF NoObject, Is
    <3>7. NoObject(at)'
      <4>1. PICK y : y = at
        OBVIOUS
      <4>2. NoObject(y)'
        BY <1>4, <2>9, <3>6, <4>1, SameText
      <4> QED BY <1>4, <2>9, <4>1, <4>2 DEF NoObject
    <3> QED BY <1>1, <1>4, <2>9, <3>5, <3>7 DEF Reading
  <2> QED BY <2>8, <2>9
<1>6. CASE AtBoolean(space) /\ x.type = "object"
  <2>1. DueItem /\ Due /\ p = at /\ at < Len(text)
    BY <1>6 DEF AtBoolean, AtItem, DueItem
  <2>2. x \in Item
    BY <2>1, DueIs
  <2>3. x = Object
    BY <1>6, <2>2, ItemCases
  <2>4. PICK c : At(at) = c /\ ItemBegins(x, c)
    BY <2>1, ItemRead
  <2>5. At(at) = "{"
    BY <1>6, <2>4 DEF ItemBegins
  <2>6. ~\E b \in BOOLEAN : is(b)
    BY <1>3, <2>5
  <2>7. DueItem'
    BY <1>4, <2>1, <2>6, DueStill
  <2>8. /\ NewNode' = NewNode /\ ItemAt(space, NewNode)' = p
        /\ value[NewNode]' = value[NewNode]
    BY <1>4, <2>6, SamePlace
  <2> HIDE DEF p
  <2>9. value[NewNode].item' = Object
    BY <2>3, <2>8
  <2>10. AtObject(space)'
    BY <1>4, <2>1, <2>6, <2>7, <2>8, <2>9 DEF AtObject
  <2> QED BY <1>4, <2>6, <2>10 DEF Reading
<1>7. CASE Stopped(space) /\ Barren(at)
  <2>1. ~\E b \in BOOLEAN : is(b)
    <3> SUFFICES ASSUME NEW b \in BOOLEAN, is(b) PROVE FALSE
      OBVIOUS
    <3> HIDE DEF is
    <3>1. at < Len(text) /\ At(at) \in {"t", "f"}
      BY <1>3
    <3> QED BY <1>7, <3>1 DEF Barren, Is
  <2>2. Stopped(space)'
    BY <1>1, <1>4, <1>7, <2>1, StoppedStill
  <2>3. NoObject(at)'
    BY <1>4, <1>7, <2>1, BarrenNext
  <2>4. open' # <<>>
    BY <1>1, <1>4, <2>1
  <2> QED BY <1>4, <2>1, <2>2, <2>3, <2>4 DEF Reading
<1>8. AtBoolean(space) => x.type \in {"boolean", "object"}
  BY DEF AtBoolean
<1> QED BY <1>1, <1>5, <1>6, <1>7, <1>8 DEF Reading

-----------------------------------------------------------------------------
(* Objects. *)

\* An object that is due has been made, or its memory is missing.
LEMMA ObjectOpened ==
  ASSUME NEW space, Parses(space), DueItem, value[NewNode].item = Object,
         NEW x, tree' = Grown(x), open' = Append(open, NewNode),
         at' = Done(space, NewNode), UNCHANGED <<value, text, beyond>>,
         \/ x = Object /\ memory'.failed = memory.failed
         \/ x = Nothing /\ memory'.failed = memory.failed + 1
  PROVE  LET i == NewNode
         IN /\ Behind(space)' /\ Len(tree') = i /\ NewNode' = i + 1
            /\ Len(open') = Len(open) + 1 /\ Len(open) = value[i].depth
            /\ Alike' /\ Missing'
<1> DEFINE i == NewNode
           d == Done(space, i)
           l == Len(open)
<1>1. /\ IsObject(value) /\ i \in 1..Len(value) /\ d \in Nat /\ l \in Nat
      /\ l = value[i].depth /\ Missing /\ Len(tree) \in Nat /\ open \in Seq(Nat)
      /\ memory.failed \in Nat /\ i \in Nat
  <2>1. /\ IsObject(value) /\ i \in 1..Len(value) /\ d \in Nat /\ l \in Nat
        /\ l = value[i].depth /\ Missing /\ Len(tree) \in Nat /\ open \in Seq(Nat)
        /\ memory.failed \in Nat
    BY ParsesIs, DueIs DEF DueItem
  <2> QED BY <2>1
<1>2. /\ Alike' /\ Len(tree') = i /\ NewNode' = i + 1 /\ tree'[i].item = x
      /\ \A k \in 1..Len(tree) : tree'[k] = tree[k]
  <2>1. ArrivedItem(Object) = Object
    BY DEF ArrivedItem, Object
  <2> QED BY <2>1, AlikeMore
<1>3. /\ Len(open') = l + 1 /\ open'[l + 1] = i
      /\ \A k \in 1..l : open'[k] = open[k]
  BY <1>1
<1>4. Missing'
  <2>1. CASE memory'.failed = memory.failed
    <3>1. \A k \in 1..Len(tree) : tree'[k].item = tree[k].item
      BY <1>2
    <3>2. Len(open') \in Nat /\ Len(open') >= Len(open)
      BY <1>1, <1>3
    <3> QED BY <1>1, <1>3, <2>1, <3>1, <3>2, MissingMore
  <2>2. CASE x = Nothing
    <3>1. l + 1 \in 1..Len(open') /\ tree'[open'[l + 1]].item = Nothing
      BY <1>1, <1>2, <1>3, <2>2
    <3> HIDE DEF l
    <3> QED BY <3>1 DEF Missing
  <2> QED BY <2>1, <2>2
<1>5. Level(value, i) = l + 1
  BY <1>1, Levels
<1>6. value' = value /\ at' = d
  OBVIOUS
<1> HIDE DEF i, d, l
<1>7. Done(space, Len(tree))' = d
  <2>1. Done(space, Len(tree))' = Len(Joined(Pieces(value', space), Len(tree')))
    BY DEF Done
  <2>2. Done(space, i) = Len(Joined(Pieces(value, space), i))
    BY DEF Done
  <2> QED BY <1>2, <1>6, <2>1, <2>2 DEF d
<1>8. Level(value, Len(tree))' = l + 1
  BY <1>2, <1>5, <1>6
<1>9. Behind(space)'
  <2>1. Len(open') <= l + 1 /\ at' = d + ((l + 1) - Len(open'))
    BY <1>1, <1>3, <1>6
  <2> QED BY <1>2, <1>4, <1>7, <1>8, <2>1 DEF Behind
<1>10. Len(open') = Len(open) + 1 /\ Len(open) = value[i].depth
  BY <1>1, <1>3 DEF l
<1> QED BY <1>2, <1>4, <1>9, <1>10 DEF i

LEMMA ObjectWritten ==
  /\ Len(Written(Object)) = 1
  /\ \A c : ItemBegins(Object, c) => c = "{"
<1> DEFINE b == "{"
<1>1. Object.type = "object"
  BY DEF Object
<1>2. Written(Object) = <<b>>
  BY <1>1 DEF Written
<1> HIDE DEF b
<1>3. Len(Written(Object)) = 1
  BY <1>2
<1>4. ASSUME NEW c, ItemBegins(Object, c) PROVE c = "{"
  BY <1>1, <1>4 DEF ItemBegins
<1> QED BY <1>3, <1>4

LEMMA ReadingObject ==
  ASSUME NEW space, Parses(space), Reading(space), ParseObject
  PROVE  Reading(space)'
<1> DEFINE start == SkipSpace(at)
           i == NewNode
           d == Done(space, i)
<1>1. /\ pc = "object" /\ Len(text) \in Nat /\ memory.failed \in Nat /\ at \in Nat
      /\ memory \in MemoryType /\ TypeOK
      /\ UNCHANGED <<value, text, beyond, key>>
  BY ParsesIs DEF ParseObject
<1>2. CASE ~(start + 2 <= Len(text) /\ At(start) = "{")
  <2>1. pc' \in {"refused", "no_value"} /\ memory' = memory
    BY <1>2 DEF ParseObject, ReturnsNull
  <2>2. Stopped(space)
    <3> SUFFICES ASSUME AtObject(space) PROVE Stopped(space)
      BY <1>1 DEF Reading
    <3>1. DueItem /\ Due /\ ItemAt(space, i) = at /\ value[i].item = Object
      BY DEF AtObject, DueItem
    <3>2. PICK c : Sign(space, at, c) /\ ItemBegins(value[i].item, c)
      BY <3>1, DueIs
    <3>3. c = "{"
      BY <3>1, <3>2, ObjectWritten
    <3>4. /\ d = at + Len(Written(value[i].item)) /\ i \in 1..Len(value)
          /\ IsObject(value) /\ space \in Spaces
      BY <3>1, DueIs, ParsesIs
    <3>5. d = at + 1
      <4>1. Len(Written(value[i].item)) = 1
        BY <3>1, ObjectWritten
      <4> QED BY <3>4, <4>1
    <3>6. PICK e : Sign(space, d, e)
      BY <3>4, PieceEnds
    <3>7. at < Len(text) => start = at /\ At(at) = "{"
      BY <3>1, <3>2, <3>3, ItemRead, SignRead
    <3>8. CASE at < Len(text)
      <4>1. ~(at + 2 <= Len(text))
        BY <1>2, <3>7, <3>8
      <4>2. d >= Len(text)
        BY <1>1, <3>5, <4>1
      <4> QED BY <3>6, <4>2, SignRead
    <3>9. CASE ~(at < Len(text))
      <4>1. at >= Len(text)
        BY <1>1, <3>9
      <4> QED BY <3>2, <4>1, SignRead
    <3> QED BY <3>8, <3>9
  <2>3. Stopped(space)'
    BY <1>1, <2>1, <2>2, StoppedStill
  <2> QED BY <2>1, <2>3 DEF Reading
<1>3. CASE start + 2 <= Len(text) /\ At(start) = "{"
  <2>1. PICK x :
          /\ at' = start + 1 /\ tree' = Grown(x) /\ open' = Append(open, NewNode)
          /\ pc' = IF At(at') = "}" THEN "end" ELSE "key"
          /\ \/ x = Object /\ memory'.failed = memory.failed
             \/ x = Nothing /\ memory'.failed = memory.failed + 1
    <3>1. memory' = Alloc(memory, Block(NewNode, "value")) => memory'.failed = memory.failed
      BY <1>1 DEF Alloc, MemoryType
    <3>2. memory' = Fail(memory, {}) => memory'.failed = memory.failed + 1
      BY <1>1 DEF Fail, MemoryType
    <3> QED BY <1>3, <3>1, <3>2 DEF ParseObject
  <2>2. start < Len(text) /\ start \in Nat
    <3>1. start \in Nat
      BY <1>1, SkipSpaceType
    <3>2. start + 2 <= Len(text) /\ Len(text) \in Nat
      BY <1>1, <1>3
    <3> HIDE DEF start
    <3> QED BY ONLY <3>1, <3>2
  <2>3. AtObject(space)
    <3> SUFFICES ASSUME NoObject(at) PROVE FALSE
      BY <1>1 DEF Reading
    <3> QED BY <1>3, <2>2 DEF NoObject, Is
  <2>4. DueItem /\ Due /\ ItemAt(space, i) = at /\ value[i].item = Object
    BY <2>3 DEF AtObject, DueItem
  <2>5. start = at
    <3>1. PICK c : Sign(space, at, c) /\ ItemBegins(value[i].item, c)
      BY <2>4, DueIs
    <3>2. CASE at < Len(text)
      BY <2>4, <3>2, ItemRead
    <3>3. CASE ~(at < Len(text))
      <4>1. SkipSpace(at) = at
        BY <1>1, <3>3, SkipNone
      <4> QED BY <4>1
    <3> QED BY <3>2, <3>3
  <2>6. /\ d = at + Len(Written(value[i].item)) /\ i \in 1..Len(value) /\ d \in Nat
        /\ IsObject(value) /\ space \in Spaces
    BY <2>4, DueIs, ParsesIs
  <2>7. d = at' /\ d < Len(text)
    <3>1. Len(Written(value[i].item)) = 1
      BY <2>4, ObjectWritten
    <3>2. d = at + 1 /\ at' = at + 1 /\ at + 2 <= Len(text)
      BY <1>3, <2>1, <2>5, <2>6, <3>1
    <3> QED BY <1>1, <3>2
  <2>8. /\ Behind(space)' /\ Len(tree') = i /\ NewNode' = i + 1
        /\ Len(open') = Len(open) + 1 /\ Len(open) = value[i].depth
        /\ Alike' /\ Missing'
    <3>1. at' = Done(space, NewNode)
      BY <2>7
    <3> QED BY <1>1, <2>1, <2>4, <3>1, ObjectOpened
  <2>9. /\ Level(value, i) = value[i].depth + 1 /\ i \in Nat /\ value[i].depth \in Nat
        /\ i < Len(value) => value[i + 1].depth \in 1..Level(value, i)
        /\ HasPairs(value, i) => i < Len(value) /\ value[i + 1].depth > value[i].depth
        /\ i < Len(value) /\ ~HasPairs(value, i) => ~(value[i + 1].depth > value[i].depth)
    BY <2>4, <2>6, Levels
  <2>10. CASE HasPairs(value, i)
    <3>1. Sign(space, d, Quote) /\ KeyAt(space, i + 1) = d
      BY <2>6, <2>10, PieceEnds, FirstKey
    <3>2. At(at') # "}"
      <4>1. At(d) = Quote
        BY <2>7, <3>1, SignRead
      <4> QED BY <2>7, <4>1 DEF Quote
    <3>3. pc' = "key"
      BY <2>1, <3>2
    <3> HIDE DEF i, d
    <3>4. Due'
      <4>1. value[i + 1].depth = Len(open) + 1 /\ i < Len(value)
        BY <2>8, <2>9, <2>10
      <4>2. Len(tree') < Len(value') /\ Len(open') = value'[NewNode'].depth
        BY <1>1, <2>8, <4>1
      <4> QED BY <2>8, <4>2 DEF Due
    <3>5. KeyAt(space, NewNode)' = d
      <4>1. PICK j : j = i + 1
        OBVIOUS
      <4>2. KeyAt(space, j)' = KeyAt(space, j)
        BY <1>1, SameText
      <4>3. NewNode' = j
        BY <2>8, <4>1
      <4>4. KeyAt(space, NewNode)' = KeyAt(space, j)'
        BY <4>3 DEF KeyAt, Done
      <4> QED BY <3>1, <4>1, <4>2, <4>4
    <3>6. HasPairs(value, Len(tree))'
      BY <1>1, <2>8, <2>10
    <3>7. AtKey(space)'
      <4>1. d = at' + 0
        BY <2>6, <2>7
      <4> QED BY <3>4, <3>5, <3>6, <4>1 DEF AtKey
    <3> QED BY <3>3, <3>7 DEF Reading
  <2>11. CASE ~HasPairs(value, i)
    <3>1. Sign(space, d, "}")
      BY <2>4, <2>6, <2>11, PieceEnds
    <3>2. At(at') = "}"
      BY <2>7, <3>1, SignRead
    <3>3. pc' = "end"
      BY <2>1, <3>2
    <3> HIDE DEF i, d
    <3>4. NextWithin(Len(open) - 1)'
      <4>1. Len(open') - 1 = value[i].depth
        BY <2>8, <2>9
      <4>2. i < Len(value) => value[i + 1].depth <= value[i].depth
        BY <2>9, <2>11
      <4>3. Len(tree') < Len(value') => value'[NewNode'].depth <= Len(open') - 1
        BY <1>1, <2>8, <4>1, <4>2
      <4> QED BY <4>3 DEF NextWithin
    <3>5. AtEnd(space)'
      BY <2>8, <3>4 DEF AtEnd
    <3> QED BY <3>3, <3>5 DEF Reading
  <2> QED BY <2>10, <2>11
<1> QED BY <1>2, <1>3

-----------------------------------------------------------------------------
(* The end of a pair, and of an object. *)

LEMMA BehindIs ==
  ASSUME NEW space, Parses(space), pc # "object", Behind(space)
  PROVE  LET k == Len(tree)
             l == Level(value, k)
             m == l - Len(open)
         IN /\ k \in 1..Len(value) /\ k \in Nat /\ l \in Nat /\ m \in Nat /\ m < l
            /\ Done(space, k) \in Nat
            /\ at = Done(space, k) + m
            /\ k < Len(value) =>
                 /\ NewNode = k + 1 /\ Ends(k) \in Nat
                 /\ value[NewNode].depth = l - Ends(k)
                 /\ value[NewNode].depth \in 1..l
                 /\ HasPairs(value, k) <=> Ends(k) = 0 /\ value[k].item = Object
<1> DEFINE k == Len(tree)
           l == Level(value, k)
           m == l - Len(open)
           n == Len(value)
<1>1. /\ IsObject(value) /\ k \in Nat /\ k > 0 /\ Len(open) \in Nat /\ Len(open) > 0
      /\ space \in Spaces /\ n \in Nat /\ k <= n /\ Len(open) <= l
      /\ at = Done(space, k) + m /\ NewNode = k + 1
  BY ParsesIs DEF Behind, Alike
<1>2. k \in 1..n
  BY <1>1
<1>3. Done(space, k) \in Nat /\ l \in Nat
  BY <1>1, <1>2, PieceAt, Levels
<1>4. m \in Nat /\ m < l
  BY <1>1, <1>3
<1>5. ASSUME k < n
      PROVE  /\ Ends(k) \in Nat /\ value[k + 1].depth = l - Ends(k)
             /\ value[k + 1].depth \in 1..l
             /\ HasPairs(value, k) <=> Ends(k) = 0 /\ value[k].item = Object
  <2>1. /\ Ends(k) \in Nat /\ value[k + 1].depth = l - Ends(k)
        /\ value[k + 1].depth \in 1..l
        /\ HasPairs(value, k) <=> value[k + 1].depth > value[k].depth
        /\ HasPairs(value, k) => value[k].item = Object /\ Ends(k) = 0
        /\ value[k].item = Object => l = value[k].depth + 1
        /\ value[k].depth \in Nat
    BY <1>1, <1>2, <1>5, Levels
  <2>2. ASSUME Ends(k) = 0, value[k].item = Object PROVE HasPairs(value, k)
    BY <1>3, <2>1, <2>2
  <2> QED BY <2>1, <2>2
<1> QED BY <1>1, <1>2, <1>3, <1>4, <1>5

\* The object is to end here.
LEMMA EndIs ==
  ASSUME NEW space, Parses(space), pc # "object", Behind(space), NextWithin(Len(open) - 1)
  PROVE  Sign(space, at, "}") /\ ~HasPairs(value, Len(tree))
<1> DEFINE k == Len(tree)
           l == Level(value, k)
           m == l - Len(open)
           n == Len(value)
<1>1. /\ k \in 1..n /\ k \in Nat /\ l \in Nat /\ m \in Nat /\ m < l
      /\ at = Done(space, k) + m
      /\ k < n => /\ NewNode = k + 1 /\ Ends(k) \in Nat
                  /\ value[NewNode].depth = l - Ends(k)
                  /\ HasPairs(value, k) => Ends(k) = 0
  BY BehindIs
<1>2. IsObject(value) /\ space \in Spaces /\ Len(open) \in Nat /\ n \in Nat
  BY ParsesIs
<1>3. k < n => m < Ends(k)
  <2> SUFFICES ASSUME k < n PROVE m < Ends(k)
    OBVIOUS
  <2>1. l - Ends(k) <= Len(open) - 1 /\ Ends(k) \in Nat
    BY <1>1 DEF NextWithin
  <2> HIDE DEF l
  <2> QED BY <1>1, <1>2, <2>1
<1>4. Sign(space, Done(space, k) + m, "}")
  BY <1>1, <1>2, <1>3, EndSign
<1>5. HasPairs(value, k) => k < n
  BY DEF HasPairs
<1>6. ~HasPairs(value, k)
  <2> SUFFICES ASSUME HasPairs(value, k) PROVE FALSE
    OBVIOUS
  <2>1. Ends(k) = 0 /\ m < Ends(k)
    BY <1>1, <1>3, <1>5
  <2> HIDE DEF m
  <2> QED BY <1>1, <2>1
<1> QED BY <1>1, <1>4, <1>6

\* What is behind stays behind.
LEMMA BehindStill ==
  ASSUME NEW space, Parses(space), Alike, Missing,
         UNCHANGED <<value, tree, open, text, beyond>>, memory'.failed = memory.failed
  PROVE  /\ Alike' /\ Missing' /\ NewNode' = NewNode
         /\ Behind(space) /\ at' = at => Behind(space)'
         /\ NextWithin(Len(open) - 1)' <=> NextWithin(Len(open) - 1)
<1>1. Alike' /\ Missing' /\ NewNode' = NewNode
  BY DEF Alike, Missing, NewNode
<1>2. Done(space, Len(tree))' = Done(space, Len(tree))
  BY DEF Done
<1>3. Level(value, Len(tree))' = Level(value, Len(tree))
  OBVIOUS
<1>4. NextWithin(Len(open) - 1)' <=> NextWithin(Len(open) - 1)
  BY <1>1 DEF NextWithin
<1> QED BY <1>1, <1>2, <1>3, <1>4 DEF Behind

LEMMA ReadingPush ==
  ASSUME NEW space, Parses(space), Reading(space), Push
  PROVE  Reading(space)'
<1>1. /\ pc = "push" /\ Len(text) \in Nat /\ memory.failed \in Nat /\ at \in Nat
      /\ memory \in MemoryType /\ Len(open) \in Nat
      /\ UNCHANGED <<value, text, beyond, key, open>>
  BY ParsesIs DEF Push
<1>2. \/ /\ memory'.failed = memory.failed /\ tree' = tree
         /\ at' = IF Is(at, ",") THEN at + 1 ELSE at
         /\ pc' = IF at >= Len(text) THEN "out"
                  ELSE IF Is(at, ",") /\ at + 1 < Len(text) THEN "key" ELSE "end"
      \/ pc' = "out" /\ memory'.failed = memory.failed + 1
      \/ pc' = "crashed"
  <2>1. memory' = Alloc(memory, Block(Parent, "pairs")) => memory'.failed = memory.failed
    BY <1>1 DEF Alloc, MemoryType
  <2>2. ASSUME NEW b, memory' = Free(Fail(memory, {}), b)
        PROVE  memory'.failed = memory.failed + 1
    BY <1>1, <2>2 DEF Free, Fail, MemoryType
  <2> QED BY <2>1, <2>2 DEF Push
<1>3. CASE pc' = "crashed"
  BY <1>3 DEF Reading
<1>4. CASE pc' = "out" /\ memory'.failed = memory.failed + 1
  <2>1. Stopped(space)'
    BY <1>1, <1>4, StoppedStill
  <2> QED BY <1>4, <2>1 DEF Reading
<1>5. CASE /\ memory'.failed = memory.failed /\ tree' = tree
           /\ at' = IF Is(at, ",") THEN at + 1 ELSE at
           /\ pc' = IF at >= Len(text) THEN "out"
                    ELSE IF Is(at, ",") /\ at + 1 < Len(text) THEN "key" ELSE "end"
  <2>1. CASE Stopped(space) /\ at >= Len(text)
    <3>1. Stopped(space)'
      BY <1>1, <1>5, <2>1, StoppedStill
    <3> QED BY <1>5, <2>1, <3>1 DEF Reading
  <2>2. CASE AtPush(space) /\ NextWithin(Len(open) - 1)
    <3>1. Behind(space) /\ Alike /\ Missing
      BY <2>2 DEF AtPush, Behind
    <3>2. Sign(space, at, "}")
      BY <1>1, <2>2, <3>1, EndIs
    <3>3. CASE at >= Len(text)
      <4>1. Stopped(space)
        BY <3>2, <3>3, SignRead
      <4>2. Stopped(space)'
        BY <1>1, <1>5, <4>1, StoppedStill
      <4> QED BY <1>5, <3>3, <4>2 DEF Reading
    <3>4. CASE ~(at >= Len(text))
      <4>1. at < Len(text)
        BY <1>1, <3>4
      <4>2. ~Is(at, ",")
        <5>1. At(at) = "}"
          BY <3>2, <4>1, SignRead
        <5> QED BY <5>1 DEF Is
      <4>3. pc' = "end" /\ at' = at
        BY <1>5, <3>4, <4>2
      <4>4. Behind(space)' /\ NextWithin(Len(open) - 1)'
        BY <1>1, <1>5, <2>2, <3>1, <4>3, BehindStill
      <4>5. AtEnd(space)'
        BY <4>4 DEF AtEnd
      <4> QED BY <4>3, <4>5 DEF Reading
    <3> QED BY <3>3, <3>4
  <2>3. CASE AtPush(space) /\ ~NextWithin(Len(open) - 1)
    <3> DEFINE k == Len(tree)
               l == Level(value, k)
               n == Len(value)
               e == KeyAt(space, k + 1)
    <3>1. /\ Behind(space) /\ Alike /\ Missing /\ ~HasPairs(value, k)
          /\ NextWithin(Len(open))
      BY <2>3 DEF AtPush, Behind
    <3>2. /\ k \in 1..n /\ k \in Nat /\ l \in Nat
          /\ at = Done(space, k) + (l - Len(open)) /\ Done(space, k) \in Nat
          /\ k < n => /\ NewNode = k + 1 /\ Ends(k) \in Nat
                      /\ value[NewNode].depth = l - Ends(k)
                      /\ value[NewNode].depth \in 1..l
      BY <1>1, <3>1, BehindIs
    <3>3. /\ k < n /\ value[NewNode].depth <= Len(open)
          /\ ~(value[NewNode].depth <= Len(open) - 1)
      BY <2>3, <3>1 DEF NextWithin
    <3>4. value[NewNode].depth = Len(open) /\ NewNode = k + 1
      <4>1. value[NewNode].depth \in Nat
        BY <3>2, <3>3
      <4> QED BY <1>1, <3>2, <3>3, <4>1
    <3>5. l - Len(open) = Ends(k)
      <4>1. /\ l \in Nat /\ Ends(k) \in Nat /\ Len(open) \in Nat
            /\ Len(open) = l - Ends(k)
        BY <1>1, <3>2, <3>3, <3>4
      <4> HIDE DEF l
      <4> QED BY ONLY <4>1
    <3>6. Due
      BY <3>1, <3>3, <3>4 DEF Due
    <3>7. IsObject(value) /\ space \in Spaces /\ Len(space) \in Nat
      BY ParsesIs
    <3>8. /\ Sign(space, at, ",") /\ e = at + 1 + Len(space)
      <4>1. /\ Sign(space, Done(space, k) + Ends(k), ",")
            /\ e = Done(space, k) + Ends(k) + 1 + Len(space)
        BY <3>1, <3>2, <3>3, <3>7, CommaSign
      <4>2. at = Done(space, k) + Ends(k)
        BY <3>2, <3>5
      <4> QED BY <4>1, <4>2
    <3>9. Sign(space, e, Quote)
      BY <1>1, <3>4, <3>6, KeyIs
    <3>10. CASE at >= Len(text)
      <4>1. Stopped(space)
        BY <3>8, <3>10, SignRead
      <4>2. Stopped(space)'
        BY <1>1, <1>5, <4>1, StoppedStill
      <4> QED BY <1>5, <3>10, <4>2 DEF Reading
    <3>11. CASE at < Len(text)
      <4>1. Is(at, ",")
        <5>1. At(at) = ","
          BY <3>8, <3>11, SignRead
        <5> QED BY <3>11, <5>1 DEF Is
      <4>2. ~(at >= Len(text))
        BY <1>1, <3>11
      <4>3. CASE at + 1 < Len(text)
        <5>1. pc' = "key" /\ at' = at + 1
          BY <1>5, <4>1, <4>2, <4>3
        <5>2. Due' /\ NewNode' = NewNode
          BY <1>1, <1>5, <3>6, DueStill
        <5>3. KeyAt(space, NewNode)' = e
          <6>1. PICK j : j = k + 1
            OBVIOUS
          <6>2. KeyAt(space, j)' = KeyAt(space, j)
            BY <1>1, SameText
          <6>3. NewNode' = j
            BY <3>4, <5>2, <6>1
          <6>4. KeyAt(space, NewNode)' = KeyAt(space, j)'
            BY <6>3 DEF KeyAt, Done
          <6> QED BY <6>1, <6>2, <6>4
        <5>4. ~HasPairs(value, Len(tree))'
          BY <1>1, <1>5, <3>1
        <5>5. AtKey(space)'
          BY <3>8, <5>1, <5>2, <5>3, <5>4 DEF AtKey
        <5> QED BY <5>1, <5>5 DEF Reading
      <4>4. CASE ~(at + 1 < Len(text))
        <5>1. pc' = "end" /\ at' = at + 1
          BY <1>5, <4>1, <4>2, <4>4
        <5>2. e >= Len(text) /\ ~(at' < Len(text))
          <6>1. /\ at \in Nat /\ Len(text) \in Nat /\ Len(space) \in Nat /\ at' = at + 1
                /\ ~(at + 1 < Len(text)) /\ e = at + 1 + Len(space)
            BY <1>1, <3>7, <3>8, <4>4, <5>1
          <6> HIDE DEF e
          <6> QED BY ONLY <6>1
        <5>3. Stopped(space)
          BY <3>9, <5>2, SignRead
        <5>4. Stopped(space)'
          BY <1>1, <1>5, <5>3, StoppedStill
        <5>5. ~CanEnd'
          BY <1>1, <5>2, CannotEnd
        <5> QED BY <5>1, <5>4, <5>5 DEF Reading
      <4> QED BY <4>3, <4>4
    <3> QED BY <1>1, <3>10, <3>11
  <2> QED BY <1>1, <2>1, <2>2, <2>3 DEF Reading
<1> QED BY <1>2, <1>3, <1>4, <1>5

\* Where no memory was missing the nodes are the value's, as they arrive.
LEMMA WholeTree ==
  ASSUME NEW space, Parses(space), Alike, Len(tree) = Len(value), memory.failed = 0
  PROVE  tree = ArrivedValue(value)
<1>1. /\ tree \in Seq(Node) /\ IsObject(value)
      /\ \A i \in 1..Len(tree) : tree[i].item # Nothing
  <2>1. Failures
    BY DEF Parses, IInv, Kept
  <2> QED BY <2>1, ParsesIs DEF Failures
<1>2. value \in Seq(Node)
  BY <1>1 DEF IsObject
<1>3. ASSUME NEW i \in 1..Len(tree) PROVE tree[i] = ArrivedNode(value[i])
  <2>1. /\ tree[i].depth = value[i].depth /\ tree[i].key = Arrived(value[i].key)
        /\ tree[i].item = ArrivedItem(value[i].item)
    BY <1>1 DEF Alike
  <2>2. tree[i] \in Node
    BY <1>1
  <2>3. tree[i] = [depth |-> tree[i].depth, key |-> tree[i].key, item |-> tree[i].item]
    BY <2>2 DEF Node
  <2> QED BY <2>1, <2>3 DEF ArrivedNode
<1>4. tree = [i \in 1..Len(tree) |-> tree[i]]
  BY <1>1
<1>5. ArrivedValue(value) = [i \in 1..Len(tree) |-> ArrivedNode(value[i])]
  BY DEF ArrivedValue
<1> QED BY <1>3, <1>4, <1>5

LEMMA ReadingObjectEnds ==
  ASSUME NEW space, Parses(space), Reading(space), ObjectEnds
  PROVE  Reading(space)'
<1>1. /\ pc = "end" /\ Len(text) \in Nat /\ memory.failed \in Nat /\ at \in Nat
      /\ UNCHANGED <<value, text, beyond, key, memory>> /\ open # <<>> /\ TypeOK
      /\ open \in Seq(Nat) /\ Len(open) \in Nat
  BY ParsesIs DEF ObjectEnds
<1>2. CASE ~CanEnd
  <2>1. Stopped(space)
    <3> SUFFICES ASSUME AtEnd(space) PROVE Stopped(space)
      BY <1>1 DEF Reading
    <3>1. Sign(space, at, "}")
      BY <1>1, EndIs DEF AtEnd
    <3>2. at >= Len(text)
      <4>1. at < Len(text) => At(at) = "}"
        BY <3>1, SignRead
      <4>2. ~(at < Len(text))
        BY <1>2, <4>1 DEF CanEnd
      <4> QED BY <1>1, <4>2
    <3> QED BY <3>1, <3>2, SignRead
  <2>2. pc' = "out"
    BY <1>2 DEF ObjectEnds
  <2>3. Stopped(space)'
    BY <1>1, <2>1, StoppedStill
  <2> QED BY <2>2, <2>3 DEF Reading
<1>3. CASE CanEnd
  <2> DEFINE k == Len(tree)
             l == Level(value, k)
             n == Len(value)
  <2>1. AtEnd(space) /\ at' = at + 1 /\ open' = Front(open) /\ at < Len(text)
    BY <1>1, <1>3 DEF ObjectEnds, Reading, CanEnd
  <2>2. Behind(space) /\ NextWithin(Len(open) - 1) /\ Alike /\ Missing
    BY <2>1 DEF AtEnd, Behind
  <2>3. ~HasPairs(value, k)
    BY <1>1, <2>2, EndIs
  <2>4. /\ k \in 1..n /\ k \in Nat /\ l \in Nat /\ n \in Nat
        /\ at = Done(space, k) + (l - Len(open)) /\ Done(space, k) \in Nat
        /\ Len(open) <= l
        /\ k < n => NewNode = k + 1 /\ value[NewNode].depth \in 1..l
    <3>1. Len(open) <= l /\ n \in Nat
      BY <2>2, ParsesIs DEF Behind
    <3> QED BY <1>1, <2>2, <3>1, BehindIs
  <2>5. CASE tree[Parent].item = Nothing
    <3>1. pc' \in {"refused", "no_value"}
      BY <1>3, <2>5 DEF ObjectEnds, ReturnsNull
    <3>2. memory.failed # 0
      <4>1. Failures /\ Stack
        BY DEF Parses, IInv, Kept
      <4>2. Nested(tree, open)
        BY <1>1, <4>1, PCs DEF Stack
      <4>3. Parent \in 1..Len(tree)
        BY <1>1, <4>2, ParentType
      <4> QED BY <2>5, <4>1, <4>3 DEF Failures
    <3>3. Stopped(space)
      BY <1>1, <3>2 DEF Stopped
    <3>4. Stopped(space)'
      BY <1>1, <3>3, StoppedStill
    <3> QED BY <3>1, <3>4 DEF Reading
  <2>6. CASE tree[Parent].item # Nothing
    <3>1. tree' = tree /\ pc' = IF Len(open) = 1 THEN "parsed" ELSE "push"
      BY <1>3, <2>6 DEF ObjectEnds
    <3>2. /\ Len(open) > 0 /\ Len(open') = Len(open) - 1
          /\ \A j \in 1..(Len(open) - 1) : open'[j] = open[j]
      BY <1>1, <2>1, FrontIs
    <3>3. memory.failed > 0 =>
            \E j \in 1..(Len(open) - 1) : tree[open[j]].item = Nothing
      <4> SUFFICES ASSUME memory.failed > 0
                   PROVE  \E j \in 1..(Len(open) - 1) : tree[open[j]].item = Nothing
        OBVIOUS
      <4>1. PICK j \in 1..Len(open) : tree[open[j]].item = Nothing
        BY <2>2 DEF Missing
      <4>2. j # Len(open)
        BY <2>6, <4>1 DEF Parent
      <4>3. j \in 1..(Len(open) - 1)
        BY <1>1, <4>2
      <4> QED BY <4>1, <4>3
    <3>4. CASE Len(open) = 1
      <4>1. memory.failed = 0
        BY <1>1, <3>3, <3>4
      <4>2. k = n
        <5> SUFFICES ASSUME k < n PROVE FALSE
          BY <2>4
        <5>1. value[NewNode].depth <= Len(open) - 1 /\ value[NewNode].depth \in 1..l
          BY <2>2, <2>4 DEF NextWithin
        <5> HIDE DEF l
        <5> QED BY <2>4, <3>4, <5>1
      <4>3. tree = ArrivedValue(value)
        BY <2>2, <4>1, <4>2, WholeTree
      <4>4. Len(text) = Len(Text(value, space))
        <5>1. Complete(value) /\ space \in Spaces /\ Len(text) <= Len(Text(value, space))
          BY ParsesIs
        <5>2. Len(Text(value, space)) = Done(space, k) + l
          BY <4>2, <5>1, EndOfText
        <5> HIDE DEF l, k
        <5> QED BY <1>1, <2>1, <2>4, <3>4, <5>1, <5>2
      <4>5. pc' = "parsed"
        BY <3>1, <3>4
      <4>6. /\ tree' = ArrivedValue(value') /\ memory'.failed = 0
            /\ Len(text') = Len(Text(value', space))
        BY <1>1, <3>1, <4>1, <4>3, <4>4
      <4> QED BY <4>5, <4>6 DEF Reading
    <3>5. CASE Len(open) # 1
      <4>1. pc' = "push"
        BY <3>1, <3>5
      <4>2. Alike'
        BY <1>1, <2>2, <3>1 DEF Alike
      <4>3. Missing'
        BY <1>1, <3>1, <3>2, <3>3 DEF Missing
      <4>4. NextWithin(Len(open))'
        <5>1. k < n => value[NewNode].depth <= Len(open')
          BY <2>2, <3>2 DEF NextWithin
        <5>2. Len(tree') < Len(value') => value'[NewNode'].depth <= Len(open')
          BY <1>1, <3>1, <5>1 DEF NewNode
        <5> QED BY <5>2 DEF NextWithin
      <4>5. ~HasPairs(value, Len(tree))'
        BY <1>1, <2>3, <3>1
      <4>6. Behind(space)'
        <5>1. Done(space, Len(tree))' = Done(space, k)
          BY <1>1, <3>1 DEF Done
        <5>2. Level(value, Len(tree))' = l
          BY <1>1, <3>1
        <5>3. Len(open') <= l /\ at' = Done(space, k) + (l - Len(open'))
          <6> HIDE DEF l, k
          <6> QED BY <1>1, <2>1, <2>4, <3>2
        <5> QED BY <4>2, <4>3, <5>1, <5>2, <5>3 DEF Behind
      <4>7. AtPush(space)'
        BY <4>4, <4>5, <4>6 DEF AtPush
      <4> QED BY <4>1, <4>7 DEF Reading
    <3> QED BY <3>4, <3>5
  <2> QED BY <2>5, <2>6
<1> QED BY <1>2, <1>3

LEMMA ReadingOut ==
  ASSUME NEW space, Parses(space), Reading(space), NoValue \/ Out
  PROVE  Reading(space)'
<1>1. /\ pc \in {"out", "no_value"} /\ UNCHANGED <<value, text, beyond>>
      /\ memory.failed \in Nat /\ memory \in MemoryType
      /\ pc' \in {"out", "refused", "no_value"}
  BY ParsesIs DEF NoValue, Out, ReturnsNull, reading
<1>2. memory'.failed = memory.failed
  BY <1>1 DEF NoValue, Out, Free, MemoryType
<1>3. Stopped(space)
  BY <1>1 DEF Reading
<1>4. Stopped(space)'
  BY <1>1, <1>2, <1>3, StoppedStill
<1> QED BY <1>1, <1>4 DEF Reading

-----------------------------------------------------------------------------
(* Every step. *)

LEMMA ReadingParses ==
  ASSUME NEW space, Parses(space), Reading(space), Parsing
  PROVE  Reading(space)'
<1>1. CASE ParseString
  BY <1>1, ReadingStringBegins, ReadingStringEnds DEF ParseString
<1>2. CASE StringGoesOn
  BY <1>2, ReadingGoesOn
<1>3. CASE NumberBegins \/ DigitGoesOn \/ NumberEnds
  BY <1>3, ReadingNumberBegins, ReadingDigit, ReadingNumberEnds
<1>4. CASE ParseBoolean \/ ParseObject \/ Push \/ ObjectEnds
  BY <1>4, ReadingBoolean, ReadingObject, ReadingPush, ReadingObjectEnds
<1>5. CASE ParseKey
  BY <1>5, ReadingKeyBegins, ReadingKeyEnds DEF ParseKey
<1>6. CASE NoValue \/ Out
  BY <1>6, ReadingOut
<1> QED BY <1>1, <1>2, <1>3, <1>4, <1>5, <1>6 DEF Parsing

LEMMA ParsingSame ==
  ASSUME Parsing
  PROVE  /\ UNCHANGED <<value, text, beyond>>
         /\ pc \in ParsePC /\ pc' \notin BuildPC \cup {"sent", "cut"}
<1>1. pc \in {"string", "string_loop", "number", "digits", "boolean", "object",
              "key", "key_loop", "push", "end", "out", "no_value"}
  BY DEF Parsing, ParseString, StringGoesOn, NumberBegins, DigitGoesOn, NumberEnds,
         ParseBoolean, ParseObject, ParseKey, NoValue, Push, ObjectEnds, Out
<1>2. UNCHANGED <<value, text, beyond>>
  BY DEF Parsing, ParseString, StringGoesOn, NumberBegins, DigitGoesOn, NumberEnds,
         ParseBoolean, ParseObject, ParseKey, NoValue, Push, ObjectEnds, Out, reading,
         StringBegins, StringWrong, StringLost, ValueFound, NotFound
<1>3. pc' \notin {"create", "attach", "sent", "cut"}
  <2>1. ASSUME NEW x, NEW next, NEW other, other \in {"number", "boolean", "object"},
               ValueFound(x, next, other)
        PROVE  pc' \notin {"create", "attach", "sent", "cut"}
    BY <2>1 DEF ValueFound
  <2>2. CASE ParseString
    BY <2>2 DEF ParseString, StringBegins, StringWrong, StringLost, ValueFound
  <2>3. CASE NumberBegins \/ DigitGoesOn \/ NumberEnds \/ StringGoesOn
    BY <2>3 DEF NumberBegins, DigitGoesOn, NumberEnds, StringGoesOn, ValueFound, NotFound
  <2>4. CASE ParseBoolean
    BY <2>4 DEF ParseBoolean, ValueFound, NotFound
  <2>5. CASE ParseObject \/ Push \/ ObjectEnds \/ NoValue \/ Out
    BY <2>5 DEF ParseObject, Push, ObjectEnds, NoValue, Out, ReturnsNull
  <2>6. CASE ParseKey
    BY <2>6 DEF ParseKey, StringBegins, StringWrong, StringLost
  <2> QED BY <2>2, <2>3, <2>4, <2>5, <2>6 DEF Parsing
<1> QED BY <1>1, <1>2, <1>3, PCs

LEMMA ReadingStays ==
  ASSUME NEW space, UNCHANGED vars
  PROVE  (Reading(space)' <=> Reading(space)) /\ (Begins(space)' <=> Begins(space))
<1>1. UNCHANGED <<pc, value, tree, open, text, room, beyond, at, from, string, number, key,
                  memory>>
  BY DEF vars, reading
<1>2. /\ Alike' <=> Alike
      /\ Missing' <=> Missing
      /\ \A d : NextWithin(d)' <=> NextWithin(d)
      /\ CanEnd' <=> CanEnd
      /\ Stopped(space)' <=> Stopped(space)
      /\ NewNode' = NewNode
  BY <1>1 DEF Alike, Missing, NextWithin, CanEnd, At, Stopped, NewNode
<1>3. /\ Done(space, Len(tree))' = Done(space, Len(tree))
      /\ KeyAt(space, NewNode)' = KeyAt(space, NewNode)
      /\ ItemAt(space, NewNode)' = ItemAt(space, NewNode)
  BY <1>1, <1>2 DEF Done, KeyAt, ItemAt
<1>4. /\ Barren(at)' <=> Barren(at)
      /\ NoObject(at)' <=> NoObject(at)
  BY <1>1 DEF Barren, NoObject, SkipSpace, Is, At
<1>5. /\ Due' <=> Due
      /\ DueItem' <=> DueItem
      /\ Behind(space)' <=> Behind(space)
      /\ NextWithin(Len(open))' <=> NextWithin(Len(open))
      /\ NextWithin(Len(open) - 1)' <=> NextWithin(Len(open) - 1)
  BY <1>1, <1>2, <1>3 DEF Due, DueItem, Behind, NextWithin
<1>6. /\ \A s, p : Within(s, p)' <=> Within(s, p)
      /\ \A n, p : WithinNumber(n, p)' <=> WithinNumber(n, p)
  BY <1>1 DEF Within, WithinNumber, StringPlace
<1>7. /\ Within(value[NewNode].key, KeyAt(space, NewNode))' <=>
           Within(value[NewNode].key, KeyAt(space, NewNode))
      /\ Within(value[NewNode].item.string, ItemAt(space, NewNode))' <=>
           Within(value[NewNode].item.string, ItemAt(space, NewNode))
      /\ WithinNumber(value[NewNode].item.number, ItemAt(space, NewNode))' <=>
           WithinNumber(value[NewNode].item.number, ItemAt(space, NewNode))
  BY <1>1, <1>2, <1>3 DEF Within, WithinNumber, StringPlace
<1>8. /\ AtKey(space)' <=> AtKey(space)
      /\ InKey(space)' <=> InKey(space)
      /\ AtString(space)' <=> AtString(space)
      /\ InItem(space)' <=> InItem(space)
  BY <1>1, <1>2, <1>3, <1>5, <1>7 DEF AtKey, InKey, AtString, InItem
<1>9. /\ AtNumber(space)' <=> AtNumber(space)
      /\ InDigits(space)' <=> InDigits(space)
      /\ AtBoolean(space)' <=> AtBoolean(space)
      /\ AtObject(space)' <=> AtObject(space)
  BY <1>1, <1>2, <1>3, <1>5, <1>7 DEF AtItem, AtNumber, InDigits, AtBoolean, AtObject
<1>10. /\ AtPush(space)' <=> AtPush(space)
       /\ AtEnd(space)' <=> AtEnd(space)
  BY <1>1, <1>5 DEF AtPush, AtEnd
<1>11. Reading(space)' <=> Reading(space)
  BY <1>1, <1>2, <1>4, <1>8, <1>9, <1>10 DEF Reading
<1> QED BY <1>1, <1>11 DEF Begins

LEMMA InStepInit == Init => InStep
<1> SUFFICES ASSUME Init PROVE InStep
  OBVIOUS
<1>1. pc = "create" /\ key = <<>>
  BY DEF Init
<1> QED BY <1>1, PCs DEF InStep, Fresh, TextPC

LEMMA FreshNext ==
  ASSUME IInv, Fresh, [Next]_vars
  PROVE  Fresh'
<1>1. CASE Building
  <2>1. pc \in BuildPC /\ key' = key /\ pc' \in {"create", "attach", "built", "crashed"}
    BY <1>1, PCs DEF Building, Create, Created, Attach, reading
  <2> QED BY <2>1, PCs DEF Fresh
<1>2. CASE Writing \/ Release
  <2>1. pc' \in WritePC \cup {"written", "too_long", "crashed", "released"}
    BY <1>2, PCs DEF Writing, Serialize, WriteValue, WriteKey, WriteNext, WriteEnd, TooLong,
                     Release
  <2> QED BY <2>1, PCs DEF Fresh
<1>3. CASE ClientSends \/ OtherSends
  <2>1. pc = "create" /\ at = 0 /\ pc' = "sent" /\ key' = key /\ memory' = memory
    BY <1>3 DEF ClientSends, OtherSends, reading
  <2>2. memory.failed = 0
    BY <2>1 DEF IInv, Kept, Failures
  <2> QED BY <2>1, <2>2, PCs DEF Fresh
<1>4. CASE Cut
  <2>1. pc = "sent" /\ pc' = "cut" /\ key' = key /\ memory' = memory
    BY <1>4 DEF Cut, reading
  <2> QED BY <2>1, PCs DEF Fresh
<1>5. CASE Parse
  <2>1. pc' = "object"
    BY <1>5 DEF Parse
  <2> QED BY <2>1, PCs DEF Fresh
<1>6. CASE Parsing
  BY <1>6, ParsingSame DEF Fresh
<1>7. CASE UNCHANGED vars
  BY <1>7 DEF vars, reading, Fresh
<1> QED BY <1>1, <1>2, <1>3, <1>4, <1>5, <1>6, <1>7 DEF Next, Sending

\* The first node is due when parsing begins.
LEMMA ReadingBegins ==
  ASSUME IInv, Fresh, Parse, value # <<>>, NEW space \in Spaces
  PROVE  Reading(space)'
<1>1. /\ pc \in {"sent", "cut"} /\ pc' = "object" /\ at' = 0
      /\ UNCHANGED <<value, tree, open, text, key, memory>>
  BY DEF Parse
<1>2. open = <<>> /\ tree = <<>> /\ key = <<>> /\ memory.failed = 0 /\ value \in Values
  BY <1>1 DEF IInv, Kept, Stack, TypeOK, Fresh
<1>3. IsObject(value) /\ Len(value) \in Nat \ {0}
  BY <1>2, ValueType
<1>4. /\ Complete(value) /\ 1 \in 1..Len(value)
      /\ value[1] = [depth |-> 0, key |-> <<>>, item |-> Object]
  BY <1>3, ObjectIsComplete DEF IsObject
<1>5. ItemAt(space, 1) = 0
  BY <1>4, FirstAt
<1>6. NewNode' = 1 /\ Len(tree') = 0 /\ Len(open') = 0 /\ Len(value') > 0
  BY <1>1, <1>2, <1>3 DEF NewNode
<1>7. Alike'
  <2>1. \A i \in 1..Len(tree') : FALSE
    BY <1>6
  <2> QED BY <1>3, <1>6, <2>1 DEF Alike
<1>8. Missing'
  BY <1>1, <1>2 DEF Missing
<1>9. DueItem' /\ value[NewNode].item' = Object
  <2>1. value'[NewNode'] = [depth |-> 0, key |-> <<>>, item |-> Object]
    BY <1>1, <1>4, <1>6
  <2>3. Arrived(<< >>) = << >>
    <3>1. << >> \in Seq(Character) /\ Len(<< >>) = 0
      OBVIOUS
    <3> DEFINE a == Arrived(<< >>)
    <3>2. a \in Seq(Character) /\ Len(a) = 0
      BY <3>1, ArrivedType
    <3> HIDE DEF a
    <3>3. a = << >>
      BY <3>2
    <3> QED BY <3>3 DEF a
  <2>2. /\ key' = Arrived(value'[NewNode'].key) /\ Len(open') = value'[NewNode'].depth
        /\ value'[NewNode'].item = Object
    BY <1>1, <1>2, <1>6, <2>1, <2>3
  <2> QED BY <1>6, <1>7, <1>8, <2>2 DEF Due, DueItem
<1>10. ItemAt(space, NewNode)' = at'
  <2>1. PICK j : j = 1
    OBVIOUS
  <2>2. ItemAt(space, j)' = ItemAt(space, j)
    BY <1>1 DEF ItemAt, Done
  <2>3. ItemAt(space, NewNode)' = ItemAt(space, j)'
    BY <1>6, <2>1 DEF ItemAt, Done
  <2> QED BY <1>1, <1>5, <2>1, <2>2, <2>3
<1>11. AtObject(space)'
  BY <1>9, <1>10 DEF AtObject
<1> QED BY <1>1, <1>11 DEF Reading

LEMMA InStepNext ==
  ASSUME IInv, InStep, [Next]_vars
  PROVE  InStep'
<1>1. Fresh /\ Fresh'
  BY FreshNext DEF InStep
<1>2. ASSUME pc' \notin TextPC \/ value' = <<>> PROVE InStep'
  BY <1>1, <1>2 DEF InStep
<1>3. CASE Building
  <2>1. pc' \in {"create", "attach", "built", "crashed"}
    BY <1>3 DEF Building, Create, Created, Attach
  <2> QED BY <1>2, <2>1, PCs DEF TextPC
<1>4. CASE Writing \/ Release
  <2>1. pc' \in WritePC \cup {"written", "too_long", "crashed", "released"}
    BY <1>4, PCs DEF Writing, Serialize, WriteValue, WriteKey, WriteNext, WriteEnd, TooLong,
                     Release
  <2> QED BY <1>2, <2>1, PCs DEF TextPC
<1>5. CASE OtherSends
  BY <1>2, <1>5 DEF OtherSends
<1>6. CASE ClientSends
  <2>1. PICK space \in Spaces : text' = Text(value, space)
    BY <1>6 DEF ClientSends
  <2>2. pc = "create" /\ pc' = "sent" /\ value' = value
    BY <1>6 DEF ClientSends
  <2>3. value \in Values
    BY <2>2, PCs DEF IInv, Kept, Places
  <2>4. Text(value, space) \in Seq(Character)
    BY <2>3, ValueType, TextSize
  <2>5. Begins(space)'
    <3>1. Len(text') <= Len(text')
      BY <2>1, <2>4
    <3> QED BY <2>1, <2>2, <3>1 DEF Begins
  <2>6. \A x \in Spaces : Reading(x)'
    BY <2>2 DEF Reading
  <2> QED BY <1>1, <2>5, <2>6 DEF InStep
<1>7. CASE Cut
  <2>1. PICK n \in 0..(Len(text) - 1) : text' = SubSeq(text, 1, n)
    BY <1>7 DEF Cut
  <2>2. pc = "sent" /\ pc' = "cut" /\ value' = value
    BY <1>7 DEF Cut
  <2>3. CASE value # <<>>
    <3>1. PICK space \in Spaces : Begins(space)
      BY <2>2, <2>3 DEF InStep, TextPC
    <3>2. value \in Values /\ text \in Seq(Character)
      BY <2>3 DEF IInv, TypeOK
    <3>3. /\ Len(text') = n /\ n <= Len(text)
          /\ \A i \in 1..n : text'[i] = text[i] /\ i \in 1..Len(text)
      BY <2>1, <3>2
    <3>4. Len(Text(value, space)) \in Nat /\ n \in Nat /\ Len(text) \in Nat
      BY <2>1, <3>2, ValueType, TextSize
    <3>5. Begins(space)'
      BY <2>2, <3>1, <3>3, <3>4 DEF Begins
    <3>6. \A x \in Spaces : Reading(x)'
      BY <2>2 DEF Reading
    <3> QED BY <1>1, <3>5, <3>6 DEF InStep
  <2> QED BY <1>2, <2>2, <2>3
<1>8. CASE Parse
  <2>1. pc \in TextPC /\ UNCHANGED <<value, text>>
    BY <1>8 DEF Parse, TextPC
  <2>2. CASE value # <<>>
    <3>1. \A space : Begins(space)' <=> Begins(space)
      BY <2>1 DEF Begins
    <3>2. \A space \in Spaces : Reading(space)'
      BY <1>1, <1>8, <2>2, ReadingBegins
    <3>3. \E space \in Spaces : Begins(space)
      BY <2>1, <2>2 DEF InStep
    <3> QED BY <1>1, <3>1, <3>2, <3>3 DEF InStep
  <2> QED BY <1>2, <2>1, <2>2
<1>9. CASE Parsing
  <2>1. UNCHANGED <<value, text, beyond>> /\ pc \in ParsePC /\ pc \in TextPC
    BY <1>9, ParsingSame DEF TextPC
  <2>2. CASE value # <<>>
    <3>1. /\ \E space \in Spaces : Begins(space)
          /\ \A space \in Spaces : Begins(space) => Reading(space)
      BY <2>1, <2>2 DEF InStep
    <3>2. \A space : Begins(space)' <=> Begins(space)
      BY <2>1 DEF Begins
    <3>3. ASSUME NEW space \in Spaces, Begins(space)' PROVE Reading(space)'
      <4>1. Begins(space) /\ Reading(space)
        BY <3>1, <3>2, <3>3
      <4>2. Parses(space)
        BY <2>1, <2>2, <4>1 DEF Parses
      <4> QED BY <1>9, <4>1, <4>2, ReadingParses
    <3> QED BY <1>1, <3>1, <3>2, <3>3 DEF InStep
  <2> QED BY <1>2, <2>1, <2>2
<1>10. CASE UNCHANGED vars
  <2>1. pc' = pc /\ value' = value
    BY <1>10 DEF vars
  <2>2. \A space : (Reading(space)' <=> Reading(space)) /\ (Begins(space)' <=> Begins(space))
    BY <1>10, ReadingStays
  <2> QED BY <1>1, <2>1, <2>2 DEF InStep
<1> QED BY <1>3, <1>4, <1>5, <1>6, <1>7, <1>8, <1>9, <1>10 DEF Next, Sending

LEMMA AlwaysInStep == Spec => []InStep
<1>1. IInv /\ InStep /\ [Next]_vars => InStep'
  BY InStepNext
<1> QED BY <1>1, InStepInit, Invariance, PTL DEF Spec

\* Whatever value a client makes a text of, with spaces or without, and whatever lies
\* behind the text in memory, json_parse gives back that value, with the letter for
\* each character that the client wrote as an escaped letter, or it refuses because an
\* allocation had failed: never another value, and never a complete text without such a
\* failure.
THEOREM RoundTripHolds == Spec => []RoundTrip
<1>1. IInv /\ InStep => RoundTrip
  <2> SUFFICES ASSUME IInv, InStep, value # <<>>
               PROVE  /\ pc = "parsed" =>
                           tree = ArrivedValue(value) /\ memory.failed = 0
                      /\ pc \in {"refused", "crashed"} /\ memory.failed = 0 => ~Whole
    BY DEF RoundTrip
  <2>1. ASSUME pc = "parsed" PROVE tree = ArrivedValue(value) /\ memory.failed = 0
    <3>1. PICK space \in Spaces : Begins(space) /\ Reading(space)
      BY <2>1 DEF InStep, TextPC
    <3> QED BY <2>1, <3>1 DEF Reading
  <2>2. ASSUME pc = "refused", memory.failed = 0, NEW space \in Spaces,
               text = Text(value, space)
        PROVE  FALSE
    <3>1. Len(text) \in Nat
      BY DEF IInv, TypeOK
    <3>2. Begins(space)
      BY <2>2, <3>1 DEF Begins
    <3>3. Stopped(space)
      BY <2>2, <3>2 DEF InStep, TextPC, Reading
    <3> QED BY <2>2, <3>1, <3>3 DEF Stopped
  <2>3. pc = "crashed" => memory.failed # 0
    BY DEF IInv, Kept, Failures
  <2> QED BY <2>1, <2>2, <2>3 DEF Whole
<1> QED BY <1>1, AlwaysInStep, Invariance, PTL

\* No beginning of a value's text that stops short is accepted by json_parse, however
\* it would go on in memory.
THEOREM PrefixRefusedHolds == Spec => []PrefixRefused
<1>1. IInv /\ InStep => PrefixRefused
  <2> SUFFICES ASSUME IInv, InStep, pc = "parsed", value # <<>> PROVE Whole
    BY DEF PrefixRefused
  <2>1. PICK space \in Spaces : Begins(space) /\ Reading(space)
    BY DEF InStep, TextPC
  <2>2. Len(text) = Len(Text(value, space))
    BY <2>1 DEF Reading
  <2>3. text \in Seq(Character) /\ Text(value, space) \in Seq(Character)
    <3>1. value \in Values /\ text \in Seq(Character)
      BY DEF IInv, TypeOK
    <3> QED BY <3>1, ValueType, TextSize
  <2>4. \A i \in 1..Len(text) : text[i] = Text(value, space)[i]
    BY <2>1 DEF Begins
  <2>5. text = Text(value, space)
    <3> DEFINE t == Text(value, space)
    <3> HIDE DEF t
    <3> QED BY <2>2, <2>3, <2>4 DEF t
  <2> QED BY <2>5 DEF Whole
<1> QED BY <1>1, AlwaysInStep, Invariance, PTL
=============================================================================
