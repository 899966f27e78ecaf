-------------------------- MODULE ClockStore_proof --------------------------
(***************************************************************************)
(* Proofs about ClockStore, for any ports, cache, pages and lifetime: what *)
(* is cached agrees with what is stored, but for the policy of clocks that *)
(* are exposed, a creation that was acknowledged is kept and seen, rows    *)
(* only expire, lists show the rows found unless they share a slot, and    *)
(* readers see the ClockTable.  At the end the same about PortTime: it is  *)
(* a ClockStore, and what its clocks show is exact.                        *)
(***************************************************************************)
EXTENDS PortTime, FiniteSetTheorems, WellFoundedInduction, TLAPS

\* Only ports that are not special are stored.
StoredValid == \A p \in Port : table[p] # None => Valid(p)

\* The half of PromiseKept that is about the table.
PromiseStored ==
  \A p \in Port :
    (promised[p] # None /\ now <= promised[p].created + Lifetime) =>
      table[p] = promised[p]

\* The history knows every port that has a full secret.
FilledKnown ==
  \A p \in Port : table[p] # None /\ table[p].clock.full => p \in filled

\* The inductive invariant.
IInv == /\ TypeOK
        /\ StoredValid
        /\ FilledKnown
        /\ CacheCoherent
        /\ PromiseStored
        /\ RecentExceptCollisions

-----------------------------------------------------------------------------
(* Slots and lists. *)

\* Every port has a slot.
LEMMA HashSlot == \A p \in Port : Hash(p) \in Slot
  BY PortAssumption, SizeAssumption DEF Hash, Slot

\* A set of places of a list has a last one.
LEMMA LastPlace ==
  ASSUME NEW n \in Nat, NEW S \in SUBSET (1..n), S # {}
  PROVE  \E m \in S : \A i \in S : i <= m
<1> DEFINE D == {n - i : i \in S}
<1>1. D \subseteq Nat /\ D # {}
  <2>1. \A i \in S : n - i \in Nat
    OBVIOUS
  <2>2. D \subseteq Nat
    BY <2>1, Zenon
  <2> QED
    BY <2>2, Zenon
<1>2. PICK d \in D : \A k \in D : <<k, d>> \notin OpToRel(<, Nat)
  BY <1>1, WFMin, NatLessThanWellFounded, Zenon
<1>3. \A k \in D : ~(k < d)
  BY <1>1, <1>2, Zenon DEF OpToRel
<1>4. PICK m \in S : d = n - m
  OBVIOUS
<1>5. \A i \in S : n - i \in D
  OBVIOUS
<1> HIDE DEF D
<1> QED
  BY <1>3, <1>4, <1>5

\* A list of recent clocks is a sequence of stored ports.
LEMMA FoundRows ==
  ASSUME NEW n \in Nat, NEW rows \in RecentRows(n)
  PROVE  /\ rows \in Seq(Port)
         /\ \A i \in 1..Len(rows) : table[rows[i]] # None
<1>1. Listed \in SUBSET Port /\ \A p \in Listed : table[p] # None
  BY DEF Listed
<1>2. Cardinality(Listed) \in Nat
  BY <1>1, PortAssumption, FS_Subset, FS_CardinalityType
<1>3. PICK size \in Nat : rows \in [1..size -> Listed]
  BY <1>2 DEF RecentRows
<1>4. rows \in Seq(Listed) /\ Len(rows) = size
  BY <1>3
<1> QED
  BY <1>1, <1>3, <1>4

\* A slot behind one of the full secrets among some rows.
Behind(rows, s) == \E j \in 1..Len(rows) : /\ Hash(rows[j]) + 1 = s
                                           /\ table[rows[j]].clock.full

\* What reading rows leaves in a slot: what was there, or one of the rows that
\* belong there, either of them perhaps overrun.
LEMMA SlotAfter ==
  ASSUME NEW rows \in Seq(Port), NEW s \in Slot
  PROVE  \E entry :
           /\ \/ /\ \A i \in 1..Len(rows) : Hash(rows[i]) # s
                 /\ entry = cache[s]
              \/ \E i \in 1..Len(rows) : /\ Hash(rows[i]) = s
                                         /\ entry = Cached(rows[i])
           /\ \/ CacheAfter(rows)[s] = entry
              \/ Behind(rows, s) /\ CacheAfter(rows)[s] = Overrun(entry)
<1> DEFINE at(q) == {i \in 1..Len(rows) : Hash(rows[i]) = q}
           last(q) == CHOOSE i \in at(q) : \A j \in at(q) : j <= i
           written(q) == IF at(q) = {} THEN cache[q] ELSE Cached(rows[last(q)])
           overrun(q) == \E j \in 1..Len(rows) : /\ Hash(rows[j]) + 1 = q
                                                 /\ table[rows[j]].clock.full
                                                 /\ \A i \in at(q) : i < j
<1>1. CacheAfter(rows)[s] = IF overrun(s) THEN Overrun(written(s)) ELSE written(s)
  BY DEF CacheAfter
<1>2. overrun(s) => Behind(rows, s)
  BY DEF Behind
<1>3. \/ /\ \A i \in 1..Len(rows) : Hash(rows[i]) # s
         /\ written(s) = cache[s]
      \/ \E i \in 1..Len(rows) : /\ Hash(rows[i]) = s
                                 /\ written(s) = Cached(rows[i])
  <2>1. CASE at(s) = {}
    BY <2>1
  <2>2. CASE at(s) # {}
    <3>1. at(s) \in SUBSET (1..Len(rows)) /\ Len(rows) \in Nat
      OBVIOUS
    <3>2. \E m \in at(s) : \A i \in at(s) : i <= m
      BY <2>2, <3>1, LastPlace
    <3>3. last(s) \in at(s)
      BY <3>2
    <3> QED
      BY <2>2, <3>3
  <2> QED
    BY <2>1, <2>2
<1> HIDE DEF at, last, written, overrun
<1> QED
  BY <1>1, <1>2, <1>3

\* The clock of a row, and that it is none.
LEMMA RowClock ==
  ASSUME TypeOK, NEW p \in Port, table[p] # None
  PROVE  /\ table[p] \in Row
         /\ table[p].clock \in Clock
         /\ table[p].clock # None
  BY NoneAssumption DEF TypeOK, Row

\* A clock without its policy is a clock, the same in all else.
LEMMA OpenedClock ==
  ASSUME NEW c \in Clock
  PROVE  /\ Opened(c) \in Clock
         /\ Opened(c) # None
         /\ Opened(c).value = c.value
         /\ Opened(Opened(c)) = Opened(c)
<1>1. Opened(c) \in Clock
  BY PolicyAssumption DEF Opened, Clock
<1>2. Opened(c) # None
  BY <1>1, NoneAssumption
<1>3. Opened(c).value = c.value /\ Opened(Opened(c)) = Opened(c)
  BY PolicyAssumption DEF Opened, Clock
<1> QED
  BY <1>1, <1>2, <1>3

\* A slot that is overrun keeps its type and all but the policy.
LEMMA OverrunEntry ==
  ASSUME NEW e \in Entry
  PROVE  /\ Overrun(e) \in Entry
         /\ Overrun(e).valid = e.valid
         /\ Overrun(e).port_id = e.port_id
         /\ e.clock # None => Overrun(e).clock = Opened(e.clock)
<1>1. CASE e.clock = None
  BY <1>1 DEF Overrun
<1>2. CASE e.clock # None
  <2>1. e.clock \in Clock
    BY <1>2 DEF Entry
  <2>2. Opened(e.clock) \in Clock
    BY <2>1, OpenedClock
  <2>3. Overrun(e) = [e EXCEPT !.clock = Opened(e.clock)]
    BY <1>2 DEF Overrun
  <2> HIDE DEF Opened
  <2> QED
    BY <2>2, <2>3 DEF Entry
<1> QED
  BY <1>1, <1>2

-----------------------------------------------------------------------------
(* Kinds of steps.  The list of recent clocks. *)

\* A slot filled from a stored row is that row.
LEMMA SlotFilled ==
  ASSUME TypeOK, StoredValid, NEW p \in Port, table[p] # None
  PROVE  /\ Cached(p) \in Entry
         /\ Cached(p).valid /\ Cached(p).port_id = p
         /\ Cached(p).clock = table[p].clock
         /\ Valid(p) /\ table[p].clock \in Clock
  BY RowClock DEF StoredValid, Cached, Entry

\* A list that stays as it is stays right.
LEMMA ListKept ==
  ASSUME RecentExceptCollisions, UNCHANGED page
  PROVE  RecentExceptCollisions'
  BY DEF RecentExceptCollisions, Hash

\* A list shows what is in the slots of its rows after they were read.
LEMMA ListShown ==
  ASSUME TypeOK, StoredValid, NEW n \in Nat, NEW rows \in RecentRows(n),
         cache' = CacheAfter(rows),
         page' = [rows |-> rows,
                  shown |-> [i \in 1..Len(rows) |->
                               cache'[Hash(rows[i])].port_id]]
  PROVE  /\ RecentExceptCollisions'
         /\ page' \in [rows : Seq(Port), shown : Seq(Port)]
<1>1. /\ rows \in Seq(Port)
      /\ \A i \in 1..Len(rows) : table[rows[i]] # None
  BY FoundRows
<1> DEFINE shown == [i \in 1..Len(rows) |-> cache'[Hash(rows[i])].port_id]
<1>2. ASSUME NEW i \in 1..Len(rows)
      PROVE  \E j \in 1..Len(rows) : /\ shown[i] = rows[j]
                                     /\ Hash(rows[i]) = Hash(rows[j])
  <2>1. rows[i] \in Port /\ Hash(rows[i]) \in Slot
    BY <1>1, HashSlot
  <2>2. PICK entry :
          /\ \/ /\ \A j \in 1..Len(rows) : Hash(rows[j]) # Hash(rows[i])
                /\ entry = cache[Hash(rows[i])]
             \/ \E j \in 1..Len(rows) : /\ Hash(rows[j]) = Hash(rows[i])
                                        /\ entry = Cached(rows[j])
          /\ \/ CacheAfter(rows)[Hash(rows[i])] = entry
             \/ /\ Behind(rows, Hash(rows[i]))
                /\ CacheAfter(rows)[Hash(rows[i])] = Overrun(entry)
    BY <1>1, <2>1, SlotAfter, Zenon
  <2>3. PICK j \in 1..Len(rows) : /\ Hash(rows[j]) = Hash(rows[i])
                                  /\ entry = Cached(rows[j])
    BY <2>2, Zenon
  <2>4. rows[j] \in Port /\ table[rows[j]] # None
    BY <1>1
  <2>5. entry \in Entry /\ entry.port_id = rows[j]
    BY <2>3, <2>4, SlotFilled
  <2>6. CacheAfter(rows)[Hash(rows[i])].port_id = rows[j]
    BY <2>2, <2>5, OverrunEntry
  <2>7. shown[i] = rows[j]
    BY <2>6
  <2> QED
    BY <2>3, <2>7
<1>3. shown \in Seq(Port) /\ Len(shown) = Len(rows)
  <2>1. \A i \in 1..Len(rows) : shown[i] \in Port
    BY <1>1, <1>2
  <2>2. shown \in [1..Len(rows) -> Port]
    BY <2>1
  <2> QED
    BY <1>1, <2>2
<1> HIDE DEF shown
<1>4. page'.rows = rows /\ page'.shown = shown
  BY DEF shown
<1>5. page' \in [rows : Seq(Port), shown : Seq(Port)]
  BY <1>1, <1>3 DEF shown
<1>6. ASSUME \A i, j \in 1..Len(rows) : Hash(rows[i]) = Hash(rows[j]) => i = j
      PROVE  shown = rows
  <2>1. \A i \in 1..Len(rows) : shown[i] = rows[i]
    BY <1>2, <1>6
  <2> QED
    BY <1>1, <1>3, <2>1
<1>7. /\ Len(shown) = Len(rows)
      /\ \A i \in 1..Len(rows) : \E j \in 1..Len(rows) :
           /\ shown[i] = rows[j]
           /\ Hash(rows[i]) = Hash(rows[j])
      /\ (\A i, j \in 1..Len(rows) : Hash(rows[i]) = Hash(rows[j]) => i = j)
           => shown = rows
  BY <1>2, <1>3, <1>6
<1>8. RecentExceptCollisions'
  BY <1>4, <1>7, Zenon DEF RecentExceptCollisions, Hash
<1> QED
  BY <1>5, <1>8

-----------------------------------------------------------------------------
(* Actions. *)

\* The empty cache is coherent, whatever the table.
LEMMA CacheEmptied ==
  ASSUME cache' = EmptyCache
  PROVE  CacheCoherent' /\ cache' \in [Slot -> Entry]
  BY DEF CacheCoherent, EmptyCache, EmptyEntry, Entry

\* Reading rows into their slots keeps the cache coherent: a slot that is overrun
\* is behind that of a port with a full secret, which the history knows.
LEMMA RowsCached ==
  ASSUME TypeOK, StoredValid, FilledKnown, CacheCoherent,
         UNCHANGED <<table, filled>>,
         NEW rows \in Seq(Port),
         \A i \in 1..Len(rows) : table[rows[i]] # None,
         cache' = CacheAfter(rows)
  PROVE  CacheCoherent' /\ cache' \in [Slot -> Entry]
<1>1. ASSUME NEW s \in Slot
      PROVE  \E entry \in Entry :
               /\ entry.valid =>
                    LET p == entry.port_id
                    IN /\ p \in Port
                       /\ Valid(p)
                       /\ Hash(p) = s
                       /\ entry.clock \in Clock
                       /\ table[p] # None => Agrees(p, entry.clock, table[p].clock)
               /\ \/ cache'[s] = entry
                  \/ Behind(rows, s) /\ cache'[s] = Overrun(entry)
  <2>1. PICK entry :
          /\ \/ /\ \A i \in 1..Len(rows) : Hash(rows[i]) # s
                /\ entry = cache[s]
             \/ \E i \in 1..Len(rows) : /\ Hash(rows[i]) = s
                                        /\ entry = Cached(rows[i])
          /\ \/ CacheAfter(rows)[s] = entry
             \/ Behind(rows, s) /\ CacheAfter(rows)[s] = Overrun(entry)
    BY SlotAfter, Zenon
  <2>2. CASE entry = cache[s]
    BY <2>1, <2>2 DEF TypeOK, CacheCoherent
  <2>3. CASE \E i \in 1..Len(rows) : /\ Hash(rows[i]) = s
                                    /\ entry = Cached(rows[i])
    <3>1. PICK i \in 1..Len(rows) : Hash(rows[i]) = s /\ entry = Cached(rows[i])
      BY <2>3
    <3>2. rows[i] \in Port /\ table[rows[i]] # None
      OBVIOUS
    <3>3. /\ entry \in Entry /\ entry.port_id = rows[i]
          /\ entry.clock = table[rows[i]].clock
          /\ Valid(rows[i]) /\ table[rows[i]].clock \in Clock
      BY <3>1, <3>2, SlotFilled
    <3>4. Agrees(rows[i], entry.clock, table[rows[i]].clock)
      BY <3>3 DEF Agrees
    <3> QED
      BY <2>1, <3>1, <3>2, <3>3, <3>4
  <2> QED
    BY <2>1, <2>2, <2>3
<1>2. ASSUME NEW p \in Port, NEW s \in Slot, Behind(rows, s), Hash(p) = s
      PROVE  Exposed(p)
  <2>1. PICK j \in 1..Len(rows) : /\ Hash(rows[j]) + 1 = s
                                  /\ table[rows[j]].clock.full
    BY <1>2 DEF Behind
  <2>2. rows[j] \in Port /\ table[rows[j]] # None
    OBVIOUS
  <2>3. rows[j] \in filled
    BY <2>1, <2>2 DEF FilledKnown
  <2> QED
    BY <1>2, <2>1, <2>3 DEF Exposed
<1>3. ASSUME NEW s \in Slot
      PROVE  /\ cache'[s] \in Entry
             /\ cache'[s].valid =>
                  LET p == cache'[s].port_id
                  IN /\ p \in Port
                     /\ Valid(p)
                     /\ Hash(p) = s
                     /\ cache'[s].clock \in Clock
                     /\ table[p] # None => Agrees(p, cache'[s].clock, table[p].clock)
  <2>1. PICK entry \in Entry :
           /\ entry.valid =>
                LET p == entry.port_id
                IN /\ p \in Port
                   /\ Valid(p)
                   /\ Hash(p) = s
                   /\ entry.clock \in Clock
                   /\ table[p] # None => Agrees(p, entry.clock, table[p].clock)
           /\ \/ cache'[s] = entry
              \/ Behind(rows, s) /\ cache'[s] = Overrun(entry)
    BY <1>1, Zenon
  <2>2. CASE cache'[s] = entry
    BY <2>1, <2>2, Zenon
  <2>3. CASE Behind(rows, s) /\ cache'[s] = Overrun(entry)
    <3>1. /\ Overrun(entry) \in Entry
          /\ Overrun(entry).valid = entry.valid
          /\ Overrun(entry).port_id = entry.port_id
          /\ entry.clock # None => Overrun(entry).clock = Opened(entry.clock)
      BY OverrunEntry
    <3>2. SUFFICES ASSUME entry.valid
                   PROVE  LET p == entry.port_id
                          IN /\ p \in Port
                             /\ Valid(p)
                             /\ Hash(p) = s
                             /\ Overrun(entry).clock \in Clock
                             /\ table[p] # None =>
                                  Agrees(p, Overrun(entry).clock, table[p].clock)
      BY <2>3, <3>1, Zenon
    <3> DEFINE p == entry.port_id
    <3>3. /\ p \in Port /\ Valid(p) /\ Hash(p) = s /\ entry.clock \in Clock
          /\ table[p] # None => Agrees(p, entry.clock, table[p].clock)
      BY <2>1, <3>2, Zenon
    <3>4. entry.clock # None
      BY <3>3, NoneAssumption
    <3>5. Overrun(entry).clock = Opened(entry.clock)
      BY <3>1, <3>4
    <3>6. Opened(entry.clock) \in Clock
      BY <3>3, OpenedClock
    <3>7. ASSUME table[p] # None
          PROVE  Agrees(p, Opened(entry.clock), table[p].clock)
      <4>1. Exposed(p)
        BY <1>2, <2>3, <3>3
      <4>2. entry.clock = table[p].clock \/ entry.clock = Opened(table[p].clock)
        BY <3>3, <3>7 DEF Agrees
      <4>3. table[p].clock \in Clock
        BY <3>3, <3>7, RowClock
      <4>4. Opened(entry.clock) = Opened(table[p].clock)
        BY <4>2, <4>3, OpenedClock
      <4> QED
        BY <4>1, <4>4 DEF Agrees
    <3> QED
      BY <3>3, <3>5, <3>6, <3>7
  <2> QED
    BY <2>1, <2>2, <2>3
<1>4. cache' \in [Slot -> Entry]
  <2>1. cache' = [s \in Slot |-> cache'[s]]
    BY DEF CacheAfter
  <2> QED
    BY <1>3, <2>1
<1>5. CacheCoherent'
  BY <1>3, Zenon DEF CacheCoherent, Valid, Hash, Agrees, Exposed
<1> QED
  BY <1>4, <1>5

\* A row read on a miss.
LEMMA DbGetKeeps ==
  ASSUME IInv, NEW p \in Port, DbGet(p)
  PROVE  IInv'
<1> USE DEF DbGet
<1>1. /\ <<p>> \in Seq(Port)
      /\ \A i \in 1..Len(<<p>>) : table[<<p>>[i]] # None
  OBVIOUS
<1>2. CacheCoherent' /\ cache' \in [Slot -> Entry]
  BY <1>1, RowsCached DEF IInv
<1>3. TypeOK'
  BY <1>2 DEF IInv, TypeOK
<1>4. StoredValid' /\ FilledKnown' /\ PromiseStored'
  BY DEF IInv, StoredValid, FilledKnown, PromiseStored, Valid
<1> QED
  BY <1>2, <1>3, <1>4, ListKept DEF IInv

\* Invalidating the slot of a port keeps the cache coherent, even if the row of
\* that port comes into being.
LEMMA SlotInvalidated ==
  ASSUME TypeOK, CacheCoherent, NEW p \in Port, cache' = Invalidated(p),
         \A q \in Port \ {p} : table'[q] = table[q],
         filled \subseteq filled'
  PROVE  CacheCoherent' /\ cache' \in [Slot -> Entry]
<1>1. Hash(p) \in Slot
  BY HashSlot
<1>2. /\ cache' \in [Slot -> Entry]
      /\ ~cache'[Hash(p)].valid
      /\ \A s \in Slot : s # Hash(p) => cache'[s] = cache[s]
  BY <1>1 DEF TypeOK, Invalidated, Entry
<1>3. CacheCoherent'
  <2> SUFFICES ASSUME NEW s \in Slot, cache'[s].valid
               PROVE  LET q == cache'[s].port_id
                      IN /\ q \in Port
                         /\ Valid(q)
                         /\ Hash(q) = s
                         /\ cache'[s].clock \in Clock
                         /\ table'[q] # None =>
                              \/ cache'[s].clock = table'[q].clock
                              \/ /\ \E x \in filled' : Hash(x) + 1 = Hash(q)
                                 /\ cache'[s].clock = Opened(table'[q].clock)
    BY DEF CacheCoherent, Valid, Hash, Agrees, Exposed
  <2>1. s # Hash(p) /\ cache'[s] = cache[s]
    BY <1>2
  <2>2. cache[s].port_id # p
    BY <2>1 DEF CacheCoherent
  <2> QED
    BY <2>1, <2>2 DEF CacheCoherent, Agrees, Exposed, Hash
<1> QED
  BY <1>2, <1>3

\* What the creation of a row does to the table.
LEMMA RowCreated ==
  ASSUME TypeOK, StoredValid, FilledKnown, PromiseStored,
         NEW p \in Port, NEW clock \in Clock, Valid(p), table[p] = None,
         table' = [table EXCEPT ![p] = [clock |-> clock, created |-> now]],
         filled' = FilledBy(p, clock),
         UNCHANGED now,
         \/ UNCHANGED promised
         \/ promised' = [promised EXCEPT ![p] = [clock |-> clock, created |-> now]]
  PROVE  /\ table' \in [Port -> Row \cup {None}]
         /\ promised' \in [Port -> Row \cup {None}]
         /\ filled' \subseteq Port /\ filled \subseteq filled'
         /\ StoredValid' /\ FilledKnown' /\ PromiseStored'
<1> DEFINE row == [clock |-> clock, created |-> now]
<1>1. row \in Row /\ row.created = now
  BY DEF TypeOK, Row
<1>2. /\ table' \in [Port -> Row \cup {None}]
      /\ promised' \in [Port -> Row \cup {None}]
  BY <1>1 DEF TypeOK
<1>3. StoredValid'
  BY DEF StoredValid, TypeOK, Valid
<1>5. filled' \subseteq Port /\ filled \subseteq filled'
  BY DEF FilledBy, TypeOK
<1>6. FilledKnown'
  <2> SUFFICES ASSUME NEW q \in Port, table'[q] # None, table'[q].clock.full
               PROVE  q \in filled'
    BY DEF FilledKnown
  <2>1. CASE q # p
    BY <1>5, <2>1 DEF FilledKnown, TypeOK
  <2>2. CASE q = p
    <3>1. clock.full
      BY <2>2 DEF TypeOK
    <3> QED
      BY <2>2, <3>1 DEF FilledBy
  <2> QED
    BY <2>1, <2>2
<1>4. PromiseStored'
  <2> SUFFICES ASSUME NEW q \in Port, promised'[q] # None,
                      now <= promised'[q].created + Lifetime
               PROVE  table'[q] = promised'[q]
    BY DEF PromiseStored
  <2>1. CASE q # p
    BY <2>1 DEF PromiseStored, TypeOK
  <2>2. CASE q = p /\ UNCHANGED promised
    BY <2>2 DEF PromiseStored, TypeOK
  <2>3. CASE q = p /\ promised' = [promised EXCEPT ![p] = row]
    BY <2>3 DEF TypeOK
  <2> QED
    BY <2>1, <2>2, <2>3
<1> QED
  BY <1>2, <1>3, <1>4, <1>5, <1>6

\* A clock created, and its creator told.
LEMMA CreateClockKeeps ==
  ASSUME IInv, NEW p \in Port, NEW clock \in Clock, CreateClock(p, clock)
  PROVE  IInv'
<1> USE DEF CreateClock
<1>1. /\ table' \in [Port -> Row \cup {None}]
      /\ promised' \in [Port -> Row \cup {None}]
      /\ filled' \subseteq Port /\ filled \subseteq filled'
      /\ StoredValid' /\ FilledKnown' /\ PromiseStored'
  BY RowCreated DEF IInv
<1>2. CacheCoherent' /\ cache' \in [Slot -> Entry]
  <2>1. \A q \in Port \ {p} : table'[q] = table[q]
    BY DEF IInv, TypeOK
  <2> QED
    BY <1>1, <2>1, SlotInvalidated DEF IInv
<1>3. TypeOK'
  BY <1>1, <1>2 DEF IInv, TypeOK
<1> QED
  BY <1>1, <1>2, <1>3, ListKept DEF IInv

\* A clock that could not be created.
LEMMA CreateClockFailsKeeps ==
  ASSUME IInv, NEW p \in Port, CreateClockFails(p)
  PROVE  IInv'
<1> USE DEF CreateClockFails
<1>1. CacheCoherent' /\ cache' \in [Slot -> Entry]
  BY SlotInvalidated DEF IInv
<1>2. TypeOK'
  BY <1>1 DEF IInv, TypeOK
<1>3. StoredValid' /\ FilledKnown' /\ PromiseStored'
  BY DEF IInv, StoredValid, FilledKnown, PromiseStored, Valid
<1> QED
  BY <1>1, <1>2, <1>3, ListKept DEF IInv

\* The list of recent clocks.
LEMMA GetClocksKeeps ==
  ASSUME IInv, NEW n \in 1..PageSize, GetClocks(n)
  PROVE  IInv'
<1> USE DEF GetClocks
<1>1. n \in Nat
  BY SizeAssumption
<1>2. PICK rows \in RecentRows(n) :
        /\ cache' = CacheAfter(rows)
        /\ page' = [rows |-> rows,
                    shown |-> [i \in 1..Len(rows) |->
                                 cache'[Hash(rows[i])].port_id]]
  OBVIOUS
<1>3. /\ rows \in Seq(Port)
      /\ \A i \in 1..Len(rows) : table[rows[i]] # None
  BY <1>1, FoundRows
<1>4. CacheCoherent' /\ cache' \in [Slot -> Entry]
  BY <1>2, <1>3, RowsCached DEF IInv
<1>5. /\ RecentExceptCollisions'
      /\ page' \in [rows : Seq(Port), shown : Seq(Port)]
  BY <1>1, <1>2, ListShown DEF IInv
<1>6. TypeOK'
  BY <1>4, <1>5 DEF IInv, TypeOK
<1>7. StoredValid' /\ FilledKnown' /\ PromiseStored'
  BY DEF IInv, StoredValid, FilledKnown, PromiseStored, Valid
<1> QED
  BY <1>4, <1>5, <1>6, <1>7 DEF IInv

\* The list of recent clocks, given up after some rows.
LEMMA GetClocksFailsKeeps ==
  ASSUME IInv, NEW n \in 1..PageSize, GetClocksFails(n)
  PROVE  IInv'
<1> USE DEF GetClocksFails
<1>1. n \in Nat
  BY SizeAssumption
<1>2. PICK rows \in RecentRows(n) : \E k \in 0..Len(rows) :
        cache' = CacheAfter(SubSeq(rows, 1, k))
  OBVIOUS
<1>3. PICK k \in 0..Len(rows) : cache' = CacheAfter(SubSeq(rows, 1, k))
  BY <1>2
<1> DEFINE read == SubSeq(rows, 1, k)
<1>4. /\ rows \in Seq(Port)
      /\ \A i \in 1..Len(rows) : table[rows[i]] # None
  BY <1>1, FoundRows
<1>5. /\ read \in Seq(Port)
      /\ \A i \in 1..Len(read) : table[read[i]] # None
  BY <1>4
<1> HIDE DEF read
<1>6. CacheCoherent' /\ cache' \in [Slot -> Entry]
  <2>1. cache' = CacheAfter(read)
    BY <1>3 DEF read
  <2> QED
    BY <1>5, <2>1, RowsCached DEF IInv
<1>7. TypeOK'
  BY <1>6 DEF IInv, TypeOK
<1>8. StoredValid' /\ FilledKnown' /\ PromiseStored'
  BY DEF IInv, StoredValid, FilledKnown, PromiseStored, Valid
<1> QED
  BY <1>6, <1>7, <1>8, ListKept DEF IInv

\* The server's start.
LEMMA DbSetupKeeps ==
  ASSUME IInv, DbSetup
  PROVE  IInv'
<1> USE DEF DbSetup
<1>1. CacheCoherent' /\ cache' \in [Slot -> Entry]
  BY CacheEmptied
<1>2. TypeOK'
  BY <1>1 DEF IInv, TypeOK
<1>3. StoredValid' /\ FilledKnown' /\ PromiseStored'
  BY DEF IInv, StoredValid, FilledKnown, PromiseStored, Valid
<1> QED
  BY <1>1, <1>2, <1>3, ListKept DEF IInv

\* A round of the cleanup task takes rows away, and only expired ones.
LEMMA RowsDeleted ==
  ASSUME IInv, table' = AfterCleanup,
         UNCHANGED <<now, cache, page, promised, filled>>
  PROVE  /\ table' \in [Port -> Row \cup {None}]
         /\ StoredValid' /\ FilledKnown' /\ CacheCoherent' /\ PromiseStored'
<1>1. ASSUME NEW p \in Port
      PROVE  table'[p] = table[p] \/ (table'[p] = None /\ Expired(p))
  BY DEF AfterCleanup
<1>2. table' \in [Port -> Row \cup {None}]
  BY <1>1 DEF AfterCleanup, IInv, TypeOK
<1>3. StoredValid' /\ FilledKnown'
  BY <1>1 DEF IInv, StoredValid, FilledKnown, Valid
<1>4. CacheCoherent'
  BY <1>1 DEF IInv, CacheCoherent, Valid, Hash, Agrees, Exposed
<1>5. PromiseStored'
  <2> SUFFICES ASSUME NEW p \in Port, promised[p] # None,
                      now <= promised[p].created + Lifetime
               PROVE  table'[p] = promised[p]
    BY DEF PromiseStored
  <2>1. table[p] = promised[p]
    BY DEF IInv, PromiseStored
  <2>2. promised[p].created \in Int /\ now \in Int /\ Lifetime \in Int
    BY SizeAssumption DEF IInv, TypeOK, Row
  <2>3. ~Expired(p)
    BY <2>1, <2>2 DEF Expired
  <2> QED
    BY <1>1, <2>1, <2>3
<1> QED
  BY <1>2, <1>3, <1>4, <1>5

LEMMA CleanupKeeps ==
  ASSUME IInv, CleanupStarts \/ Cleanup
  PROVE  IInv'
<1>1. table' = AfterCleanup \/ UNCHANGED table
  BY DEF CleanupStarts, Cleanup
<1>2. UNCHANGED <<now, cache, page, promised, filled, up, schema>>
  BY DEF CleanupStarts, Cleanup
<1>3. /\ table' \in [Port -> Row \cup {None}]
      /\ StoredValid' /\ FilledKnown' /\ CacheCoherent' /\ PromiseStored'
  <2>1. CASE table' = AfterCleanup
    BY <1>2, <2>1, RowsDeleted
  <2>2. CASE UNCHANGED table
    BY <1>2, <2>2 DEF IInv, TypeOK, StoredValid, FilledKnown, CacheCoherent,
                      PromiseStored, Valid, Hash, Agrees, Exposed
  <2> QED
    BY <1>1, <2>1, <2>2
<1>4. TypeOK'
  BY <1>2, <1>3 DEF IInv, TypeOK, CleanupStarts, Cleanup
<1> QED
  BY <1>2, <1>3, <1>4, ListKept DEF IInv

\* The list of recent clocks before there is one.
LEMMA EmptyList ==
  [rows |-> <<>>, shown |-> <<>>] \in [rows : Seq(Port), shown : Seq(Port)]
<1>1. << >> \in Seq(Port)
  OBVIOUS
<1> QED
  BY <1>1, Zenon

\* The container starts again: the cache and the list are empty.
LEMMA ContainerRestarted ==
  ASSUME IInv, ContainerStarts
  PROVE  /\ CacheCoherent' /\ cache' \in [Slot -> Entry]
         /\ RecentExceptCollisions'
         /\ now' \in 0..MaxTime
         /\ schema' \in BOOLEAN
         /\ owner' \in {None, "root", "service"}
         /\ up' \in BOOLEAN
         /\ cleaner' \in {"starting", "running", "ended"}
         /\ page' \in [rows : Seq(Port), shown : Seq(Port)]
<1> USE DEF ContainerStarts
<1>1. CacheCoherent' /\ cache' \in [Slot -> Entry]
  BY CacheEmptied
<1>2. page' = [rows |-> <<>>, shown |-> <<>>]
  BY DEF NoPage
<1>3. RecentExceptCollisions'
  BY <1>2 DEF RecentExceptCollisions
<1>4. page' \in [rows : Seq(Port), shown : Seq(Port)]
  BY <1>2, EmptyList
<1>5. owner' \in {None, "root", "service"}
  BY Zenon
<1>6. now' \in 0..MaxTime /\ schema' \in BOOLEAN
  BY DEF IInv, TypeOK
<1> QED
  BY <1>1, <1>3, <1>4, <1>5, <1>6

LEMMA RestartKeeps ==
  ASSUME IInv, Restart \/ DbSetupFails
  PROVE  IInv'
<1>1. ContainerStarts /\ UNCHANGED <<table, promised, filled>>
  BY DEF Restart, DbSetupFails
<1>2. UNCHANGED now
  BY <1>1 DEF ContainerStarts
<1>3. StoredValid' /\ FilledKnown' /\ PromiseStored'
  BY <1>1, <1>2 DEF IInv, StoredValid, FilledKnown, PromiseStored, Valid
<1>4. TypeOK'
  BY <1>1, ContainerRestarted DEF IInv, TypeOK
<1> QED
  BY <1>1, <1>3, <1>4, ContainerRestarted DEF IInv

\* A crash between the row and the answer.
LEMMA CrashAfterInsertKeeps ==
  ASSUME IInv, NEW p \in Port, NEW clock \in Clock, CrashAfterInsert(p, clock)
  PROVE  IInv'
<1> USE DEF CrashAfterInsert
<1>1. UNCHANGED now
  BY DEF ContainerStarts
<1>2. /\ table' \in [Port -> Row \cup {None}]
      /\ promised' \in [Port -> Row \cup {None}]
      /\ filled' \subseteq Port
      /\ StoredValid' /\ FilledKnown' /\ PromiseStored'
  BY <1>1, RowCreated DEF IInv
<1>3. TypeOK'
  BY <1>2, ContainerRestarted DEF TypeOK
<1> QED
  BY <1>2, <1>3, ContainerRestarted DEF IInv

\* Time passes: promises may lapse.
LEMMA TickKeeps ==
  ASSUME IInv, Tick
  PROVE  IInv'
<1> USE DEF Tick
<1>1. TypeOK'
  BY SizeAssumption DEF IInv, TypeOK
<1>2. StoredValid' /\ FilledKnown' /\ CacheCoherent'
  BY DEF IInv, StoredValid, FilledKnown, CacheCoherent, Valid, Hash, Agrees, Exposed
<1>3. PromiseStored'
  <2> SUFFICES ASSUME NEW p \in Port, promised[p] # None,
                      now' <= promised[p].created + Lifetime
               PROVE  table[p] = promised[p]
    BY DEF PromiseStored
  <2>1. promised[p].created \in Int /\ now \in Int /\ Lifetime \in Int
    BY SizeAssumption DEF IInv, TypeOK, Row
  <2>2. now <= promised[p].created + Lifetime
    BY <2>1
  <2> QED
    BY <2>2 DEF IInv, PromiseStored
<1> QED
  BY <1>1, <1>2, <1>3, ListKept DEF IInv

-----------------------------------------------------------------------------
(* The theorems. *)

LEMMA InitInvariant == Init => IInv
<1> SUFFICES ASSUME Init PROVE IInv
  OBVIOUS
<1> USE DEF Init
<1>1. TypeOK
  <2>1. page \in [rows : Seq(Port), shown : Seq(Port)]
    BY EmptyList DEF NoPage
  <2>2. cache \in [Slot -> Entry]
    BY DEF EmptyCache, EmptyEntry, Entry
  <2>3. /\ table \in [Port -> Row \cup {None}]
        /\ promised \in [Port -> Row \cup {None}]
    BY Zenon
  <2>4. now \in 0..MaxTime
    BY SizeAssumption
  <2>5. owner \in {None, "root", "service"}
    BY Zenon
  <2> QED
    BY <2>1, <2>2, <2>3, <2>4, <2>5 DEF TypeOK
<1>2. StoredValid /\ FilledKnown /\ PromiseStored
  BY DEF StoredValid, FilledKnown, PromiseStored
<1>3. CacheCoherent
  BY DEF CacheCoherent, EmptyCache, EmptyEntry
<1>4. RecentExceptCollisions
  BY DEF RecentExceptCollisions, NoPage
<1> QED
  BY <1>1, <1>2, <1>3, <1>4 DEF IInv

LEMMA NextInvariant == IInv /\ [Next]_vars => IInv'
<1> SUFFICES ASSUME IInv, [Next]_vars PROVE IInv'
  OBVIOUS
<1>1. CASE DbSetup
  BY <1>1, DbSetupKeeps
<1>2. ASSUME NEW p \in Port, DbGet(p) PROVE IInv'
  BY <1>2, DbGetKeeps
<1>3. ASSUME NEW p \in Port, NEW clock \in Clock, CreateClock(p, clock)
      PROVE  IInv'
  BY <1>3, CreateClockKeeps
<1>4. ASSUME NEW p \in Port, NEW clock \in Clock, CrashAfterInsert(p, clock)
      PROVE  IInv'
  BY <1>4, CrashAfterInsertKeeps
<1>5. ASSUME NEW p \in Port, CreateClockFails(p) PROVE IInv'
  BY <1>5, CreateClockFailsKeeps
<1>6. ASSUME NEW n \in 1..PageSize, GetClocks(n) PROVE IInv'
  BY <1>6, GetClocksKeeps
<1>7. ASSUME NEW n \in 1..PageSize, GetClocksFails(n) PROVE IInv'
  BY <1>7, GetClocksFailsKeeps
<1>8. CASE CleanupStarts \/ Cleanup
  BY <1>8, CleanupKeeps
<1>9. CASE DbSetupFails \/ Restart
  BY <1>9, RestartKeeps
<1>10. CASE Tick
  BY <1>10, TickKeeps
<1>11. CASE UNCHANGED vars
  BY <1>11, ListKept DEF vars, IInv, TypeOK, StoredValid, FilledKnown,
                         CacheCoherent, PromiseStored, Valid, Hash, Agrees, Exposed
<1> QED
  BY <1>1, <1>2, <1>3, <1>4, <1>5, <1>6, <1>7, <1>8, <1>9, <1>10, <1>11, NewClockAssumption
  DEF Next, Server

THEOREM Invariant == Spec => []IInv
<1>1. Init => IInv
  BY InitInvariant
<1>2. IInv /\ [Next]_vars => IInv'
  BY NextInvariant
<1> QED
  BY <1>1, <1>2, PTL DEF Spec

\* Every variable of the store has its type.
THEOREM TypeCorrect == Spec => []TypeOK
<1>1. IInv => TypeOK
  BY DEF IInv
<1> QED
  BY <1>1, Invariant, PTL

\* A valid slot of the cache never contradicts the row it stands for, unless in
\* the policy of a clock behind a full secret.
THEOREM CacheCoherentHolds == Spec => []CacheCoherent
<1>1. IInv => CacheCoherent
  BY DEF IInv
<1> QED
  BY <1>1, Invariant, PTL

\* The list of recent clocks shows the rows found, except for rows that share
\* a slot.
THEOREM RecentExceptCollisionsHolds == Spec => []RecentExceptCollisions
<1>1. IInv => RecentExceptCollisions
  BY DEF IInv
<1> QED
  BY <1>1, Invariant, PTL

\* What is stored is what is read, but for the policy of exposed clocks.
LEMMA StoredIsRead ==
  ASSUME TypeOK, CacheCoherent, NEW p \in Port, table[p] # None
  PROVE  Agrees(p, View(p), table[p].clock)
  BY HashSlot DEF View, Hit, CacheCoherent, Agrees

\* An acknowledged clock is stored and read until it expires; only the policy of
\* exposed clocks may be lost to readers.
THEOREM PromiseKeptHolds == Spec => []PromiseKept
<1>1. IInv => PromiseKept
  BY StoredIsRead DEF IInv, PromiseKept, PromiseStored
<1> QED
  BY <1>1, Invariant, PTL

\* Rows are never altered, and removed only when they have expired.
THEOREM RowsOnlyExpireHolds == Spec => RowsOnlyExpire
<1> DEFINE Kept == \A p \in Port : table[p] # None =>
                     table'[p] = table[p] \/ (table'[p] = None /\ Expired(p))
<1>1. IInv /\ [Next]_vars => Kept
  <2> SUFFICES ASSUME IInv, [Next]_vars, NEW p \in Port, table[p] # None
               PROVE  table'[p] = table[p] \/ (table'[p] = None /\ Expired(p))
    OBVIOUS
  <2>1. CASE table' = AfterCleanup
    BY <2>1 DEF AfterCleanup
  <2>2. CASE UNCHANGED table
    BY <2>2
  <2>3. ASSUME NEW q \in Port, NEW clock \in Clock, table[q] = None,
               table' = [table EXCEPT ![q] = [clock |-> clock, created |-> now]]
        PROVE  table'[p] = table[p]
    BY <2>3 DEF IInv, TypeOK
  <2> QED
    BY <2>1, <2>2, <2>3, NewClockAssumption
    DEF Next, Server, vars, DbSetup, DbGet, CreateClock, CreateClockFails,
        CrashAfterInsert, GetClocks, GetClocksFails, CleanupStarts, Cleanup,
        DbSetupFails, Restart, Tick
<1>2. IInv /\ [Next]_vars => [Kept]_vars
  BY <1>1
<1> HIDE DEF Kept
<1>3. Spec => [][Kept]_vars
  BY <1>2, Invariant, PTL DEF Spec
<1> QED
  BY <1>3 DEF RowsOnlyExpire, Kept

-----------------------------------------------------------------------------
(* The refinement of ClockTable. *)

\* What the database has of q.
StoredOf(q) == IF table[q] = None THEN None ELSE table[q].clock

\* What a step does to the slot of q, as seen by readers of q.
SlotHarmless(q) ==
  \/ cache'[Hash(q)] = cache[Hash(q)]
  \/ ~cache'[Hash(q)].valid
  \/ cache'[Hash(q)].port_id # q
  \/ table[q] # None /\ table'[q] = table[q] /\ UNCHANGED filled
  \/ Exposed(q) /\ cache'[Hash(q)] = Overrun(cache[Hash(q)])

\* What a step that does not create q does to what is read of q.
ViewStep(q) ==
  \/ View(q)' = View(q)
  \/ View(q)' = StoredOf(q)'
  \/ Exposed(q) /\ View(q) # None /\ View(q)' = Opened(View(q))

\* What is read is a clock or nothing.
LEMMA ViewType ==
  ASSUME IInv, NEW q \in Port
  PROVE  View(q) \in Clock \cup {None}
<1>1. CASE table[q] # None
  BY <1>1, StoredIsRead, RowClock, OpenedClock DEF IInv, Agrees
<1>2. CASE table[q] = None
  BY <1>2, HashSlot DEF View, Hit, IInv, CacheCoherent
<1> QED
  BY <1>1, <1>2

\* A step that does not create q leaves what is read of it, returns to the
\* database, or takes the policy of an exposed clock.
LEMMA ViewKept ==
  ASSUME IInv, IInv', NEW q \in Port, SlotHarmless(q)
  PROVE  ViewStep(q)
<1>1. Hash(q) \in Slot
  BY HashSlot
<1>2. CASE ~Hit(q)'
  BY <1>2 DEF View, StoredOf, ViewStep
<1>3. CASE Hit(q)'
  <2>1. /\ cache'[Hash(q)].port_id = q /\ cache'[Hash(q)].valid
        /\ View(q)' = cache'[Hash(q)].clock
    BY <1>3 DEF Hit, View, Hash
  <2>2. CASE cache'[Hash(q)] = cache[Hash(q)]
    BY <2>1, <2>2 DEF ViewStep, View, Hit
  <2>3. CASE table[q] # None /\ table'[q] = table[q] /\ UNCHANGED filled
    <3>1. View(q)' = table[q].clock \/ (Exposed(q) /\ View(q)' = Opened(table[q].clock))
      BY <1>1, <2>1, <2>3 DEF IInv, CacheCoherent, Agrees, Exposed, Hash
    <3>2. View(q) = table[q].clock \/ View(q) = Opened(table[q].clock)
      BY <2>3, StoredIsRead DEF IInv, Agrees
    <3>3. table[q].clock \in Clock
      BY <2>3, RowClock DEF IInv
    <3>4. Opened(View(q)) = Opened(table[q].clock) /\ View(q) # None
      BY <3>2, <3>3, OpenedClock, NoneAssumption
    <3>5. StoredOf(q)' = table[q].clock
      BY <2>3 DEF StoredOf
    <3> QED
      BY <3>1, <3>4, <3>5 DEF ViewStep
  <2>4. CASE Exposed(q) /\ cache'[Hash(q)] = Overrun(cache[Hash(q)])
    <3>1. cache[Hash(q)] \in Entry
      BY <1>1 DEF IInv, TypeOK
    <3>2. cache[Hash(q)].port_id = q /\ cache[Hash(q)].valid
      BY <2>1, <2>4, <3>1, OverrunEntry
    <3>3. cache[Hash(q)].clock \in Clock
      BY <1>1, <3>2 DEF IInv, CacheCoherent
    <3>4. cache[Hash(q)].clock # None /\ View(q) = cache[Hash(q)].clock
      BY <3>2, <3>3, NoneAssumption DEF View, Hit
    <3>5. View(q)' = Opened(View(q))
      BY <2>1, <2>4, <3>1, <3>4, OverrunEntry
    <3> QED
      BY <2>4, <3>4, <3>5 DEF ViewStep
  <2> QED
    BY <2>1, <2>2, <2>3, <2>4 DEF SlotHarmless
<1> QED
  BY <1>2, <1>3

LEMMA RowsHarmless ==
  ASSUME IInv, UNCHANGED <<table, filled>>, NEW rows \in Seq(Port),
         \A i \in 1..Len(rows) : table[rows[i]] # None,
         cache' = CacheAfter(rows)
  PROVE  \A q \in Port : SlotHarmless(q)
<1> SUFFICES ASSUME NEW q \in Port
             PROVE  SlotHarmless(q)
  OBVIOUS
<1>1. Hash(q) \in Slot
  BY HashSlot
<1>2. PICK entry :
        /\ \/ /\ \A i \in 1..Len(rows) : Hash(rows[i]) # Hash(q)
              /\ entry = cache[Hash(q)]
           \/ \E i \in 1..Len(rows) : /\ Hash(rows[i]) = Hash(q)
                                      /\ entry = Cached(rows[i])
        /\ \/ CacheAfter(rows)[Hash(q)] = entry
           \/ /\ Behind(rows, Hash(q))
              /\ CacheAfter(rows)[Hash(q)] = Overrun(entry)
  BY <1>1, SlotAfter, Zenon
<1>3. CASE \E i \in 1..Len(rows) : /\ Hash(rows[i]) = Hash(q)
                                  /\ entry = Cached(rows[i])
  <2>1. PICK i \in 1..Len(rows) : entry = Cached(rows[i])
    BY <1>3
  <2>2. rows[i] \in Port /\ table[rows[i]] # None
    OBVIOUS
  <2>3. entry \in Entry /\ entry.port_id = rows[i]
    BY <2>1, <2>2, SlotFilled DEF IInv
  <2>4. cache'[Hash(q)].port_id = rows[i]
    BY <1>2, <2>3, OverrunEntry
  <2> QED
    BY <2>2, <2>4 DEF SlotHarmless
<1>4. CASE entry = cache[Hash(q)] /\ cache'[Hash(q)] = entry
  BY <1>4 DEF SlotHarmless
<1>5. CASE /\ entry = cache[Hash(q)]
           /\ Behind(rows, Hash(q)) /\ cache'[Hash(q)] = Overrun(entry)
  <2>1. PICK j \in 1..Len(rows) : /\ Hash(rows[j]) + 1 = Hash(q)
                                  /\ table[rows[j]].clock.full
    BY <1>5 DEF Behind
  <2>2. rows[j] \in Port /\ table[rows[j]] # None
    OBVIOUS
  <2>3. Exposed(q)
    BY <2>1, <2>2 DEF IInv, FilledKnown, Exposed
  <2> QED
    BY <1>5, <2>3 DEF SlotHarmless
<1> QED
  BY <1>2, <1>3, <1>4, <1>5

\* The slots after any step.
LEMMA StepHarmless ==
  ASSUME IInv, [Next]_vars
  PROVE  \A q \in Port : SlotHarmless(q)
<1> SUFFICES ASSUME NEW q \in Port
             PROVE  SlotHarmless(q)
  OBVIOUS
<1>1. Hash(q) \in Slot
  BY HashSlot
<1>2. CASE UNCHANGED cache
  BY <1>2 DEF SlotHarmless
<1>3. CASE cache' = EmptyCache
  BY <1>1, <1>3 DEF SlotHarmless, EmptyCache, EmptyEntry
<1>4. ASSUME NEW p \in Port, cache' = Invalidated(p)
      PROVE  SlotHarmless(q)
  BY <1>1, <1>4, HashSlot DEF SlotHarmless, Invalidated, IInv, TypeOK, Entry
<1>5. ASSUME NEW p \in Port, DbGet(p)
      PROVE  SlotHarmless(q)
  <2>1. /\ <<p>> \in Seq(Port)
        /\ \A i \in 1..Len(<<p>>) : table[<<p>>[i]] # None
        /\ cache' = CacheAfter(<<p>>)
        /\ UNCHANGED <<table, filled>>
    BY <1>5 DEF DbGet
  <2> QED
    BY <2>1, RowsHarmless
<1>6. ASSUME NEW n \in 1..PageSize, GetClocks(n)
      PROVE  SlotHarmless(q)
  <2>1. PICK rows \in RecentRows(n) : cache' = CacheAfter(rows)
    BY <1>6 DEF GetClocks
  <2>2. n \in Nat /\ UNCHANGED <<table, filled>>
    BY <1>6, SizeAssumption DEF GetClocks
  <2> QED
    BY <2>1, <2>2, FoundRows, RowsHarmless
<1>7. ASSUME NEW n \in 1..PageSize, GetClocksFails(n)
      PROVE  SlotHarmless(q)
  <2>1. PICK rows \in RecentRows(n) : \E k \in 0..Len(rows) :
          cache' = CacheAfter(SubSeq(rows, 1, k))
    BY <1>7 DEF GetClocksFails
  <2>2. PICK k \in 0..Len(rows) : cache' = CacheAfter(SubSeq(rows, 1, k))
    BY <2>1
  <2>3. n \in Nat /\ UNCHANGED <<table, filled>>
    BY <1>7, SizeAssumption DEF GetClocksFails
  <2> DEFINE read == SubSeq(rows, 1, k)
  <2>4. /\ rows \in Seq(Port)
        /\ \A i \in 1..Len(rows) : table[rows[i]] # None
    BY <2>3, FoundRows
  <2>5. /\ read \in Seq(Port)
        /\ \A i \in 1..Len(read) : table[read[i]] # None
    BY <2>4
  <2>6. cache' = CacheAfter(read)
    BY <2>2
  <2> HIDE DEF read
  <2> QED
    BY <2>3, <2>5, <2>6, RowsHarmless
<1> QED
  BY <1>2, <1>3, <1>4, <1>5, <1>6, <1>7
  DEF Next, Server, vars, DbSetup, CreateClock, CreateClockFails,
      CrashAfterInsert, ContainerStarts, CleanupStarts, Cleanup,
      DbSetupFails, Restart, Tick

\* A clock that was just created is read as it was created: its slot is not
\* valid.
LEMMA CreatedIsRead ==
  ASSUME IInv, NEW p \in Port, NEW clock \in Clock,
         cache' = Invalidated(p) \/ cache' = EmptyCache,
         table'[p] = [clock |-> clock, created |-> now], table'[p] # None
  PROVE  View(p)' = clock
<1>1. Hash(p) \in Slot
  BY HashSlot
<1>2. ~cache'[Hash(p)].valid
  BY <1>1 DEF Invalidated, EmptyCache, EmptyEntry, IInv, TypeOK, Entry
<1> QED
  BY <1>2 DEF View, Hit, Hash

\* What readers see, and the exposed clocks, as ClockTable names them.
Seen == [p \in Port |-> View(p)]
ExposedPorts == {p \in Port : Exposed(p)}

\* What ClockTable allows of a step, for the clocks that it does not create.
LEMMA ReadersMay ==
  ASSUME IInv, TypeOK', NEW q \in Port, ViewStep(q)
  PROVE  /\ Seen'[q] \in Clock \cup {None}
         /\ Readers!MayChange(q)
<1>1. View(q) \in Clock \cup {None}
  BY ViewType
<1>2. StoredOf(q)' \in Clock \cup {None}
  BY DEF StoredOf, TypeOK, Row
<1>3. View(q) # None => Opened(View(q)) \in Clock
  BY <1>1, OpenedClock
<1>4. View(q)' \in Clock \cup {None}
  BY <1>1, <1>2, <1>3 DEF ViewStep
<1>5. /\ Seen[q] = View(q) /\ Seen'[q] = View(q)'
      /\ StoredClocks'[q] = StoredOf(q)'
      /\ Exposed(q) => q \in ExposedPorts
  BY DEF Seen, StoredClocks, StoredOf, ExposedPorts
<1>6. \/ Seen'[q] \in {Seen[q], StoredClocks'[q]}
      \/ /\ q \in ExposedPorts
         /\ Seen[q] # None
         /\ Seen'[q] = [Seen[q] EXCEPT !.policy = Unsecured]
  BY <1>5 DEF ViewStep, Opened
<1> QED
  BY <1>4, <1>5, <1>6 DEF Readers!MayChange, Seen, ExposedPorts

\* The mapped variables have their types.
LEMMA ReadersType ==
  ASSUME TypeOK', \A q \in Port : Seen'[q] \in Clock \cup {None}
  PROVE  Readers!TypeOK'
<1>1. StoredClocks' \in [Port -> Clock \cup {None}]
  BY DEF StoredClocks, TypeOK, Row
<1>2. Seen' \in [Port -> Clock \cup {None}]
  BY DEF Seen
<1>3. ExposedPorts' \subseteq Port
  BY DEF ExposedPorts
<1> QED
  BY <1>1, <1>2, <1>3 DEF Readers!TypeOK, Seen, ExposedPorts

\* Rows go, or nothing happens to the table: Delete of ClockTable.
LEMMA ReadersDelete ==
  ASSUME IInv, IInv', \A q \in Port : SlotHarmless(q), UNCHANGED filled,
         \A q \in Port : table'[q] = table[q] \/ table'[q] = None
  PROVE  Readers!Next
<1>1. \A q \in Port : StoredClocks'[q] \in {StoredClocks[q], None}
  BY DEF StoredClocks
<1>2. \A q \in Port : Seen'[q] \in Clock \cup {None} /\ Readers!MayChange(q)
  BY ViewKept, ReadersMay DEF IInv
<1>3. UNCHANGED ExposedPorts
  BY DEF ExposedPorts, Exposed, Hash
<1>4. Readers!Delete
  BY <1>1, <1>2, <1>3 DEF Readers!Delete, ExposedPorts
<1>5. Readers!TypeOK'
  BY <1>2, ReadersType DEF IInv
<1> QED
  BY <1>4, <1>5 DEF Readers!Next

\* A row comes into being: Create of ClockTable.
LEMMA ReadersCreate ==
  ASSUME IInv, IInv', \A q \in Port : SlotHarmless(q),
         NEW p \in Port, NEW clock \in Clock, table[p] = None,
         table' = [table EXCEPT ![p] = [clock |-> clock, created |-> now]],
         filled \subseteq filled', cache' = Invalidated(p) \/ cache' = EmptyCache
  PROVE  Readers!Next
<1> DEFINE row == [clock |-> clock, created |-> now]
<1>1. /\ table'[p] = row /\ row # None
      /\ \A q \in Port \ {p} : table'[q] = table[q]
  <2>1. row \in Row
    BY DEF IInv, TypeOK, Row
  <2>2. row # None
    BY <2>1, NoneAssumption, Zenon
  <2> QED
    BY <2>2 DEF IInv, TypeOK
<1>2. StoredClocks' = [StoredClocks EXCEPT ![p] = clock]
  <2>1. table'[p] # None /\ table'[p].clock = clock
    BY <1>1
  <2>2. \A q \in Port : StoredClocks'[q] = IF q = p THEN clock
                                            ELSE StoredClocks[q]
    BY <1>1, <2>1 DEF StoredClocks
  <2> QED
    BY <2>2 DEF StoredClocks
<1>3. StoredClocks'[p] = clock /\ StoredClocks[p] = None
  BY <1>2 DEF StoredClocks
<1>4. View(p)' = clock
  BY <1>1, CreatedIsRead
<1>5. Seen'[p] = clock
  BY <1>4 DEF Seen
<1>6. \A q \in Port \ {p} : Seen'[q] \in Clock \cup {None} /\ Readers!MayChange(q)
  BY ViewKept, ReadersMay DEF IInv
<1>7. ExposedPorts \subseteq ExposedPorts'
  BY DEF ExposedPorts, Exposed, Hash
<1>8. Readers!Create(p)
  BY <1>2, <1>3, <1>5, <1>6, <1>7 DEF Readers!Create, Seen, ExposedPorts
<1>9. Readers!TypeOK'
  BY <1>5, <1>6, ReadersType DEF IInv
<1> QED
  BY <1>8, <1>9 DEF Readers!Next

LEMMA ReadersInit == Init => Readers!Init
<1> SUFFICES ASSUME Init PROVE Readers!Init
  OBVIOUS
<1>1. StoredClocks = [p \in Port |-> None]
  BY DEF Init, StoredClocks
<1>2. [p \in Port |-> View(p)] = [p \in Port |-> None]
  BY HashSlot DEF Init, View, Hit, EmptyCache, EmptyEntry
<1>3. {p \in Port : Exposed(p)} = {}
  BY DEF Init, Exposed
<1> QED
  BY <1>1, <1>2, <1>3 DEF Readers!Init

LEMMA ReadersStep == IInv /\ IInv' /\ [Next]_vars => Readers!Next
<1> SUFFICES ASSUME IInv, IInv', [Next]_vars PROVE Readers!Next
  OBVIOUS
<1>1. \A q \in Port : SlotHarmless(q)
  BY StepHarmless
<1>2. CASE (table' = AfterCleanup \/ UNCHANGED table) /\ UNCHANGED filled
  <2>1. \A q \in Port : table'[q] = table[q] \/ table'[q] = None
    BY <1>2 DEF AfterCleanup
  <2> QED
    BY <1>1, <1>2, <2>1, ReadersDelete
<1>3. ASSUME NEW q \in Port, NEW clock \in NewClock,
             CreateClock(q, clock) \/ CrashAfterInsert(q, clock)
      PROVE  Readers!Next
  <2>1. /\ clock \in Clock /\ table[q] = None
        /\ table' = [table EXCEPT ![q] = [clock |-> clock, created |-> now]]
        /\ filled' = FilledBy(q, clock)
        /\ cache' = Invalidated(q) \/ cache' = EmptyCache
    BY <1>3, NewClockAssumption DEF CreateClock, CrashAfterInsert, ContainerStarts
  <2>2. filled \subseteq filled'
    BY <2>1 DEF FilledBy
  <2> QED
    BY <1>1, <2>1, <2>2, ReadersCreate
<1> QED
  BY <1>2, <1>3
  DEF Next, Server, vars, DbSetup, DbGet, CreateClockFails, GetClocks,
      GetClocksFails, CleanupStarts, Cleanup, DbSetupFails, Restart, Tick

\* The store with its cache is the ClockTable: stored clocks are read as they
\* are stored, or without the policy if they are exposed, and what has gone does
\* not come back by itself.
THEOREM ImplementsClockTable == Spec => IsClockTable
<1>1. Init => Readers!Init
  BY ReadersInit
<1>2. IInv /\ IInv' /\ [Next]_vars => Readers!Next
  BY ReadersStep
<1> QED
  BY <1>1, <1>2, Invariant, PTL DEF Spec, IsClockTable, Readers!Spec

-----------------------------------------------------------------------------
(* PortTime is ClockStore with other variables beside it, so that what is     *)
(* proved of the store holds there, and clocks are exact.                      *)

-----------------------------------------------------------------------------
(* Arithmetic modulo Modulus. *)

\* A remainder is the only number of its range that differs by a multiple.
LEMMA SameRemainder ==
  ASSUME NEW m \in Nat \ {0}, NEW x \in 0..(m - 1), NEW y \in 0..(m - 1),
         NEW k \in Int, x = y + m * k
  PROVE  x = y
<1>1. CASE k = 0
  BY <1>1
<1>2. CASE k >= 1
  <2>1. m * k >= m
    BY <1>2
  <2> QED
    BY <2>1
<1>3. CASE k <= -1
  <2>1. m * k <= -m
    BY <1>3
  <2> QED
    BY <2>1
<1> QED
  BY <1>1, <1>2, <1>3

\* Quotient and remainder of an integer.
LEMMA Quotient ==
  ASSUME NEW m \in Nat \ {0}, NEW a \in Int
  PROVE  \E k \in Int, r \in 0..(m - 1) : a % m = r /\ a = m * k + r
<1>1. a % m \in 0..(m - 1) /\ a \div m \in Int
  OBVIOUS
<1>2. a = m * (a \div m) + (a % m)
  OBVIOUS
<1> QED
  BY <1>1, <1>2

\* Reducing a summand before a sum is reduced makes no difference.
LEMMA ModSum ==
  ASSUME NEW m \in Nat \ {0}, NEW a \in Int, NEW b \in Int
  PROVE  (a + (b % m)) % m = (a + b) % m
<1>1. PICK i \in Int, r \in 0..(m - 1) : b % m = r /\ b = m * i + r
  BY Quotient
<1>2. a + r \in Int /\ a + b \in Int
  OBVIOUS
<1>3. PICK j \in Int, x \in 0..(m - 1) : (a + r) % m = x /\ a + r = m * j + x
  BY <1>2, Quotient
<1>4. PICK k \in Int, y \in 0..(m - 1) : (a + b) % m = y /\ a + b = m * k + y
  BY <1>2, Quotient
<1>5. x = y + m * (k - i - j)
  <2>1. m * (k - i - j) = m * k - m * i - m * j
    OBVIOUS
  <2>2. m * k \in Int /\ m * i \in Int /\ m * j \in Int
    OBVIOUS
  <2> QED
    BY <1>1, <1>3, <1>4, <2>1, <2>2
<1>6. k - i - j \in Int
  OBVIOUS
<1>7. x = y
  BY <1>5, <1>6, SameRemainder
<1> QED
  BY <1>1, <1>3, <1>4, <1>7

-----------------------------------------------------------------------------
(* PortTime is ClockStore. *)

\* The clocks created here are clocks of the store.
LEMMA NewClockType ==
  ASSUME TypeOK, boot \in Int, NEW start \in Start, NEW clock \in NewClocks(start)
  PROVE  clock \in NewClock /\ clock \in Clock /\ clock.value = Offset(start)
<1>1. start - Monotonic \in Int
  BY TimeAssumption DEF TypeOK, Monotonic
<1>2. Offset(start) \in Value
  BY <1>1, TimeAssumption, Quotient DEF Offset, Wrap
<1>3. PICK c \in NewClock : clock = [c EXCEPT !.value = Offset(start)]
  BY DEF NewClocks
<1>4. clock \in NewClock
  BY <1>2, <1>3, TimeAssumption
<1>5. c \in Clock
  BY NewClockAssumption
<1>6. clock.value = Offset(start)
  BY <1>3, <1>5 DEF Clock
<1> QED
  BY <1>4, <1>6, NewClockAssumption

TimeTypes == boot \in Int /\ boot <= now
               /\ asked \in [Port -> [start : Int, at : 0..MaxTime, lost : Nat]]

\* A step here is a step of the store.
LEMMA StoreStep ==
  ASSUME TypeOK, TimeTypes, [PortTimeNext]_allVars
  PROVE  [Next]_vars
<1>1. CASE Untimed
  BY <1>1 DEF Untimed, Next, Server
<1>2. ASSUME NEW p \in Port, NEW start \in Start, NEW clock \in NewClocks(start),
             SetClock(p, start, clock) \/ SetClockCrashes(p, start, clock)
      PROVE  Next
  <2>1. clock \in NewClock
    BY NewClockType DEF TimeTypes
  <2> QED
    BY <1>2, <2>1 DEF SetClock, SetClockCrashes, Next, Server
<1>3. CASE HostRestarts
  BY <1>3 DEF HostRestarts, Next
<1>4. CASE UNCHANGED allVars
  BY <1>4 DEF allVars
<1> QED
  BY <1>1, <1>2, <1>3, <1>4 DEF PortTimeNext

\* A record of what was asked.
AskedFor == [start : Int, at : 0..MaxTime, lost : Nat]

LEMMA TimeTypesKept ==
  ASSUME TypeOK, TypeOK', TimeTypes, [PortTimeNext]_allVars
  PROVE  TimeTypes'
<1>1. CASE Untimed /\ UNCHANGED timeVars
  <2>1. Tick \/ UNCHANGED now
    BY <1>1 DEF Untimed, DbSetup, DbGet, CreateClockFails, GetClocks,
                GetClocksFails, CleanupStarts, Cleanup, DbSetupFails, Restart,
                ContainerStarts
  <2>2. now' >= now
    BY <2>1 DEF Tick, TypeOK
  <2> QED
    BY <1>1, <2>2 DEF timeVars, TimeTypes, TypeOK
<1>2. ASSUME NEW p \in Port, NEW start \in Start, Ask(p, start), now' = now
      PROVE  TimeTypes'
  <2>1. [start |-> start, at |-> now, lost |-> 0] \in AskedFor
    BY TimeAssumption DEF TypeOK, AskedFor
  <2> QED
    BY <1>2, <2>1 DEF Ask, TimeTypes, AskedFor
<1>3. CASE MonotonicRestarts /\ now' = now
  <2>1. now - boot \in Nat
    BY DEF TimeTypes, TypeOK
  <2>2. ASSUME NEW p \in Port
        PROVE  [asked[p] EXCEPT !.lost = @ + Monotonic] \in AskedFor
    BY <2>1 DEF TimeTypes, AskedFor, Monotonic
  <2>3. asked' \in [Port -> AskedFor]
    BY <1>3, <2>2 DEF MonotonicRestarts
  <2> QED
    BY <1>3, <2>3 DEF MonotonicRestarts, TimeTypes, AskedFor, TypeOK
<1>4. CASE UNCHANGED allVars
  BY <1>4 DEF allVars, vars, timeVars, TimeTypes
<1> QED
  BY <1>1, <1>2, <1>3, <1>4
  DEF PortTimeNext, SetClock, SetClockCrashes, CreateClock, CrashAfterInsert,
      ContainerStarts, HostRestarts, Restart

\* The types, and the invariant of the store, hold here.
LEMMA StoreInvariant == PortTimeSpec => [](IInv /\ TimeTypes)
<1>1. PortTimeInit => IInv /\ TimeTypes
  <2> SUFFICES ASSUME PortTimeInit PROVE IInv /\ TimeTypes
    OBVIOUS
  <2>1. IInv
    BY InitInvariant DEF PortTimeInit
  <2>2. TimeTypes
    BY TimeAssumption, SizeAssumption
    DEF PortTimeInit, Init, TimeTypes, NotAsked
  <2> QED
    BY <2>1, <2>2
<1>2. IInv /\ TimeTypes /\ [PortTimeNext]_allVars => IInv' /\ TimeTypes'
  <2> SUFFICES ASSUME IInv, TimeTypes, [PortTimeNext]_allVars
               PROVE  IInv' /\ TimeTypes'
    OBVIOUS
  <2>1. [Next]_vars
    BY StoreStep DEF IInv
  <2>2. IInv'
    BY <2>1, NextInvariant
  <2> QED
    BY <2>2, TimeTypesKept DEF IInv
<1> QED
  BY <1>1, <1>2, PTL DEF PortTimeSpec

\* The clocks with their times are a ClockStore: whatever holds of the store
\* holds of them.
THEOREM ImplementsClockStore == PortTimeSpec => Spec
<1>1. PortTimeInit => Init
  BY DEF PortTimeInit
<1>2. IInv /\ TimeTypes /\ [PortTimeNext]_allVars => [Next]_vars
  BY StoreStep DEF IInv
<1> QED
  BY <1>1, <1>2, StoreInvariant, PTL DEF PortTimeSpec, Spec

\* Every variable has its type.
THEOREM PortTimeTypeCorrect == PortTimeSpec => []PortTimeTypeOK
<1>1. IInv /\ TimeTypes => PortTimeTypeOK
  BY DEF IInv, TimeTypes, PortTimeTypeOK
<1> QED
  BY <1>1, StoreInvariant, PTL

-----------------------------------------------------------------------------
(* Clocks are exact. *)

\* The time a port would have shown when the monotonic clock was 0, had it never
\* restarted; this is what does not change.
AtBoot(p) == asked[p].start - asked[p].at + (boot - asked[p].lost)

\* Every difference that can be read, in the table or in the cache, is that time.
OffsetExact == \A p \in Port : View(p) # None => View(p).value = Wrap(AtBoot(p))

LEMMA OffsetKept ==
  ASSUME IInv, IInv', TimeTypes, OffsetExact, [PortTimeNext]_allVars
  PROVE  OffsetExact'
<1>1. [Next]_vars
  BY StoreStep DEF IInv
<1>2. \A q \in Port : SlotHarmless(q)
  BY <1>1, StepHarmless
<1>3. ASSUME NEW q \in Port, table'[q] = table[q] \/ table'[q] = None,
             AtBoot(q)' = AtBoot(q), View(q)' # None
      PROVE  View(q)'.value = Wrap(AtBoot(q)')
  <2>1. ViewStep(q)
    BY <1>2, ViewKept
  <2>2. View(q) \in Clock \cup {None}
    BY ViewType
  <2>3. CASE View(q)' = View(q)
    BY <1>3, <2>3 DEF OffsetExact
  <2>4. CASE View(q)' = StoredOf(q)'
    <3>1. table'[q] # None /\ table'[q] = table[q]
      BY <1>3, <2>4 DEF StoredOf
    <3>2. View(q)' = table[q].clock
      BY <2>4, <3>1 DEF StoredOf
    <3>3. table[q].clock \in Clock
      BY <3>1, RowClock DEF IInv
    <3>4. View(q) = table[q].clock \/ View(q) = Opened(table[q].clock)
      BY <3>1, StoredIsRead DEF IInv, Agrees
    <3>5. View(q).value = table[q].clock.value /\ View(q) # None
      BY <3>3, <3>4, OpenedClock, NoneAssumption
    <3> QED
      BY <1>3, <3>2, <3>5 DEF OffsetExact
  <2>5. CASE View(q) # None /\ View(q)' = Opened(View(q))
    <3>1. View(q)'.value = View(q).value
      BY <2>2, <2>5, OpenedClock
    <3> QED
      BY <1>3, <2>5, <3>1 DEF OffsetExact
  <2> QED
    BY <2>1, <2>3, <2>4, <2>5 DEF ViewStep
<1>4. CASE Untimed /\ UNCHANGED timeVars
  <2>1. \A q \in Port : table'[q] = table[q] \/ table'[q] = None
    BY <1>4 DEF Untimed, DbSetup, DbGet, CreateClockFails, GetClocks,
                GetClocksFails, CleanupStarts, Cleanup, DbSetupFails, Restart,
                Tick, AfterCleanup
  <2>2. \A q \in Port : AtBoot(q)' = AtBoot(q)
    BY <1>4 DEF timeVars, AtBoot
  <2> QED
    BY <1>3, <2>1, <2>2 DEF OffsetExact, Wrap
<1>5. ASSUME NEW p \in Port, NEW start \in Start, NEW clock \in NewClocks(start),
             SetClock(p, start, clock) \/ SetClockCrashes(p, start, clock)
      PROVE  OffsetExact'
  <2>1. clock \in Clock /\ clock.value = Offset(start)
    BY NewClockType DEF IInv, TimeTypes
  <2>2. /\ table[p] = None
        /\ table' = [table EXCEPT ![p] = [clock |-> clock, created |-> now]]
        /\ cache' = Invalidated(p) \/ cache' = EmptyCache
        /\ Ask(p, start)
    BY <1>5 DEF SetClock, SetClockCrashes, CreateClock, CrashAfterInsert,
                ContainerStarts
  <2>3. /\ table'[p] = [clock |-> clock, created |-> now]
        /\ table'[p] # None
    <3>1. [clock |-> clock, created |-> now] \in Row
      BY <2>1 DEF IInv, TypeOK, Row
    <3>2. [clock |-> clock, created |-> now] # None
      BY <3>1, NoneAssumption, Zenon
    <3> QED
      BY <2>2, <3>2 DEF IInv, TypeOK
  <2>4. View(p)' = clock
    BY <2>1, <2>2, <2>3, CreatedIsRead
  <2>5. View(p)'.value = Wrap(AtBoot(p)')
    <3>1. asked'[p] = [start |-> start, at |-> now, lost |-> 0] /\ boot' = boot
      BY <2>2 DEF Ask, TimeTypes
    <3>2. AtBoot(p)' = start - Monotonic
      BY <3>1, TimeAssumption DEF AtBoot, Monotonic, IInv, TypeOK, TimeTypes
    <3> QED
      BY <2>1, <2>4, <3>2 DEF Offset
  <2>6. ASSUME NEW q \in Port \ {p}, View(q)' # None
        PROVE  View(q)'.value = Wrap(AtBoot(q)')
    <3>1. table'[q] = table[q]
      BY <2>2 DEF IInv, TypeOK
    <3>2. AtBoot(q)' = AtBoot(q)
      BY <2>2 DEF Ask, AtBoot, TimeTypes
    <3> QED
      BY <1>3, <2>6, <3>1, <3>2
  <2> QED
    BY <2>5, <2>6 DEF OffsetExact, Wrap
<1>6. CASE HostRestarts
  <2>1. \A q \in Port : table'[q] = table[q]
    BY <1>6 DEF HostRestarts, Restart
  <2>2. ASSUME NEW q \in Port
        PROVE  AtBoot(q)' = AtBoot(q)
    <3>1. /\ boot' = now
          /\ asked'[q] = [asked[q] EXCEPT !.lost = @ + Monotonic]
      BY <1>6 DEF HostRestarts, MonotonicRestarts
    <3>2. /\ asked[q] \in [start : Int, at : 0..MaxTime, lost : Nat]
          /\ now \in Int /\ boot \in Int
      BY DEF TimeTypes, IInv, TypeOK
    <3>3. /\ asked'[q].start = asked[q].start
          /\ asked'[q].at = asked[q].at
          /\ asked'[q].lost = asked[q].lost + (now - boot)
      BY <3>1, <3>2 DEF Monotonic
    <3> QED
      BY <3>1, <3>2, <3>3 DEF AtBoot
  <2> QED
    BY <1>3, <2>1, <2>2 DEF OffsetExact, Wrap
<1>7. CASE UNCHANGED allVars
  <2>1. \A q \in Port : table'[q] = table[q]
    BY <1>7 DEF allVars, vars
  <2>2. \A q \in Port : AtBoot(q)' = AtBoot(q)
    BY <1>7 DEF allVars, timeVars, AtBoot
  <2> QED
    BY <1>3, <2>1, <2>2 DEF OffsetExact, Wrap
<1> QED
  BY <1>4, <1>5, <1>6, <1>7 DEF PortTimeNext

LEMMA ExactTime ==
  ASSUME IInv, TimeTypes, OffsetExact
  PROVE  TimeExact
<1> SUFFICES ASSUME NEW p \in Port, View(p) # None
             PROVE  TimeOfPort(p) =
                      Wrap(asked[p].start + (now - asked[p].at) - asked[p].lost)
  BY DEF TimeExact
<1>1. /\ Monotonic \in Int /\ AtBoot(p) \in Int
      /\ Monotonic + AtBoot(p) =
           asked[p].start + (now - asked[p].at) - asked[p].lost
  BY DEF Monotonic, AtBoot, TimeTypes, IInv, TypeOK
<1>2. TimeOfPort(p) = Wrap(Monotonic + Wrap(AtBoot(p)))
  BY DEF TimeOfPort, OffsetExact
<1>3. Wrap(Monotonic + Wrap(AtBoot(p))) = Wrap(Monotonic + AtBoot(p))
  BY <1>1, ModSum, TimeAssumption DEF Wrap
<1> QED
  BY <1>1, <1>2, <1>3

\* A clock that can be read shows the time asked for, and what the host has
\* counted since.
THEOREM TimeExactHolds == PortTimeSpec => []TimeExact
<1>1. PortTimeInit => OffsetExact
  BY HashSlot DEF PortTimeInit, Init, OffsetExact, View, Hit, EmptyCache, EmptyEntry
<1>2. /\ IInv /\ TimeTypes /\ IInv' /\ TimeTypes'
      /\ OffsetExact /\ [PortTimeNext]_allVars
      => OffsetExact'
  BY OffsetKept
<1>3. IInv /\ TimeTypes /\ OffsetExact => TimeExact
  BY ExactTime
<1> QED
  BY <1>1, <1>2, <1>3, StoreInvariant, PTL DEF PortTimeSpec
=============================================================================
