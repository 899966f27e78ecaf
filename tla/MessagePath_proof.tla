-------------------------- MODULE MessagePath_proof --------------------------
(***************************************************************************)
(* Proofs about MessagePath, for pools of every size and rings at least as *)
(* large: the type invariant, that the transmit ring lists the ptp pool's  *)
(* buffers in use in their order, that no path loses a request's buffer,   *)
(* that the process never exits over buffers returned out of order, and    *)
(* that every request is answered.                                         *)
(*                                                                         *)
(* Then that the transmission path implements ReplyQueue, what can be left *)
(* in that queue, and how long a poll is.                                  *)
(***************************************************************************)
EXTENDS MessagePath, TLAPS

-----------------------------------------------------------------------------
(* The pool. *)

\* Successor and the views stay within the pool.
LEMMA PoolType ==
  ASSUME NEW p \in Pool!Pool
  PROVE /\ Pool!Held(p) \in 0..(PoolSize - 1)
        /\ \A k \in 1..Pool!Held(p) : Pool!HeldAt(p, k) \in Item
        /\ Pool!NextFree(p) \in Item
        /\ Pool!Get(p) \in Pool!Pool
        /\ Pool!Put(p) \in Pool!Pool
BY SizeAssumption DEF Pool!Pool, Pool!Descriptor, Pool!Held, Pool!HeldAt, Item,
   Pool!NextFree, Pool!Successor, Pool!Get, Pool!Put

\* util_mempool_get succeeds unless PoolSize - 1 buffers are in use, and makes
\* the buffer it returns the newest one in use.
LEMMA PoolGet ==
  ASSUME NEW p \in Pool!Pool
  PROVE /\ Pool!HasFree(p) <=> Pool!Held(p) < PoolSize - 1
        /\ Pool!HasFree(p) =>
             /\ Pool!Held(Pool!Get(p)) = Pool!Held(p) + 1
             /\ \A k \in 1..Pool!Held(p) :
                  Pool!HeldAt(Pool!Get(p), k) = Pool!HeldAt(p, k)
             /\ Pool!HeldAt(Pool!Get(p), Pool!Held(p) + 1) = Pool!NextFree(p)
BY SizeAssumption DEF Pool!Pool, Pool!Descriptor, Pool!Held, Pool!HeldAt,
   Pool!HasFree, Pool!NextFree, Pool!Successor, Pool!Get

\* util_mempool_put accepts the oldest buffer in use and no other.
LEMMA PoolPut ==
  ASSUME NEW p \in Pool!Pool, Pool!Held(p) >= 1
  PROVE /\ Pool!Held(Pool!Put(p)) = Pool!Held(p) - 1
        /\ \A k \in 1..(Pool!Held(p) - 1) :
             Pool!HeldAt(Pool!Put(p), k) = Pool!HeldAt(p, k + 1)
        /\ Pool!InOrder(p, Pool!HeldAt(p, 1))
BY SizeAssumption DEF Pool!Pool, Pool!Descriptor, Pool!Held, Pool!HeldAt,
   Pool!InOrder, Pool!Successor, Pool!Put

\* The buffers in use are different ones.
LEMMA PoolDistinct ==
  ASSUME NEW p \in Pool!Pool,
         NEW j \in 1..Pool!Held(p), NEW k \in 1..Pool!Held(p),
         Pool!HeldAt(p, j) = Pool!HeldAt(p, k)
  PROVE  j = k
BY SizeAssumption DEF Pool!Pool, Pool!Descriptor, Pool!Held, Pool!HeldAt

\* The buffer util_mempool_get returns was not in use.
LEMMA PoolFresh ==
  ASSUME NEW p \in Pool!Pool, Pool!HasFree(p)
  PROVE /\ Pool!NextFree(p) \notin Pool!InUse(p)
        /\ Pool!InUse(Pool!Get(p)) = Pool!InUse(p) \cup {Pool!NextFree(p)}
<1> DEFINE q == Pool!Get(p)
<1>1. /\ q \in Pool!Pool
      /\ Pool!Held(p) \in 0..(PoolSize - 1)
      /\ Pool!Held(q) = Pool!Held(p) + 1
      /\ \A k \in 1..Pool!Held(p) : Pool!HeldAt(q, k) = Pool!HeldAt(p, k)
      /\ Pool!HeldAt(q, Pool!Held(p) + 1) = Pool!NextFree(p)
  BY PoolType, PoolGet
<1> HIDE DEF q
<1>2. Pool!NextFree(p) \notin Pool!InUse(p)
  <2> SUFFICES ASSUME NEW k \in 1..Pool!Held(p),
                      Pool!NextFree(p) = Pool!HeldAt(p, k)
               PROVE  FALSE
    BY DEF Pool!InUse
  <2>1. k = Pool!Held(p) + 1
    BY <1>1, PoolDistinct, SizeAssumption
  <2> QED BY <2>1, <1>1, SizeAssumption
<1>3. Pool!InUse(q) = Pool!InUse(p) \cup {Pool!NextFree(p)}
  <2>1. 1..Pool!Held(q) = (1..Pool!Held(p)) \cup {Pool!Held(p) + 1}
    BY <1>1, SizeAssumption
  <2> QED BY <2>1, <1>1 DEF Pool!InUse
<1> QED BY <1>2, <1>3 DEF q

\* util_mempool_put leaves the other buffers in use.
LEMMA PoolReturned ==
  ASSUME NEW p \in Pool!Pool, Pool!Held(p) >= 1
  PROVE Pool!InUse(Pool!Put(p)) = Pool!InUse(p) \ {Pool!HeldAt(p, 1)}
<1> DEFINE q == Pool!Put(p)
<1>1. /\ Pool!Held(p) \in 0..(PoolSize - 1)
      /\ Pool!Held(q) = Pool!Held(p) - 1
      /\ \A k \in 1..(Pool!Held(p) - 1) :
           Pool!HeldAt(q, k) = Pool!HeldAt(p, k + 1)
  BY PoolType, PoolPut
<1> HIDE DEF q
<1>2. ASSUME NEW d \in Pool!InUse(q)
      PROVE  d \in Pool!InUse(p) \ {Pool!HeldAt(p, 1)}
  <2>1. PICK k \in 1..(Pool!Held(p) - 1) : d = Pool!HeldAt(p, k + 1)
    BY <1>1 DEF Pool!InUse
  <2>2. k + 1 \in 1..Pool!Held(p) /\ k + 1 # 1 /\ 1 \in 1..Pool!Held(p)
    BY <1>1, SizeAssumption
  <2>3. Pool!HeldAt(p, k + 1) # Pool!HeldAt(p, 1)
    BY <2>2, PoolDistinct
  <2> QED BY <2>1, <2>2, <2>3 DEF Pool!InUse
<1>3. ASSUME NEW d \in Pool!InUse(p) \ {Pool!HeldAt(p, 1)}
      PROVE  d \in Pool!InUse(q)
  <2>1. PICK k \in 1..Pool!Held(p) : d = Pool!HeldAt(p, k)
    BY DEF Pool!InUse
  <2>2. k # 1
    BY <2>1
  <2>3. k - 1 \in 1..(Pool!Held(p) - 1) /\ (k - 1) + 1 = k
    BY <2>2, <1>1, SizeAssumption
  <2> QED BY <2>1, <2>3, <1>1 DEF Pool!InUse
<1> QED BY <1>2, <1>3 DEF q

-----------------------------------------------------------------------------
(* The ring. *)

\* The ring's arithmetic modulo its length is a step with a wrap.
LEMMA RingFollowing ==
  ASSUME NEW s \in Ring!Slot
  PROVE  Ring!Following(s) = IF s + 1 = RingSize THEN 0 ELSE s + 1
<1>1. CASE s + 1 = RingSize
  <2>1. RingSize % RingSize = 0
    BY SizeAssumption
  <2> QED BY <1>1, <2>1, SizeAssumption DEF Ring!Following, Ring!Slot
<1>2. CASE s + 1 # RingSize
  <2>1. s + 1 \in 0..(RingSize - 1)
    BY <1>2, SizeAssumption DEF Ring!Slot
  <2>2. (s + 1) % RingSize = s + 1
    BY <2>1, SizeAssumption
  <2> QED BY <1>2, <2>2 DEF Ring!Following
<1> QED BY <1>1, <1>2

\* The views stay within the ring.
LEMMA RingType ==
  ASSUME NEW r \in Ring!RingState
  PROVE /\ Ring!Occupied(r) \in 0..(RingSize - 1)
        /\ Ring!IsEmpty(r) <=> Ring!Occupied(r) = 0
        /\ Ring!Get(r) \in Ring!RingState
        /\ \A item \in Item : Ring!Put(r, item) \in Ring!RingState
<1>1. /\ r.head \in Ring!Slot /\ r.tail \in Ring!Slot
      /\ r.buffer \in [Ring!Slot -> Item \cup {None}]
  BY DEF Ring!RingState
<1>2. Ring!Following(r.head) \in Ring!Slot /\ Ring!Following(r.tail) \in Ring!Slot
  BY <1>1, RingFollowing, SizeAssumption DEF Ring!Slot
<1>3. /\ Ring!Occupied(r) \in 0..(RingSize - 1)
      /\ Ring!IsEmpty(r) <=> Ring!Occupied(r) = 0
  BY <1>1, SizeAssumption DEF Ring!Occupied, Ring!IsEmpty, Ring!Slot
<1>4. Ring!Get(r) \in Ring!RingState
  BY <1>1, <1>2 DEF Ring!Get, Ring!RingState
<1>5. \A item \in Item : Ring!Put(r, item) \in Ring!RingState
  BY <1>1, <1>2 DEF Ring!Put, Ring!RingState
<1> QED BY <1>3, <1>4, <1>5

\* util_ring_put succeeds unless RingSize - 1 slots are occupied, and makes the
\* item the newest one.
LEMMA RingPut ==
  ASSUME NEW r \in Ring!RingState, NEW item \in Item
  PROVE /\ Ring!HasRoom(r) <=> Ring!Occupied(r) < RingSize - 1
        /\ Ring!HasRoom(r) =>
             /\ Ring!Occupied(Ring!Put(r, item)) = Ring!Occupied(r) + 1
             /\ \A k \in 1..Ring!Occupied(r) :
                  Ring!At(Ring!Put(r, item), k) = Ring!At(r, k)
             /\ Ring!At(Ring!Put(r, item), Ring!Occupied(r) + 1) = item
<1> DEFINE q == Ring!Put(r, item)
           next == IF r.head + 1 = RingSize THEN 0 ELSE r.head + 1
<1>1. /\ r.head \in 0..(RingSize - 1) /\ r.tail \in 0..(RingSize - 1)
      /\ r.buffer \in [Ring!Slot -> Item \cup {None}]
      /\ Ring!Following(r.head) = next
  BY RingFollowing DEF Ring!RingState, Ring!Slot
<1>2. /\ q.head = next /\ q.tail = r.tail
      /\ q.buffer = [r.buffer EXCEPT ![r.head] = item]
  BY <1>1 DEF Ring!Put, Ring!RingState
<1>3. Ring!HasRoom(r) <=> Ring!Occupied(r) < RingSize - 1
  BY <1>1, SizeAssumption DEF Ring!HasRoom, Ring!Occupied
<1>4. ASSUME Ring!HasRoom(r)
      PROVE  Ring!Occupied(q) = Ring!Occupied(r) + 1
  <2> HIDE DEF q
  <2> QED BY <1>1, <1>2, <1>4, SizeAssumption DEF Ring!HasRoom, Ring!Occupied
<1>5. ASSUME Ring!HasRoom(r), NEW k \in 1..Ring!Occupied(r)
      PROVE  Ring!At(q, k) = Ring!At(r, k)
  <2> DEFINE s == IF r.tail + k - 1 < RingSize
                    THEN r.tail + k - 1 ELSE r.tail + k - 1 - RingSize
  <2>1. s # r.head /\ s \in Ring!Slot
    <3>1. RingSize \in Nat /\ k \in Nat /\ 1 <= k
      BY <1>1, <1>5, SizeAssumption DEF Ring!Occupied
    <3>2. k <= Ring!Occupied(r)
      BY <1>1, <1>5, SizeAssumption DEF Ring!Occupied
    <3>3. CASE r.head >= r.tail
      <4>1. k <= r.head - r.tail
        BY <3>2, <3>3 DEF Ring!Occupied
      <4> QED BY <1>1, <3>1, <3>3, <4>1 DEF Ring!Slot
    <3>4. CASE ~(r.head >= r.tail)
      <4>1. k <= r.head - r.tail + RingSize
        BY <3>2, <3>4 DEF Ring!Occupied
      <4> QED BY <1>1, <3>1, <3>4, <4>1 DEF Ring!Slot
    <3> QED BY <3>3, <3>4
  <2>2. Ring!At(r, k) = r.buffer[s]
    BY DEF Ring!At
  <2>3. Ring!At(q, k) = q.buffer[s]
    BY <1>2 DEF Ring!At
  <2> HIDE DEF q, s
  <2> QED BY <1>1, <1>2, <2>1, <2>2, <2>3
<1>6. ASSUME Ring!HasRoom(r)
      PROVE  Ring!At(q, Ring!Occupied(r) + 1) = item
  <2> DEFINE k == Ring!Occupied(r) + 1
  <2>1. (IF q.tail + k - 1 < RingSize
           THEN q.tail + k - 1 ELSE q.tail + k - 1 - RingSize) = r.head
    <3> HIDE DEF q
    <3> QED BY <1>1, <1>2, SizeAssumption DEF Ring!Occupied
  <2>2. Ring!At(q, k) = q.buffer[r.head]
    BY <2>1 DEF Ring!At
  <2> HIDE DEF q
  <2> QED BY <1>1, <1>2, <2>2 DEF Ring!Slot
<1> QED BY <1>3, <1>4, <1>5, <1>6

\* util_ring_get takes the oldest item and moves the others up.
LEMMA RingGet ==
  ASSUME NEW r \in Ring!RingState, Ring!Occupied(r) >= 1
  PROVE /\ Ring!First(r) = Ring!At(r, 1)
        /\ Ring!Occupied(Ring!Get(r)) = Ring!Occupied(r) - 1
        /\ \A k \in 1..(Ring!Occupied(r) - 1) :
             Ring!At(Ring!Get(r), k) = Ring!At(r, k + 1)
<1> DEFINE q == Ring!Get(r)
           next == IF r.tail + 1 = RingSize THEN 0 ELSE r.tail + 1
<1>1. /\ r.head \in 0..(RingSize - 1) /\ r.tail \in 0..(RingSize - 1)
      /\ Ring!Following(r.tail) = next
  BY RingFollowing DEF Ring!RingState, Ring!Slot
<1>2. q.head = r.head /\ q.tail = next /\ q.buffer = r.buffer
  BY <1>1 DEF Ring!Get, Ring!RingState
<1> HIDE DEF q
<1>3. Ring!First(r) = Ring!At(r, 1)
  BY <1>1, SizeAssumption DEF Ring!First, Ring!At
<1>4. Ring!Occupied(q) = Ring!Occupied(r) - 1
  BY <1>1, <1>2, SizeAssumption DEF Ring!Occupied
<1>5. ASSUME NEW k \in 1..(Ring!Occupied(r) - 1)
      PROVE  Ring!At(q, k) = Ring!At(r, k + 1)
  <2>1. (IF q.tail + k - 1 < RingSize
           THEN q.tail + k - 1 ELSE q.tail + k - 1 - RingSize)
        = (IF r.tail + (k + 1) - 1 < RingSize
             THEN r.tail + (k + 1) - 1 ELSE r.tail + (k + 1) - 1 - RingSize)
    BY <1>1, <1>2, SizeAssumption DEF Ring!Occupied
  <2> QED BY <2>1, <1>2 DEF Ring!At
<1> QED BY <1>3, <1>4, <1>5 DEF q

-----------------------------------------------------------------------------
(* A ring and a pool in step. *)

\* Taking a buffer and queueing it keeps ring and pool in step; since the ring
\* is at least as large as the pool, it has room whenever there is a buffer.
LEMMA OrderPut ==
  ASSUME NEW r \in Ring!RingState, NEW p \in Pool!Pool,
         SameOrder(r, p), Pool!HasFree(p)
  PROVE /\ Ring!HasRoom(r)
        /\ SameOrder(Ring!Put(r, Pool!NextFree(p)), Pool!Get(p))
<1> DEFINE item == Pool!NextFree(p)
           n == Pool!Held(p)
           r2 == Ring!Put(r, item)
           p2 == Pool!Get(p)
<1>1. /\ n \in 0..(PoolSize - 1) /\ n < PoolSize - 1 /\ item \in Item
      /\ Pool!Held(p2) = n + 1
      /\ \A k \in 1..n : Pool!HeldAt(p2, k) = Pool!HeldAt(p, k)
      /\ Pool!HeldAt(p2, n + 1) = item
  BY PoolType, PoolGet
<1>2. /\ Ring!Occupied(r) = n
      /\ \A k \in 1..n : Ring!At(r, k) = Pool!HeldAt(p, k)
  BY DEF SameOrder
<1>3. Ring!HasRoom(r)
  BY <1>1, <1>2, RingPut, SizeAssumption
<1>4. /\ Ring!Occupied(r2) = n + 1
      /\ \A k \in 1..n : Ring!At(r2, k) = Ring!At(r, k)
      /\ Ring!At(r2, n + 1) = item
  BY <1>1, <1>2, <1>3, RingPut
<1>5. ASSUME NEW k \in 1..(n + 1)
      PROVE  Ring!At(r2, k) = Pool!HeldAt(p2, k)
  <2> HIDE DEF item, n, r2, p2
  <2>1. CASE k = n + 1
    BY <2>1, <1>1, <1>4
  <2>2. CASE k # n + 1
    <3>1. k \in 1..n
      BY <2>2, <1>1, SizeAssumption
    <3> QED BY <3>1, <1>1, <1>2, <1>4
  <2> QED BY <2>1, <2>2
<1> QED BY <1>1, <1>3, <1>4, <1>5 DEF SameOrder

\* Dequeuing the oldest item and returning its buffer keeps them in step, and
\* the buffer returned is the one util_mempool_put expects.
LEMMA OrderGet ==
  ASSUME NEW r \in Ring!RingState, NEW p \in Pool!Pool,
         SameOrder(r, p), ~Ring!IsEmpty(r)
  PROVE /\ Pool!Held(p) >= 1
        /\ Ring!First(r) = Pool!HeldAt(p, 1)
        /\ Pool!InOrder(p, Ring!First(r))
        /\ SameOrder(Ring!Get(r), Pool!Put(p))
<1> DEFINE n == Pool!Held(p)
           r2 == Ring!Get(r)
           p2 == Pool!Put(p)
<1>1. /\ n \in 0..(PoolSize - 1)
      /\ Ring!Occupied(r) = n
      /\ n >= 1
      /\ \A k \in 1..n : Ring!At(r, k) = Pool!HeldAt(p, k)
  BY PoolType, RingType, SizeAssumption DEF SameOrder
<1>2. /\ Ring!First(r) = Ring!At(r, 1)
      /\ Ring!Occupied(r2) = n - 1
      /\ \A k \in 1..(n - 1) : Ring!At(r2, k) = Ring!At(r, k + 1)
  BY <1>1, RingGet
<1>3. /\ Pool!Held(p2) = n - 1
      /\ \A k \in 1..(n - 1) : Pool!HeldAt(p2, k) = Pool!HeldAt(p, k + 1)
      /\ Pool!InOrder(p, Pool!HeldAt(p, 1))
  BY <1>1, PoolPut
<1>4. Ring!First(r) = Pool!HeldAt(p, 1)
  <2>1. 1 \in 1..n
    BY <1>1, SizeAssumption
  <2> QED BY <2>1, <1>1, <1>2
<1>5. ASSUME NEW k \in 1..(n - 1)
      PROVE  Ring!At(r2, k) = Pool!HeldAt(p2, k)
  <2> HIDE DEF n, r2, p2
  <2>1. k + 1 \in 1..n
    BY <1>1, SizeAssumption
  <2> QED BY <2>1, <1>1, <1>2, <1>3
<1> QED BY <1>1, <1>2, <1>3, <1>4, <1>5 DEF SameOrder

-----------------------------------------------------------------------------
(* The inductive invariant. *)

\* The server starts in it.
LEMMA InitInvariant == Init => IInv
<1> SUFFICES ASSUME Init PROVE IInv
  OBVIOUS
<1> USE SizeAssumption
<1>1. /\ Pool!Setup \in Pool!Pool
      /\ Pool!Held(Pool!Setup) = 0
      /\ Pool!HasFree(Pool!Setup)
  BY DEF Pool!Setup, Pool!Pool, Pool!Descriptor, Pool!Held, Pool!HasFree,
     Pool!Successor
<1>2. Pool!InUse(Pool!Setup) = {}
  BY <1>1 DEF Pool!InUse
<1>3. /\ Ring!Setup \in Ring!RingState
      /\ Ring!Occupied(Ring!Setup) = 0
      /\ Ring!IsEmpty(Ring!Setup)
  BY DEF Ring!Setup, Ring!RingState, Ring!Slot, Ring!Occupied, Ring!IsEmpty
<1>4. TypeOK
  BY <1>1, <1>3, DataAssumption DEF Init, TypeOK, Control
<1>5. TransmitOrder
  BY <1>1, <1>2, <1>3 DEF Init, TransmitOrder, SameOrder
<1>6. RequestBuffers
  BY <1>1, <1>2, <1>3 DEF Init, RequestBuffers
<1>7. AnswerRoom /\ SignalingLocals /\ NeverOutOfOrder
  BY <1>1 DEF Init, AnswerRoom, EveryRequestAnswered, SignalingLocals,
     NeverOutOfOrder
<1> QED BY <1>4, <1>5, <1>6, <1>7 DEF IInv

\* A datagram that arrives finds a buffer and room in the receive ring.
LEMMA ReceiveInvariant ==
  ASSUME IInv, NEW dg \in Datagram, UdpReceiveMessage(dg)
  PROVE  IInv'
<1> DEFINE item == Pool!NextFree(udpPool)
<1>1. /\ pc = "idle" /\ TypeOK
      /\ Pool!Held(udpPool) = 0 /\ Ring!IsEmpty(rxRing)
      /\ \A d \in Item : datagram[d] # None <=> d \in Pool!InUse(udpPool)
  BY DEF IInv, RequestBuffers, UdpReceiveMessage
<1>2. Pool!HasFree(udpPool)
  BY <1>1, PoolGet, SizeAssumption DEF TypeOK
<1>3. SameOrder(rxRing, udpPool)
  BY <1>1, RingType, SizeAssumption DEF SameOrder, TypeOK
<1>4. /\ Ring!HasRoom(rxRing)
      /\ SameOrder(Ring!Put(rxRing, item), Pool!Get(udpPool))
  BY <1>1, <1>2, <1>3, OrderPut DEF TypeOK
<1>5. /\ item \in Item
      /\ Pool!Get(udpPool) \in Pool!Pool
      /\ Pool!Held(Pool!Get(udpPool)) = 1
      /\ Pool!InUse(Pool!Get(udpPool)) = Pool!InUse(udpPool) \cup {item}
  BY <1>1, <1>2, PoolType, PoolGet, PoolFresh DEF TypeOK
<1>6. Ring!Put(rxRing, item) \in Ring!RingState
  BY <1>1, <1>5, RingType DEF TypeOK
<1>7. /\ pc' = "handle"
      /\ udpPool' = Pool!Get(udpPool)
      /\ rxRing' = Ring!Put(rxRing, item)
      /\ datagram' = [datagram EXCEPT ![item] = dg]
      /\ UNCHANGED <<sendtoFails, ptpPool, txRing, reply, request, response,
                     tlv, own>>
  BY <1>2, <1>4 DEF UdpReceiveMessage
<1> HIDE DEF item
<1>8. TypeOK'
  BY <1>1, <1>5, <1>6, <1>7 DEF TypeOK, Control
<1>9. RequestBuffers'
  <2>1. ASSUME NEW d \in Item
        PROVE  datagram'[d] # None <=> d \in Pool!InUse(udpPool')
    BY <1>1, <1>5, <1>7, NoneAssumption DEF TypeOK
  <2> QED BY <2>1, <1>4, <1>5, <1>7 DEF RequestBuffers
<1>10. TransmitOrder'
  BY <1>7 DEF IInv, TransmitOrder
<1>11. AnswerRoom' /\ SignalingLocals' /\ NeverOutOfOrder'
  BY <1>1, <1>7 DEF IInv, AnswerRoom, EveryRequestAnswered, SignalingLocals,
     NeverOutOfOrder
<1> QED BY <1>8, <1>9, <1>10, <1>11 DEF IInv

\* A failed recvfrom returns the only buffer in use.
LEMMA ReceiveFailsInvariant ==
  ASSUME IInv, UdpReceiveFails
  PROVE  IInv'
<1> DEFINE item == Pool!NextFree(udpPool)
           taken == Pool!Get(udpPool)
<1>1. /\ pc = "idle" /\ TypeOK
      /\ Pool!Held(udpPool) = 0 /\ Ring!IsEmpty(rxRing)
      /\ Pool!HasFree(udpPool)
      /\ \A d \in Item : datagram[d] # None <=> d \in Pool!InUse(udpPool)
  BY DEF IInv, RequestBuffers, UdpReceiveFails
<1>2. /\ taken \in Pool!Pool
      /\ Pool!Held(taken) = 1
      /\ Pool!HeldAt(taken, 1) = item
      /\ item \notin Pool!InUse(udpPool)
      /\ Pool!InUse(taken) = Pool!InUse(udpPool) \cup {item}
  BY <1>1, PoolType, PoolGet, PoolFresh DEF TypeOK
<1> HIDE DEF taken, item
<1>3. /\ Pool!Put(taken) \in Pool!Pool
      /\ Pool!Held(Pool!Put(taken)) = 0
      /\ Pool!InOrder(taken, item)
      /\ Pool!InUse(Pool!Put(taken)) = Pool!InUse(udpPool)
  <2>1. Pool!Held(taken) >= 1
    BY <1>2
  <2>2. Pool!Put(taken) \in Pool!Pool
    BY <1>2, PoolType
  <2>3. /\ Pool!Held(Pool!Put(taken)) = 0
        /\ Pool!InOrder(taken, item)
    BY <1>2, <2>1, PoolPut
  <2>4. Pool!InUse(Pool!Put(taken)) = Pool!InUse(taken) \ {item}
    BY <1>2, <2>1, PoolReturned
  <2> QED BY <1>2, <2>2, <2>3, <2>4
<1>4. /\ pc' = "drain"
      /\ udpPool' = Pool!Put(taken)
      /\ UNCHANGED <<sendtoFails, ptpPool, rxRing, txRing, datagram, reply,
                     request, response, tlv, own>>
  BY <1>3 DEF UdpReceiveFails, taken, item
<1>5. TypeOK'
  BY <1>1, <1>3, <1>4 DEF TypeOK, Control
<1>6. RequestBuffers'
  BY <1>1, <1>3, <1>4 DEF RequestBuffers
<1>7. TransmitOrder'
  BY <1>4 DEF IInv, TransmitOrder
<1>8. AnswerRoom' /\ SignalingLocals' /\ NeverOutOfOrder'
  BY <1>1, <1>4 DEF IInv, AnswerRoom, EveryRequestAnswered, SignalingLocals,
     NeverOutOfOrder
<1> QED BY <1>5, <1>6, <1>7, <1>8 DEF IInv

\* The handler takes the one request there is, from the one buffer in use.
LEMMA HandleInvariant ==
  ASSUME IInv, PtpHandleMessage
  PROVE  IInv'
<1> DEFINE item == Ring!First(rxRing)
<1>1. /\ pc = "handle" /\ TypeOK
      /\ Pool!Held(udpPool) = 1
      /\ SameOrder(rxRing, udpPool)
      /\ \A d \in Item : datagram[d] # None <=> d \in Pool!InUse(udpPool)
  BY DEF IInv, RequestBuffers, PtpHandleMessage
<1>2. Ring!Occupied(rxRing) = 1 /\ ~Ring!IsEmpty(rxRing)
  BY <1>1, RingType DEF SameOrder, TypeOK
<1>3. /\ item = Pool!HeldAt(udpPool, 1)
      /\ item \in Item
      /\ item \in Pool!InUse(udpPool)
  BY <1>1, <1>2, OrderGet, PoolType DEF TypeOK, Pool!InUse
<1>4. /\ Ring!Get(rxRing) \in Ring!RingState
      /\ Ring!Occupied(Ring!Get(rxRing)) = 0
      /\ Ring!IsEmpty(Ring!Get(rxRing))
  BY <1>1, <1>2, RingType, RingGet DEF TypeOK
<1>5. /\ request' = item
      /\ rxRing' = Ring!Get(rxRing)
      /\ pc' = HandlerOf(datagram[item])
      /\ UNCHANGED <<sendtoFails, udpPool, ptpPool, txRing, datagram, reply,
                     response, tlv, own>>
  BY <1>2 DEF PtpHandleMessage
<1> HIDE DEF item
<1>6. /\ pc' \in {"release", "delay_request", "signaling", "management",
                  "failed"}
      /\ pc' = "release" => datagram[item].kind = "ignored"
  BY <1>5 DEF HandlerOf
<1>7. TypeOK'
  BY <1>1, <1>3, <1>4, <1>5, <1>6 DEF TypeOK, Control
<1>8. RequestBuffers'
  BY <1>1, <1>3, <1>4, <1>5, <1>6 DEF RequestBuffers
<1>9. TransmitOrder'
  BY <1>5 DEF IInv, TransmitOrder
<1>10. AnswerRoom' /\ SignalingLocals' /\ NeverOutOfOrder'
  BY <1>1, <1>5, <1>6 DEF IInv, AnswerRoom, EveryRequestAnswered,
     SignalingLocals, NeverOutOfOrder
<1> QED BY <1>7, <1>8, <1>9, <1>10 DEF IInv

\* While a handler runs, its request is in the one udp buffer in use.
LEMMA RequestInHand ==
  ASSUME IInv,
         pc \in {"delay_request", "signaling", "tlv", "management", "failed",
                 "release"}
  PROVE /\ request \in Item
        /\ datagram[request] \in Datagram
        /\ Pool!Held(udpPool) = 1
        /\ request = Pool!HeldAt(udpPool, 1)
        /\ request \in Pool!InUse(udpPool)
<1>1. /\ TypeOK
      /\ Pool!Held(udpPool) = 1
      /\ request = Pool!HeldAt(udpPool, 1)
      /\ \A d \in Item : datagram[d] # None <=> d \in Pool!InUse(udpPool)
  BY DEF IInv, RequestBuffers
<1>2. request \in Item /\ request \in Pool!InUse(udpPool)
  BY <1>1, PoolType DEF TypeOK, Pool!InUse
<1> QED BY <1>1, <1>2 DEF TypeOK

\* What ptp_get_and_init_response does when it can: the reply is in a buffer
\* that was free, at the end of the transmit ring.  The branch in which the
\* ring is full and the buffer would come back out of order is never taken.
LEMMA RespondEffect ==
  ASSUME IInv, NEW kind \in ReplyKind, NEW ready \in BOOLEAN,
         NEW onward \in Control, NEW refused \in Control,
         request \in Item, datagram[request] \in Datagram,
         Respond(kind, ready, onward, refused)
  PROVE /\ pc' = IF Pool!HasFree(ptpPool) THEN onward ELSE refused
        /\ ptpPool' \in Pool!Pool
        /\ txRing' \in Ring!RingState
        /\ reply' \in [Item -> Reply \cup {None}]
        /\ own' \subseteq Item
        /\ TransmitOrder'
        /\ own' \subseteq Pool!InUse(ptpPool')
        /\ own \subseteq own'
        /\ Pool!HasFree(ptpPool) =>
             /\ Pool!NextFree(ptpPool) \in own'
             /\ own' # {}
        /\ ~Pool!HasFree(ptpPool) => UNCHANGED <<ptpPool, txRing, reply, own>>
<1> DEFINE item == Pool!NextFree(ptpPool)
           new == [kind |-> kind, client |-> datagram[request].client,
                   ready |-> ready]
<1>1. /\ TypeOK /\ SameOrder(txRing, ptpPool)
      /\ \A d \in Item : reply[d] # None <=> d \in Pool!InUse(ptpPool)
      /\ own \subseteq Pool!InUse(ptpPool)
  BY DEF IInv, TransmitOrder, SignalingLocals
<1>2. new \in Reply
  BY DEF Reply, Datagram
<1>3. CASE ~Pool!HasFree(ptpPool)
  <2>1. /\ pc' = refused
        /\ UNCHANGED <<ptpPool, txRing, reply, own>>
    BY <1>3 DEF Respond
  <2> QED BY <1>1, <1>3, <2>1 DEF TypeOK, TransmitOrder
<1>4. CASE Pool!HasFree(ptpPool)
  <2>1. /\ Ring!HasRoom(txRing)
        /\ SameOrder(Ring!Put(txRing, item), Pool!Get(ptpPool))
    BY <1>1, <1>4, OrderPut DEF TypeOK
  <2>2. /\ item \in Item
        /\ Pool!Get(ptpPool) \in Pool!Pool
        /\ Pool!InUse(Pool!Get(ptpPool)) = Pool!InUse(ptpPool) \cup {item}
    BY <1>1, <1>4, PoolType, PoolFresh DEF TypeOK
  <2>3. Ring!Put(txRing, item) \in Ring!RingState
    BY <1>1, <2>2, RingType DEF TypeOK
  <2>4. /\ pc' = onward
        /\ ptpPool' = Pool!Get(ptpPool)
        /\ txRing' = Ring!Put(txRing, item)
        /\ reply' = [reply EXCEPT ![item] = new]
        /\ own' = own \cup {item}
    BY <1>4, <2>1 DEF Respond
  <2> HIDE DEF item, new
  <2>5. ASSUME NEW d \in Item
        PROVE  reply'[d] # None <=> d \in Pool!InUse(ptpPool')
    BY <1>1, <1>2, <2>2, <2>4, NoneAssumption DEF TypeOK
  <2>6. TransmitOrder'
    BY <2>1, <2>4, <2>5 DEF TransmitOrder
  <2>7. reply' \in [Item -> Reply \cup {None}]
    BY <1>1, <1>2, <2>4 DEF TypeOK
  <2>8. own' \subseteq Item /\ own' \subseteq Pool!InUse(ptpPool')
    BY <1>1, <2>2, <2>4 DEF TypeOK
  <2> QED BY <1>4, <2>2, <2>3, <2>4, <2>6, <2>7, <2>8 DEF item
<1> QED BY <1>3, <1>4

\* Handlers leave the request's buffer alone.
LEMMA RequestKept ==
  ASSUME IInv,
         pc \in {"delay_request", "signaling", "tlv", "management", "failed"},
         pc' \in {"tlv", "failed", "release"},
         UNCHANGED <<udpPool, rxRing, datagram, request>>
  PROVE  RequestBuffers'
BY DEF IInv, RequestBuffers

\* The handlers that queue one reply and are done.
LEMMA SingleReplyInvariant ==
  ASSUME IInv, HandleDelayRequest \/ HandleManagement \/ GeneralError
  PROVE  IInv'
<1>1. /\ pc \in {"delay_request", "management", "failed"}
      /\ UNCHANGED <<sendtoFails, udpPool, rxRing, datagram, request, response,
                     tlv>>
      /\ \E kind \in ReplyKind, ready \in BOOLEAN :
           IF pc = "failed" THEN Respond(kind, ready, "release", "release")
                            ELSE Respond(kind, ready, "release", "failed")
  BY DEF HandleDelayRequest, HandleManagement, GeneralError, ReplyKind
<1>2. request \in Item /\ datagram[request] \in Datagram
  BY <1>1, RequestInHand
<1>3. "release" \in Control /\ "failed" \in Control
  BY DEF Control
<1>4. /\ ptpPool' \in Pool!Pool
      /\ txRing' \in Ring!RingState
      /\ reply' \in [Item -> Reply \cup {None}]
      /\ own' \subseteq Item
      /\ TransmitOrder'
      /\ own' \subseteq Pool!InUse(ptpPool')
      /\ own \subseteq own'
      /\ Pool!HasFree(ptpPool) => pc' = "release" /\ own' # {}
      /\ ~Pool!HasFree(ptpPool) /\ pc = "failed" => pc' = "release"
      /\ pc' \in {"release", "failed"}
  <2>1. PICK kind \in ReplyKind, ready \in BOOLEAN :
          IF pc = "failed" THEN Respond(kind, ready, "release", "release")
                           ELSE Respond(kind, ready, "release", "failed")
    BY <1>1
  <2>2. CASE pc = "failed"
    <3>1. Respond(kind, ready, "release", "release")
      BY <2>1, <2>2
    <3> QED BY <1>2, <1>3, <2>2, <3>1, RespondEffect
  <2>3. CASE pc # "failed"
    <3>1. Respond(kind, ready, "release", "failed")
      BY <2>1, <2>3
    <3> QED BY <1>2, <1>3, <2>3, <3>1, RespondEffect
  <2> QED BY <2>2, <2>3
<1>5. /\ pc \in {"delay_request", "management"} => Pool!HasFree(ptpPool)
      /\ pc = "failed" => own # {} \/ Pool!HasFree(ptpPool)
      /\ TypeOK
  BY DEF IInv, AnswerRoom
<1>6. pc' = "release" /\ own' # {}
  BY <1>1, <1>4, <1>5
<1>7. TypeOK'
  BY <1>1, <1>3, <1>4, <1>5 DEF TypeOK
<1>8. RequestBuffers'
  BY <1>1, <1>6, RequestKept
<1>9. AnswerRoom' /\ SignalingLocals' /\ NeverOutOfOrder'
  BY <1>4, <1>6 DEF AnswerRoom, EveryRequestAnswered, SignalingLocals,
     NeverOutOfOrder
<1> QED BY <1>4, <1>7, <1>8, <1>9 DEF IInv

\* The signaling handler queues its own reply and enters its loop with it.
LEMMA SignalingStartInvariant ==
  ASSUME IInv, SignalingStart
  PROVE  IInv'
<1> DEFINE item == Pool!NextFree(ptpPool)
<1>1. /\ pc = "signaling"
      /\ Respond("signaling", FALSE, "tlv", "failed")
      /\ response' = IF Pool!HasFree(ptpPool) THEN item ELSE None
      /\ UNCHANGED <<sendtoFails, udpPool, rxRing, datagram, request, tlv>>
  BY DEF SignalingStart
<1>2. request \in Item /\ datagram[request] \in Datagram
  BY <1>1, RequestInHand
<1>3. /\ TypeOK
      /\ Pool!HasFree(ptpPool)
      /\ "signaling" \in ReplyKind /\ "tlv" \in Control /\ "failed" \in Control
  BY <1>1 DEF IInv, AnswerRoom, ReplyKind, Control
<1>4. /\ pc' = "tlv"
      /\ ptpPool' \in Pool!Pool
      /\ txRing' \in Ring!RingState
      /\ reply' \in [Item -> Reply \cup {None}]
      /\ own' \subseteq Item
      /\ TransmitOrder'
      /\ own' \subseteq Pool!InUse(ptpPool')
      /\ item \in own'
  BY <1>1, <1>2, <1>3, RespondEffect
<1>5. response' = item /\ item \in Item
  BY <1>1, <1>3, PoolType DEF TypeOK
<1> HIDE DEF item
<1>6. TypeOK'
  BY <1>1, <1>3, <1>4, <1>5 DEF TypeOK
<1>7. RequestBuffers'
  BY <1>1, <1>4, RequestKept
<1>8. tlv' <= datagram'[request'].tlvs
  <2>1. tlv = 0
    BY <1>1 DEF IInv, SignalingLocals
  <2>2. datagram[request].tlvs \in 0..MaxTlv
    BY <1>2 DEF Datagram
  <2> QED BY <1>1, <2>1, <2>2, DataAssumption
<1>9. AnswerRoom' /\ SignalingLocals' /\ NeverOutOfOrder'
  BY <1>4, <1>5, <1>8 DEF AnswerRoom, EveryRequestAnswered, SignalingLocals,
     NeverOutOfOrder
<1> QED BY <1>4, <1>6, <1>7, <1>9 DEF IInv

\* A TLV answered by a message of its own: the loop goes on, or the handler
\* fails when no buffer is left.
LEMMA TlvReplyInvariant ==
  ASSUME IInv, TlvDenied \/ TlvGranted
  PROVE  IInv'
<1>1. PICK kind \in ReplyKind : Respond(kind, TRUE, "tlv", "failed")
  BY DEF TlvDenied, TlvGranted, ReplyKind
<1>2. /\ pc = "tlv"
      /\ tlv < datagram[request].tlvs
      /\ tlv' = tlv + 1
      /\ UNCHANGED <<sendtoFails, udpPool, rxRing, datagram, request, response>>
  BY DEF TlvDenied, TlvGranted, InTlvLoop
<1>3. request \in Item /\ datagram[request] \in Datagram
  BY <1>2, RequestInHand
<1>4. /\ TypeOK
      /\ response \in own
      /\ own \subseteq Pool!InUse(ptpPool)
      /\ "tlv" \in Control /\ "failed" \in Control
  BY <1>2 DEF IInv, SignalingLocals, Control
<1>5. /\ pc' \in {"tlv", "failed"}
      /\ ptpPool' \in Pool!Pool
      /\ txRing' \in Ring!RingState
      /\ reply' \in [Item -> Reply \cup {None}]
      /\ own' \subseteq Item
      /\ TransmitOrder'
      /\ own' \subseteq Pool!InUse(ptpPool')
      /\ own \subseteq own'
  BY <1>1, <1>3, <1>4, RespondEffect
<1>6. tlv' \in 0..MaxTlv /\ tlv' <= datagram'[request'].tlvs
  <2>1. datagram[request].tlvs \in 0..MaxTlv /\ tlv \in 0..MaxTlv
    BY <1>3, <1>4 DEF Datagram, TypeOK
  <2> QED BY <1>2, <2>1, DataAssumption
<1>7. TypeOK'
  BY <1>2, <1>4, <1>5, <1>6 DEF TypeOK
<1>8. RequestBuffers'
  BY <1>2, <1>5, RequestKept
<1>9. AnswerRoom' /\ SignalingLocals' /\ NeverOutOfOrder'
  BY <1>2, <1>4, <1>5, <1>6 DEF AnswerRoom, EveryRequestAnswered,
     SignalingLocals, NeverOutOfOrder
<1> QED BY <1>5, <1>7, <1>8, <1>9 DEF IInv

\* A TLV that is refused ends the handler; its reply stays unfinished.
LEMMA TlvInvalidInvariant ==
  ASSUME IInv, TlvInvalid
  PROVE  IInv'
<1>1. /\ pc = "tlv" /\ pc' = "failed"
      /\ UNCHANGED <<sendtoFails, udpPool, ptpPool, rxRing, txRing, datagram,
                     reply, request, response, tlv, own>>
  BY DEF TlvInvalid, InTlvLoop
<1>2. TypeOK'
  BY <1>1 DEF IInv, TypeOK, Control
<1>3. RequestBuffers'
  BY <1>1, RequestKept
<1>4. TransmitOrder'
  BY <1>1 DEF IInv, TransmitOrder
<1>5. AnswerRoom' /\ SignalingLocals' /\ NeverOutOfOrder'
  BY <1>1 DEF IInv, AnswerRoom, EveryRequestAnswered, SignalingLocals,
     NeverOutOfOrder
<1> QED BY <1>2, <1>3, <1>4, <1>5 DEF IInv

\* The signaling reply is finished in its buffer, which is still in use.
LEMMA SignalingFinishInvariant ==
  ASSUME IInv, SignalingFinish
  PROVE  IInv'
<1>1. /\ pc = "tlv" /\ pc' = "release"
      /\ reply' = [reply EXCEPT ![response].ready = TRUE]
      /\ UNCHANGED <<sendtoFails, udpPool, ptpPool, rxRing, txRing, datagram,
                     request, response, tlv, own>>
  BY DEF SignalingFinish
<1>2. /\ TypeOK /\ TransmitOrder
      /\ response \in own
      /\ own \subseteq Pool!InUse(ptpPool)
      /\ own \subseteq Item
  BY <1>1 DEF IInv, SignalingLocals, TypeOK
<1>3. reply[response] # None /\ response \in Item
  BY <1>2 DEF TransmitOrder
<1>4. reply[response] \in Reply
  BY <1>2, <1>3 DEF TypeOK
<1>5. [reply[response] EXCEPT !.ready = TRUE] \in Reply
  BY <1>4 DEF Reply
<1>6. /\ reply' \in [Item -> Reply \cup {None}]
      /\ \A d \in Item : reply'[d] # None <=> reply[d] # None
  BY <1>1, <1>2, <1>3, <1>5, NoneAssumption DEF TypeOK
<1>7. TypeOK'
  BY <1>1, <1>2, <1>6 DEF TypeOK, Control
<1>8. RequestBuffers'
  BY <1>1, RequestKept
<1>9. TransmitOrder'
  BY <1>1, <1>2, <1>6 DEF TransmitOrder
<1>10. AnswerRoom' /\ SignalingLocals' /\ NeverOutOfOrder'
  BY <1>1, <1>2 DEF IInv, AnswerRoom, EveryRequestAnswered, SignalingLocals,
     NeverOutOfOrder
<1> QED BY <1>7, <1>8, <1>9, <1>10 DEF IInv

\* The request's buffer comes back in order: it is the only one in use.
LEMMA ReleaseInvariant ==
  ASSUME IInv, ReleaseRequest
  PROVE  IInv'
<1>1. /\ pc = "release"
      /\ udpPool' = Pool!Put(udpPool)
      /\ datagram' = [datagram EXCEPT ![request] = None]
      /\ pc' = IF Pool!InOrder(udpPool, request) THEN "drain" ELSE "aborted"
      /\ request' = None /\ response' = None /\ tlv' = 0 /\ own' = {}
      /\ UNCHANGED <<sendtoFails, ptpPool, rxRing, txRing, reply>>
  BY DEF ReleaseRequest
<1>2. /\ TypeOK
      /\ request \in Item
      /\ Pool!Held(udpPool) = 1
      /\ request = Pool!HeldAt(udpPool, 1)
      /\ Ring!IsEmpty(rxRing)
      /\ \A d \in Item : datagram[d] # None <=> d \in Pool!InUse(udpPool)
  BY <1>1, RequestInHand DEF IInv, RequestBuffers
<1>3. /\ Pool!Put(udpPool) \in Pool!Pool
      /\ Pool!Held(Pool!Put(udpPool)) = 0
      /\ Pool!InOrder(udpPool, request)
      /\ Pool!InUse(Pool!Put(udpPool)) = Pool!InUse(udpPool) \ {request}
  <2>1. Pool!Held(udpPool) >= 1
    BY <1>2
  <2>2. Pool!Put(udpPool) \in Pool!Pool
    BY <1>2, PoolType DEF TypeOK
  <2>3. /\ Pool!Held(Pool!Put(udpPool)) = 0
        /\ Pool!InOrder(udpPool, request)
    BY <1>2, <2>1, PoolPut DEF TypeOK
  <2>4. Pool!InUse(Pool!Put(udpPool)) = Pool!InUse(udpPool) \ {request}
    BY <1>2, <2>1, PoolReturned DEF TypeOK
  <2> QED BY <2>2, <2>3, <2>4
<1>4. pc' = "drain"
  BY <1>1, <1>3
<1>5. TypeOK'
  BY <1>1, <1>2, <1>3, <1>4, DataAssumption DEF TypeOK, Control
<1>6. \A d \in Item : datagram'[d] # None <=> d \in Pool!InUse(udpPool')
  BY <1>1, <1>2, <1>3 DEF TypeOK
<1>7. RequestBuffers'
  BY <1>1, <1>2, <1>3, <1>4, <1>6 DEF RequestBuffers
<1>8. TransmitOrder'
  BY <1>1 DEF IInv, TransmitOrder
<1>9. AnswerRoom' /\ SignalingLocals' /\ NeverOutOfOrder'
  BY <1>1, <1>4 DEF AnswerRoom, EveryRequestAnswered, SignalingLocals,
     NeverOutOfOrder
<1> QED BY <1>5, <1>7, <1>8, <1>9 DEF IInv

\* A reply that leaves returns the oldest buffer, and makes room.
LEMMA DequeueInvariant ==
  ASSUME IInv, SendReply \/ SendFails \/ DropUnfinished
  PROVE  IInv'
<1> DEFINE item == Ring!First(txRing)
<1>1. /\ pc = "drain" /\ ~Ring!IsEmpty(txRing)
      /\ txRing' = Ring!Get(txRing)
      /\ ptpPool' = Pool!Put(ptpPool)
      /\ reply' = [reply EXCEPT ![item] = None]
      /\ pc' \in {"drain", "idle"} \/ ~Pool!InOrder(ptpPool, item)
      /\ UNCHANGED <<sendtoFails, udpPool, rxRing, datagram, request, response,
                     tlv, own>>
  BY DEF SendReply, SendFails, DropUnfinished, Dequeuing, Dequeue
<1>2. /\ TypeOK /\ SameOrder(txRing, ptpPool)
      /\ \A d \in Item : reply[d] # None <=> d \in Pool!InUse(ptpPool)
      /\ own = {} /\ tlv = 0
      /\ Pool!Held(udpPool) = 0 /\ Ring!IsEmpty(rxRing)
  BY <1>1 DEF IInv, TransmitOrder, AnswerRoom, RequestBuffers,
     SignalingLocals
<1>3. /\ Pool!Held(ptpPool) >= 1
      /\ item = Pool!HeldAt(ptpPool, 1)
      /\ Pool!InOrder(ptpPool, item)
      /\ SameOrder(Ring!Get(txRing), Pool!Put(ptpPool))
  BY <1>1, <1>2, OrderGet DEF TypeOK
<1>4. /\ Ring!Get(txRing) \in Ring!RingState
      /\ Pool!Put(ptpPool) \in Pool!Pool
      /\ Pool!InUse(Pool!Put(ptpPool)) = Pool!InUse(ptpPool) \ {item}
  BY <1>2, <1>3, RingType, PoolType, PoolReturned DEF TypeOK
<1>5. Pool!HasFree(Pool!Put(ptpPool))
  <2>1. Pool!Held(ptpPool) \in 0..(PoolSize - 1)
    BY <1>2, PoolType DEF TypeOK
  <2>2. Pool!Held(Pool!Put(ptpPool)) = Pool!Held(ptpPool) - 1
    BY <1>2, <1>3, PoolPut DEF TypeOK
  <2> QED BY <1>4, <2>1, <2>2, PoolGet, SizeAssumption
<1> HIDE DEF item
<1>6. pc' \in {"drain", "idle"}
  BY <1>1, <1>3
<1>7. TypeOK'
  BY <1>1, <1>2, <1>4, <1>6 DEF TypeOK, Control
<1>8. \A d \in Item : reply'[d] # None <=> d \in Pool!InUse(ptpPool')
  BY <1>1, <1>2, <1>4 DEF TypeOK
<1>9. TransmitOrder'
  BY <1>1, <1>3, <1>8 DEF TransmitOrder
<1>10. RequestBuffers'
  BY <1>1, <1>6 DEF IInv, RequestBuffers
<1>11. AnswerRoom' /\ SignalingLocals' /\ NeverOutOfOrder'
  BY <1>1, <1>2, <1>5, <1>6 DEF AnswerRoom, EveryRequestAnswered,
     SignalingLocals, NeverOutOfOrder
<1> QED BY <1>7, <1>9, <1>10, <1>11 DEF IInv

\* With the ring empty the pool is unused.
LEMMA DrainEndsInvariant ==
  ASSUME IInv, DrainEnds
  PROVE  IInv'
<1>1. /\ pc = "drain" /\ pc' = "idle" /\ Ring!IsEmpty(txRing)
      /\ UNCHANGED <<sendtoFails, udpPool, ptpPool, rxRing, txRing, datagram,
                     reply, request, response, tlv, own>>
  BY DEF DrainEnds
<1>2. TypeOK /\ TransmitOrder /\ own = {} /\ tlv = 0
  BY <1>1 DEF IInv, AnswerRoom, SignalingLocals
<1>3. Pool!HasFree(ptpPool)
  <2>1. Pool!Held(ptpPool) = 0
    BY <1>1, <1>2, RingType DEF TypeOK, TransmitOrder, SameOrder
  <2> QED BY <1>2, <2>1, PoolGet, SizeAssumption DEF TypeOK
<1>4. TypeOK'
  BY <1>1, <1>2 DEF TypeOK, Control
<1>5. RequestBuffers' /\ TransmitOrder'
  BY <1>1, <1>2 DEF IInv, RequestBuffers, TransmitOrder
<1>6. AnswerRoom' /\ SignalingLocals' /\ NeverOutOfOrder'
  BY <1>1, <1>2, <1>3 DEF AnswerRoom, EveryRequestAnswered, SignalingLocals,
     NeverOutOfOrder
<1> QED BY <1>4, <1>5, <1>6 DEF IInv

-----------------------------------------------------------------------------
(* The theorems. *)

\* Every step keeps the inductive invariant.
LEMMA NextInvariant == IInv /\ [Next]_vars => IInv'
<1> SUFFICES ASSUME IInv, [Next]_vars PROVE IInv'
  OBVIOUS
<1>1. CASE UNCHANGED vars
  BY <1>1 DEF vars, IInv, TypeOK, TransmitOrder, RequestBuffers,
     NeverOutOfOrder, AnswerRoom, EveryRequestAnswered, SignalingLocals
<1>2. CASE UdpPoll
  BY <1>2, ReceiveInvariant, ReceiveFailsInvariant DEF UdpPoll
<1>3. CASE Handler
  BY <1>3, HandleInvariant, SingleReplyInvariant, SignalingStartInvariant,
     TlvReplyInvariant, TlvInvalidInvariant, SignalingFinishInvariant,
     ReleaseInvariant DEF Handler
<1>4. CASE Transmit
  BY <1>4, DequeueInvariant, DrainEndsInvariant DEF Transmit
<1> QED BY <1>1, <1>2, <1>3, <1>4 DEF Next

LEMMA Invariant == Spec => []IInv
BY InitInvariant, NextInvariant, PTL DEF Spec

\* Every variable keeps its type, for every size of pool and ring.
THEOREM TypeCorrect == Spec => []TypeOK
<1>1. IInv => TypeOK
  BY DEF IInv
<1> QED BY <1>1, Invariant, PTL

\* The transmit ring always lists the ptp pool's buffers in use, oldest first.
THEOREM TransmitOrderHolds == Spec => []TransmitOrder
<1>1. IInv => TransmitOrder
  BY DEF IInv
<1> QED BY <1>1, Invariant, PTL

\* No path loses a request's buffer: between polls the udp pool is unused.
THEOREM RequestBuffersHolds == Spec => []RequestBuffers
<1>1. IInv => RequestBuffers
  BY DEF IInv
<1> QED BY <1>1, Invariant, PTL

\* util_mempool_put never finds a buffer out of order, so the server does not
\* exit there.
THEOREM NeverOutOfOrderHolds == Spec => []NeverOutOfOrder
<1>1. IInv => NeverOutOfOrder
  BY DEF IInv
<1> QED BY <1>1, Invariant, PTL

\* Every poll leaves a reply buffer for the next request.
THEOREM IdleHasRoomHolds == Spec => []IdleHasRoom
<1>1. IInv => IdleHasRoom
  BY DEF IInv, AnswerRoom, IdleHasRoom
<1> QED BY <1>1, Invariant, PTL

\* Every request but the ignored kinds gets a reply queued.
THEOREM EveryRequestAnsweredHolds == Spec => []EveryRequestAnswered
<1>1. IInv => EveryRequestAnswered
  BY DEF IInv, AnswerRoom
<1> QED BY <1>1, Invariant, PTL

-----------------------------------------------------------------------------
(* The transmission path implements ReplyQueue: seen through the transmit   *)
(* ring and the descriptors it points to, the replies form one bounded      *)
(* queue, and every step of the server adds a reply at its back, finishes   *)
(* one in place, takes one from its front, or leaves it alone.              *)
(*                                                                          *)
(* Then what can be left in that queue: which replies are never finished,   *)
(* and which are stranded behind them (StrandingInv, which is inductive     *)
(* together with IInv).                                                     *)

\* The queue's length and elements, by way of the pool.
QueueOfPool ==
  /\ TransmitQueue \in Seq(Reply)
  /\ Len(TransmitQueue) = Pool!Held(ptpPool)
  /\ \A k \in 1..Pool!Held(ptpPool) :
       TransmitQueue[k] = reply[Pool!HeldAt(ptpPool, k)]

\* In every state of the server that is what the transmission queue is.
LEMMA QueueView == IInv => QueueOfPool
<1> SUFFICES ASSUME IInv PROVE QueueOfPool
  OBVIOUS
<1> DEFINE n == Pool!Held(ptpPool)
<1>1. /\ TypeOK
      /\ n \in 0..(PoolSize - 1)
      /\ Ring!Occupied(txRing) = n
      /\ \A k \in 1..n : Ring!At(txRing, k) = Pool!HeldAt(ptpPool, k)
      /\ \A d \in Item : reply[d] # None <=> d \in Pool!InUse(ptpPool)
  BY PoolType DEF IInv, TypeOK, TransmitOrder, SameOrder
<1>2. ASSUME NEW k \in 1..n
      PROVE  reply[Ring!At(txRing, k)] \in Reply
  <2>1. /\ Pool!HeldAt(ptpPool, k) \in Item
        /\ Pool!HeldAt(ptpPool, k) \in Pool!InUse(ptpPool)
    BY <1>1, PoolType DEF TypeOK, Pool!InUse
  <2> QED BY <1>1, <2>1 DEF TypeOK
<1>3. TransmitQueue = [k \in 1..n |-> reply[Ring!At(txRing, k)]]
  BY <1>1 DEF TransmitQueue
<1> HIDE DEF n
<1>4. n \in Nat
  BY <1>1, SizeAssumption
<1>5. /\ TransmitQueue \in Seq(Reply)
      /\ Len(TransmitQueue) = n
      /\ \A k \in 1..n : TransmitQueue[k] = reply[Pool!HeldAt(ptpPool, k)]
  BY <1>1, <1>2, <1>3, <1>4
<1> QED BY <1>5 DEF n, QueueOfPool

\* The same of the state after a step.
LEMMA QueueViewNext == IInv' => QueueOfPool'
BY QueueView, PTL

\* Steps that touch neither the ring nor a reply leave the queue alone.
LEMMA QueueAlone ==
  ASSUME UNCHANGED <<txRing, reply>>
  PROVE  UNCHANGED TransmitQueue
BY DEF TransmitQueue

\* A reply that is queued joins at the back; a handler that finds no buffer
\* leaves the queue alone.
LEMMA QueueAccept ==
  ASSUME IInv, IInv', NEW kind \in ReplyKind, NEW ready \in BOOLEAN,
         NEW onward \in Control, NEW refused \in Control,
         request \in Item, datagram[request] \in Datagram,
         Respond(kind, ready, onward, refused)
  PROVE  Queue!Accept \/ UNCHANGED TransmitQueue
<1> DEFINE item == Pool!NextFree(ptpPool)
           n == Pool!Held(ptpPool)
           new == [kind |-> kind, client |-> datagram[request].client,
                   ready |-> ready]
<1>1. CASE ~Pool!HasFree(ptpPool)
  <2>1. UNCHANGED <<txRing, reply>>
    BY <1>1 DEF Respond
  <2> QED BY <2>1, QueueAlone
<1>2. CASE Pool!HasFree(ptpPool)
  <2>1. /\ TypeOK /\ SameOrder(txRing, ptpPool)
        /\ n \in 0..(PoolSize - 1)
        /\ n < PoolSize - 1
        /\ item \in Item
        /\ item \notin Pool!InUse(ptpPool)
    BY <1>2, PoolType, PoolGet, PoolFresh DEF IInv, TypeOK, TransmitOrder
  <2>2. /\ ptpPool' = Pool!Get(ptpPool)
        /\ reply' = [reply EXCEPT ![item] = new]
    BY <1>2, <2>1, OrderPut DEF Respond, TypeOK
  <2>3. /\ Pool!Held(ptpPool') = n + 1
        /\ \A k \in 1..n : Pool!HeldAt(ptpPool', k) = Pool!HeldAt(ptpPool, k)
        /\ Pool!HeldAt(ptpPool', n + 1) = item
    BY <1>2, <2>1, <2>2, PoolGet DEF TypeOK
  <2>4. new \in Reply
    BY DEF Reply, Datagram
  <2>5. /\ TransmitQueue \in Seq(Reply)
        /\ Len(TransmitQueue) = n
        /\ \A k \in 1..n : TransmitQueue[k] = reply[Pool!HeldAt(ptpPool, k)]
    BY QueueView DEF QueueOfPool
  <2>6. /\ TransmitQueue' \in Seq(Reply)
        /\ Len(TransmitQueue') = n + 1
        /\ \A k \in 1..(n + 1) :
             TransmitQueue'[k] = reply'[Pool!HeldAt(ptpPool', k)]
    <3>1. /\ TransmitQueue' \in Seq(Reply)
          /\ Len(TransmitQueue') = Pool!Held(ptpPool')
          /\ \A k \in 1..Pool!Held(ptpPool') :
               TransmitQueue'[k] = reply'[Pool!HeldAt(ptpPool', k)]
      BY QueueViewNext DEF QueueOfPool
    <3> QED BY <3>1, <2>3
  <2>7. ASSUME NEW k \in 1..n
        PROVE  TransmitQueue'[k] = TransmitQueue[k]
    <3>1. /\ Pool!HeldAt(ptpPool, k) \in Item
          /\ Pool!HeldAt(ptpPool, k) \in Pool!InUse(ptpPool)
      BY <2>1, PoolType DEF TypeOK, Pool!InUse
    <3>2. k \in 1..(n + 1)
      BY <2>1, SizeAssumption
    <3> HIDE DEF item, n, new
    <3> QED BY <2>1, <2>2, <2>3, <2>5, <2>6, <3>1, <3>2 DEF TypeOK
  <2>8. TransmitQueue'[n + 1] = new
    <3>1. n + 1 \in 1..(n + 1)
      BY <2>1, SizeAssumption
    <3> HIDE DEF item, n, new
    <3> QED BY <2>1, <2>2, <2>3, <2>6, <3>1 DEF TypeOK
  <2> HIDE DEF item, n, new
  <2>9. TransmitQueue' = Append(TransmitQueue, new)
    BY <2>1, <2>4, <2>5, <2>6, <2>7, <2>8, SizeAssumption
  <2> QED BY <2>1, <2>4, <2>5, <2>9, SizeAssumption DEF Queue!Accept
<1> QED BY <1>1, <1>2

\* Finishing the signaling reply finishes one reply of the queue in place; if
\* it was finished already nothing changes.
LEMMA QueueFinish ==
  ASSUME IInv, IInv', SignalingFinish
  PROVE  Queue!Finish \/ UNCHANGED TransmitQueue
<1> DEFINE n == Pool!Held(ptpPool)
           slot(k) == Pool!HeldAt(ptpPool, k)
<1>1. /\ TypeOK /\ n \in 0..(PoolSize - 1)
      /\ \A k \in 1..n : slot(k) \in Item
      /\ response \in Pool!InUse(ptpPool)
  BY PoolType DEF IInv, TypeOK, SignalingLocals, SignalingFinish
<1>2. PICK i \in 1..n : slot(i) = response
  BY <1>1 DEF Pool!InUse
<1>3. /\ ptpPool' = ptpPool
      /\ reply' = [reply EXCEPT ![response].ready = TRUE]
  BY DEF SignalingFinish
<1>4. /\ TransmitQueue \in Seq(Reply)
      /\ Len(TransmitQueue) = n
      /\ \A k \in 1..n : TransmitQueue[k] = reply[slot(k)]
  BY QueueView DEF QueueOfPool
<1>5. /\ TransmitQueue' \in Seq(Reply)
      /\ Len(TransmitQueue') = n
      /\ \A k \in 1..n : TransmitQueue'[k] = reply'[slot(k)]
  BY <1>3, QueueViewNext DEF QueueOfPool
<1>6. \A k \in 1..n : k # i => slot(k) # response
  BY <1>1, <1>2, PoolDistinct DEF TypeOK
<1> HIDE DEF n, slot
<1>7. /\ \A k \in 1..n : k # i => TransmitQueue'[k] = TransmitQueue[k]
      /\ TransmitQueue'[i] = [TransmitQueue[i] EXCEPT !.ready = TRUE]
  BY <1>1, <1>2, <1>3, <1>4, <1>5, <1>6 DEF TypeOK
<1>8. TransmitQueue' = [TransmitQueue EXCEPT ![i].ready = TRUE]
  BY <1>1, <1>2, <1>4, <1>5, <1>7
<1>9. TransmitQueue[i] \in Reply
  BY <1>2, <1>4
<1>10. CASE ~TransmitQueue[i].ready
  BY <1>2, <1>4, <1>8, <1>10 DEF Queue!Finish
<1>11. CASE TransmitQueue[i].ready
  <2>1. [TransmitQueue[i] EXCEPT !.ready = TRUE] = TransmitQueue[i]
    BY <1>9, <1>11 DEF Reply
  <2>2. \A k \in 1..n : TransmitQueue'[k] = TransmitQueue[k]
    BY <2>1, <1>7
  <2>3. TransmitQueue' = TransmitQueue
    BY <2>2, <1>1, <1>4, <1>5
  <2> QED BY <2>3
<1> QED BY <1>10, <1>11

\* A reply that is sent or dropped is the one at the front.
LEMMA QueueDepart ==
  ASSUME IInv, IInv', NEW next \in Control, pc = "drain",
         ~Ring!IsEmpty(txRing), Dequeue(next)
  PROVE  Queue!Depart
<1> DEFINE n == Pool!Held(ptpPool)
<1>1. /\ TypeOK /\ n \in 0..(PoolSize - 1)
      /\ n >= 1
      /\ Ring!First(txRing) = Pool!HeldAt(ptpPool, 1)
  BY PoolType, RingType, OrderGet DEF IInv, TypeOK, TransmitOrder, SameOrder
<1>2. /\ ptpPool' = Pool!Put(ptpPool)
      /\ reply' = [reply EXCEPT ![Pool!HeldAt(ptpPool, 1)] = None]
  BY <1>1 DEF Dequeue
<1>3. /\ Pool!Held(ptpPool') = n - 1
      /\ \A k \in 1..(n - 1) :
           Pool!HeldAt(ptpPool', k) = Pool!HeldAt(ptpPool, k + 1)
  BY <1>1, <1>2, PoolPut DEF TypeOK
<1>4. /\ TransmitQueue \in Seq(Reply)
      /\ Len(TransmitQueue) = n
      /\ \A k \in 1..n : TransmitQueue[k] = reply[Pool!HeldAt(ptpPool, k)]
  BY QueueView DEF QueueOfPool
<1>5. /\ TransmitQueue' \in Seq(Reply)
      /\ Len(TransmitQueue') = n - 1
      /\ \A k \in 1..(n - 1) :
           TransmitQueue'[k] = reply'[Pool!HeldAt(ptpPool', k)]
  BY <1>3, QueueViewNext DEF QueueOfPool
<1>6. ASSUME NEW k \in 1..(n - 1)
      PROVE  TransmitQueue'[k] = TransmitQueue[k + 1]
  <2>1. k + 1 \in 1..n /\ k + 1 # 1 /\ 1 \in 1..n
    BY <1>1, SizeAssumption
  <2>2. /\ Pool!HeldAt(ptpPool, k + 1) # Pool!HeldAt(ptpPool, 1)
        /\ Pool!HeldAt(ptpPool, k + 1) \in Item
    BY <1>1, <2>1, PoolDistinct, PoolType DEF TypeOK
  <2> HIDE DEF n
  <2> QED BY <1>1, <1>2, <1>3, <1>4, <1>5, <2>1, <2>2 DEF TypeOK
<1> HIDE DEF n
<1>7. TransmitQueue' = Tail(TransmitQueue)
  BY <1>1, <1>4, <1>5, <1>6, SizeAssumption
<1>8. TransmitQueue # <<>>
  BY <1>1, <1>4, SizeAssumption
<1> QED BY <1>7, <1>8 DEF Queue!Depart

\* The server starts with nothing to send.
LEMMA QueueInit == Init => Queue!Init
BY SizeAssumption DEF Init, Ring!Setup, Ring!Occupied, TransmitQueue, Queue!Init

\* Every step of the server is a step of the queue or leaves it alone.
LEMMA QueueStep ==
  ASSUME IInv, IInv', [Next]_vars
  PROVE  [Queue!Next]_TransmitQueue
<1> SUFFICES Queue!Next \/ UNCHANGED TransmitQueue
  OBVIOUS
<1>1. ASSUME pc \in {"delay_request", "management", "signaling", "tlv", "failed"}
      PROVE  request \in Item /\ datagram[request] \in Datagram
  BY <1>1, RequestInHand DEF IInv
<1>2. CASE UNCHANGED vars
  BY <1>2, QueueAlone DEF vars
<1>3. CASE UdpPoll
  BY <1>3, QueueAlone DEF UdpPoll, UdpReceiveMessage, UdpReceiveFails
<1>4. CASE PtpHandleMessage \/ TlvInvalid \/ ReleaseRequest \/ DrainEnds
  BY <1>4, QueueAlone DEF PtpHandleMessage, TlvInvalid, ReleaseRequest, DrainEnds
<1>5. CASE HandleDelayRequest
  BY <1>1, <1>5, QueueAccept DEF HandleDelayRequest, ReplyKind, Control, Queue!Next
<1>6. CASE HandleManagement
  BY <1>1, <1>6, QueueAccept DEF HandleManagement, ReplyKind, Control, Queue!Next
<1>7. CASE SignalingStart
  BY <1>1, <1>7, QueueAccept DEF SignalingStart, ReplyKind, Control, Queue!Next
<1>8. CASE TlvDenied \/ TlvGranted
  BY <1>1, <1>8, QueueAccept
     DEF TlvDenied, TlvGranted, InTlvLoop, ReplyKind, Control, Queue!Next
<1>9. CASE SignalingFinish
  BY <1>9, QueueFinish DEF Queue!Next
<1>10. CASE GeneralError
  BY <1>1, <1>10, QueueAccept DEF GeneralError, ReplyKind, Control, Queue!Next
<1>11. CASE SendReply \/ SendFails \/ DropUnfinished
  BY <1>11, QueueDepart
     DEF SendReply, SendFails, DropUnfinished, Dequeuing, Control, Queue!Next
<1> QED BY <1>2, <1>3, <1>4, <1>5, <1>6, <1>7, <1>8, <1>9, <1>10, <1>11
        DEF Next, Handler, Transmit

\* The transmission path implements ReplyQueue: replies leave in the order in
\* which they were queued, none is lost, doubled or altered while it waits.
THEOREM ImplementsReplyQueue == Spec => IsReplyQueue
<1>1. Init => Queue!Init
  BY QueueInit
<1>2. IInv /\ IInv' /\ [Next]_vars => [Queue!Next]_TransmitQueue
  BY QueueStep
<1>3. Spec => []IInv
  BY Invariant
<1> QED BY <1>1, <1>2, <1>3, PTL DEF Spec, IsReplyQueue, Queue!Spec

-----------------------------------------------------------------------------
(* Replies that are left unfinished, and what is stranded behind them. *)

\* The places in the ring, and what is there.
LEMMA Places ==
  ASSUME IInv
  PROVE  /\ Pool!Held(ptpPool) \in Nat
         /\ \A k \in Replies :
              /\ k \in Nat /\ k >= 1 /\ k <= Pool!Held(ptpPool)
              /\ Pool!HeldAt(ptpPool, k) \in Item
              /\ Waiting(k) \in Reply
              /\ \A j \in Replies :
                   Pool!HeldAt(ptpPool, j) = Pool!HeldAt(ptpPool, k) => j = k
<1>1. /\ TypeOK /\ ptpPool \in Pool!Pool
      /\ \A d \in Item : reply[d] # None <=> d \in Pool!InUse(ptpPool)
  BY DEF IInv, TypeOK, TransmitOrder
<1>2. Pool!Held(ptpPool) \in Nat
  BY <1>1, PoolType, SizeAssumption
<1>3. ASSUME NEW k \in Replies
      PROVE  /\ k \in Nat /\ k >= 1 /\ k <= Pool!Held(ptpPool)
             /\ Pool!HeldAt(ptpPool, k) \in Item
             /\ Waiting(k) \in Reply
             /\ \A j \in Replies :
                  Pool!HeldAt(ptpPool, j) = Pool!HeldAt(ptpPool, k) => j = k
  <2>1. /\ Pool!HeldAt(ptpPool, k) \in Item
        /\ Pool!HeldAt(ptpPool, k) \in Pool!InUse(ptpPool)
    BY <1>1, PoolType DEF Replies, Pool!InUse
  <2>2. Waiting(k) \in Reply
    BY <1>1, <2>1 DEF Waiting, TypeOK
  <2>3. \A j \in Replies :
          Pool!HeldAt(ptpPool, j) = Pool!HeldAt(ptpPool, k) => j = k
    BY <1>1, PoolDistinct DEF Replies
  <2> QED BY <1>2, <2>1, <2>2, <2>3 DEF Replies
<1> QED BY <1>2, <1>3

\* Steps that touch neither a reply nor its place.
LEMMA PlacesKept ==
  ASSUME UNCHANGED <<ptpPool, reply>>
  PROVE  /\ Replies' = Replies
         /\ \A k \in Replies :
              /\ Pool!HeldAt(ptpPool, k)' = Pool!HeldAt(ptpPool, k)
              /\ Waiting(k)' = Waiting(k)
BY DEF Replies, Waiting

\* A reply that is queued stands behind the others.
LEMMA ReplyJoins ==
  ASSUME IInv, NEW kind \in ReplyKind, NEW ready \in BOOLEAN,
         NEW onward \in Control, NEW refused \in Control,
         request \in Item, datagram[request] \in Datagram,
         Respond(kind, ready, onward, refused), Pool!HasFree(ptpPool)
  PROVE  /\ pc' = onward
         /\ Pool!Held(ptpPool)' = Pool!Held(ptpPool) + 1
         /\ \A k \in Replies' : k \in Replies \/ k = Pool!Held(ptpPool) + 1
         /\ \A k \in Replies :
              /\ k \in Replies'
              /\ Pool!HeldAt(ptpPool, k)' = Pool!HeldAt(ptpPool, k)
              /\ Waiting(k)' = Waiting(k)
              /\ Mine(k)' <=> Mine(k)
         /\ \A k : k = Pool!Held(ptpPool) + 1 =>
              /\ k \in Replies' /\ Mine(k)'
              /\ Pool!HeldAt(ptpPool, k)' = Pool!NextFree(ptpPool)
              /\ Waiting(k)' = [kind |-> kind, ready |-> ready,
                               client |-> datagram[request].client]
<1> DEFINE item == Pool!NextFree(ptpPool)
           n == Pool!Held(ptpPool)
           new == [kind |-> kind, client |-> datagram[request].client,
                   ready |-> ready]
<1>1. /\ TypeOK /\ SameOrder(txRing, ptpPool) /\ n \in Nat
      /\ item \in Item /\ item \notin Pool!InUse(ptpPool)
      /\ own \subseteq Pool!InUse(ptpPool)
  BY Places, PoolType, PoolFresh DEF IInv, TypeOK, TransmitOrder, SignalingLocals
<1>2. /\ pc' = onward
      /\ ptpPool' = Pool!Get(ptpPool)
      /\ reply' = [reply EXCEPT ![item] = new]
      /\ own' = own \cup {item}
  BY <1>1, OrderPut DEF Respond, TypeOK
<1>3. /\ Pool!Held(ptpPool') = n + 1
      /\ \A k \in 1..n : Pool!HeldAt(ptpPool', k) = Pool!HeldAt(ptpPool, k)
      /\ Pool!HeldAt(ptpPool', n + 1) = item
  BY <1>1, <1>2, PoolGet DEF TypeOK
<1>4. Replies' = 1..(n + 1) /\ Replies = 1..n
  BY <1>3 DEF Replies
<1>5. ASSUME NEW k \in Replies
      PROVE  /\ k \in Replies'
             /\ Pool!HeldAt(ptpPool, k)' = Pool!HeldAt(ptpPool, k)
             /\ Waiting(k)' = Waiting(k)
             /\ Mine(k)' <=> Mine(k)
  <2>1. /\ Pool!HeldAt(ptpPool, k) \in Pool!InUse(ptpPool)
        /\ Pool!HeldAt(ptpPool, k) \in Item
    BY <1>4, Places DEF Pool!InUse
  <2>2. Pool!HeldAt(ptpPool', k) = Pool!HeldAt(ptpPool, k) /\ k \in Replies'
    BY <1>1, <1>3, <1>4
  <2> HIDE DEF item, n, new
  <2>3. reply'[Pool!HeldAt(ptpPool, k)] = reply[Pool!HeldAt(ptpPool, k)]
    BY <1>1, <1>2, <2>1 DEF TypeOK
  <2> QED BY <1>1, <1>2, <2>1, <2>2, <2>3 DEF Waiting, Mine
<1>6. ASSUME NEW k, k = n + 1
      PROVE  /\ k \in Replies' /\ Mine(k)'
             /\ Pool!HeldAt(ptpPool, k)' = item
             /\ Waiting(k)' = new
  <2>1. Pool!HeldAt(ptpPool', k) = item /\ k \in Replies'
    BY <1>1, <1>3, <1>4, <1>6
  <2> HIDE DEF item, n, new
  <2>2. reply'[item] = new
    BY <1>1, <1>2 DEF TypeOK
  <2> QED BY <1>2, <2>1, <2>2 DEF Waiting, Mine
<1>7. \A k \in Replies' : k \in Replies \/ k = n + 1
  BY <1>1, <1>4
<1> QED BY <1>2, <1>3, <1>5, <1>6, <1>7

\* Outside the handlers no reply is the request's: steps that leave the
\* replies alone keep what others have left in the ring.
LEMMA StrandingOutside ==
  ASSUME IInv, StrandingInv, pc # "drain", pc' # "idle", own = {},
         UNCHANGED <<ptpPool, reply, own, sendtoFails>>
  PROVE  StrandingInv'
<1>1. /\ Replies' = Replies
      /\ \A k \in Replies : Waiting(k)' = Waiting(k)
  BY PlacesKept
<1>2. \A k : ~Mine(k) /\ ~Mine(k)'
  BY DEF Mine
<1>3. LastReplies' /\ UnfinishedReply'
  BY <1>2 DEF LastReplies, UnfinishedReply
<1>4. ~sendtoFails => \A k \in Replies' : Waiting(k)'.ready
  BY <1>1, <1>2 DEF StrandingInv, LeftBehind
<1>5. LeftBehind'
  BY <1>4 DEF LeftBehind
<1> QED BY <1>3, <1>5 DEF StrandingInv

\* A unicast request of the wrong type.
LEMMA StrandingInvalid ==
  ASSUME IInv, StrandingInv, TlvInvalid
  PROVE  StrandingInv'
<1>1. /\ Replies' = Replies
      /\ \A k \in Replies :
           /\ Pool!HeldAt(ptpPool, k)' = Pool!HeldAt(ptpPool, k)
           /\ Waiting(k)' = Waiting(k)
  BY PlacesKept DEF TlvInvalid
<1>2. /\ pc = "tlv" /\ pc' = "failed"
      /\ datagram' = datagram /\ request' = request /\ own' = own
      /\ sendtoFails' = sendtoFails
  BY DEF TlvInvalid, InTlvLoop
<1>3. \A k \in Replies : Mine(k)' <=> Mine(k)
  BY <1>1, <1>2 DEF Mine
<1>4. LastReplies'
  BY <1>1, <1>2, <1>3 DEF StrandingInv, LastReplies
<1>5. UnfinishedReply'
  BY <1>1, <1>2, <1>3 DEF StrandingInv, UnfinishedReply
<1>6. LeftBehind'
  BY <1>1, <1>2, <1>3 DEF StrandingInv, LeftBehind
<1> QED BY <1>4, <1>5, <1>6 DEF StrandingInv

\* The signaling reply is finished: no reply of the request is unfinished.
LEMMA StrandingFinish ==
  ASSUME IInv, StrandingInv, SignalingFinish
  PROVE  StrandingInv'
<1>1. /\ pc = "tlv" /\ pc' = "release"
      /\ reply' = [reply EXCEPT ![response].ready = TRUE]
      /\ ptpPool' = ptpPool /\ datagram' = datagram /\ request' = request
      /\ own' = own /\ sendtoFails' = sendtoFails
  BY DEF SignalingFinish
<1>2. Replies' = Replies
  BY <1>1 DEF Replies
<1>3. ASSUME NEW k \in Replies
      PROVE  /\ Mine(k)' <=> Mine(k)
             /\ Waiting(k)'.client = Waiting(k).client
             /\ Waiting(k).ready => Waiting(k)'.ready
             /\ Pool!HeldAt(ptpPool, k) = response => Waiting(k)'.ready
  <2>1. /\ Pool!HeldAt(ptpPool, k) \in Item
        /\ reply[Pool!HeldAt(ptpPool, k)] \in Reply
        /\ reply \in [Item -> Reply \cup {None}]
    BY Places DEF Waiting, IInv, TypeOK
  <2>2. Waiting(k)' = reply'[Pool!HeldAt(ptpPool, k)]
    BY <1>1 DEF Waiting
  <2>3. Mine(k)' <=> Mine(k)
    BY <1>1 DEF Mine
  <2>4. CASE Pool!HeldAt(ptpPool, k) = response
    <3>1. reply'[response] = [reply[response] EXCEPT !.ready = TRUE]
      BY <1>1, <2>1, <2>4
    <3> QED BY <2>1, <2>2, <2>3, <2>4, <3>1 DEF Waiting, Reply
  <2>5. CASE Pool!HeldAt(ptpPool, k) # response
    BY <1>1, <2>1, <2>2, <2>3, <2>5 DEF Waiting
  <2> QED BY <2>4, <2>5
<1>4. LastReplies'
  BY <1>1, <1>2, <1>3 DEF StrandingInv, LastReplies
<1>5. UnfinishedReply'
  <2>1. \A k \in Replies : Mine(k)' => Waiting(k)'.ready
    BY <1>1, <1>3 DEF StrandingInv, UnfinishedReply
  <2> QED BY <1>2, <2>1 DEF UnfinishedReply
<1>6. LeftBehind'
  BY <1>1, <1>2, <1>3 DEF StrandingInv, LeftBehind
<1> QED BY <1>4, <1>5, <1>6 DEF StrandingInv

\* A handler's reply that is finished, or its first, leaves every other reply
\* in its place; the other two parts of the invariant hold on.
LEMMA StrandingRespond ==
  ASSUME IInv, StrandingInv, NEW kind \in ReplyKind, NEW ready \in BOOLEAN,
         NEW onward \in Control, NEW refused \in Control,
         request \in Item, datagram[request] \in Datagram,
         Respond(kind, ready, onward, refused),
         ready \/ own = {},
         pc \notin {"drain", "idle"}, pc' \notin {"drain", "idle"},
         UNCHANGED <<sendtoFails, datagram, request>>
  PROVE  LastReplies' /\ LeftBehind'
<1>1. CASE ~Pool!HasFree(ptpPool)
  <2>1. UNCHANGED <<ptpPool, reply, own>>
    BY <1>1 DEF Respond
  <2>2. /\ Replies' = Replies
        /\ \A k \in Replies : Waiting(k)' = Waiting(k)
        /\ \A k \in Replies : Mine(k)' <=> Mine(k)
    BY <2>1, PlacesKept DEF Mine
  <2> QED BY <2>2 DEF StrandingInv, LastReplies, LeftBehind
<1>2. CASE Pool!HasFree(ptpPool)
  <2> DEFINE n == Pool!Held(ptpPool)
  <2>1. /\ \A k \in Replies' : k \in Replies \/ k = n + 1
        /\ \A k \in Replies :
             k \in Replies' /\ Waiting(k)' = Waiting(k) /\ (Mine(k)' <=> Mine(k))
    BY <1>2, ReplyJoins
  <2>2. \A k : k = n + 1 =>
          /\ Mine(k)'
          /\ Waiting(k)'.ready = ready
          /\ Waiting(k)'.client = datagram[request].client
    BY <1>2, ReplyJoins
  <2>3. n \in Nat /\ \A k \in Replies : k \in Nat /\ k <= n
    BY Places
  <2>4. ~ready => \A k \in Replies : ~Mine(k)
    BY DEF Mine
  <2> HIDE DEF n
  <2>5. LastReplies'
    <3> SUFFICES ASSUME NEW k \in Replies', Mine(k)'
                 PROVE  /\ Waiting(k)'.client = datagram[request].client
                        /\ \A j \in Replies' :
                             j > k => Mine(j)' /\ Waiting(j)'.ready
      BY DEF LastReplies
    <3>1. CASE k \in Replies
      <4>1. ready /\ Mine(k)
        BY <2>1, <2>4, <3>1
      <4> QED BY <2>1, <2>2, <3>1, <4>1 DEF StrandingInv, LastReplies
    <3>2. CASE k = n + 1
      BY <2>1, <2>2, <2>3, <3>2
    <3> QED BY <2>1, <3>1, <3>2
  <2>6. LeftBehind'
    <3>1. ~sendtoFails => \A k \in Replies : Mine(k) \/ Waiting(k).ready
      BY DEF StrandingInv, LeftBehind
    <3>2. ~sendtoFails => \A k \in Replies' : Mine(k)' \/ Waiting(k)'.ready
      BY <2>1, <2>2, <3>1
    <3> QED BY <3>2 DEF LeftBehind
  <2> QED BY <2>5, <2>6
<1> QED BY <1>1, <1>2

\* The first reply of a request, for which there always is a buffer.
LEMMA StrandingFirst ==
  ASSUME IInv, StrandingInv, HandleDelayRequest \/ HandleManagement \/ SignalingStart
  PROVE  StrandingInv'
<1>1. /\ pc \in {"delay_request", "management", "signaling"}
      /\ UNCHANGED <<sendtoFails, datagram, request>>
  BY DEF HandleDelayRequest, HandleManagement, SignalingStart
<1>2. /\ own = {} /\ Pool!HasFree(ptpPool)
      /\ request \in Item /\ datagram[request] \in Datagram
  BY <1>1, RequestInHand DEF IInv, AnswerRoom
<1>3. PICK kind \in ReplyKind, ready \in BOOLEAN, onward \in Control :
        /\ Respond(kind, ready, onward, "failed")
        /\ \/ ready /\ onward = "release"
           \/ kind = "management" /\ onward = "release"
           \/ /\ kind = "signaling" /\ onward = "tlv"
              /\ response' = Pool!NextFree(ptpPool)
  <2>1. CASE HandleDelayRequest
    BY <2>1 DEF HandleDelayRequest, ReplyKind, Control
  <2>2. CASE HandleManagement
    BY <2>2 DEF HandleManagement, ReplyKind, Control
  <2>3. CASE SignalingStart
    BY <1>2, <2>3 DEF SignalingStart, ReplyKind, Control
  <2> QED BY <2>1, <2>2, <2>3
<1> DEFINE n == Pool!Held(ptpPool)
<1>4. "failed" \in Control
  BY DEF Control
<1>5. /\ pc' = onward
      /\ Pool!Held(ptpPool)' = n + 1
      /\ \A k \in Replies' : k \in Replies \/ k = n + 1
      /\ \A k \in Replies : ~Mine(k)'
  BY <1>2, <1>3, <1>4, ReplyJoins DEF Mine
<1>6. \A k : k = n + 1 =>
        /\ Pool!HeldAt(ptpPool, k)' = Pool!NextFree(ptpPool)
        /\ Waiting(k)'.kind = kind
        /\ Waiting(k)'.ready = ready
  BY <1>2, <1>3, <1>4, ReplyJoins
<1>7. LastReplies' /\ LeftBehind'
  BY <1>1, <1>2, <1>3, <1>4, <1>5, StrandingRespond
<1> HIDE DEF n
<1>8. UnfinishedReply'
  <2> SUFFICES ASSUME NEW k \in Replies', Mine(k)', ~Waiting(k)'.ready
               PROVE  /\ pc' = "tlv" => Pool!HeldAt(ptpPool, k)' = response'
                      /\ pc' \in {"tlv", "failed"} => Waiting(k)'.kind = "signaling"
                      /\ pc' = "release" => /\ Waiting(k)'.kind = "management"
                                            /\ k = Pool!Held(ptpPool)'
    BY DEF UnfinishedReply
  <2>1. k = n + 1
    BY <1>5
  <2> QED BY <1>3, <1>5, <1>6, <2>1
<1> QED BY <1>7, <1>8 DEF StrandingInv

\* The replies to unicast requests, queued behind the signaling reply.
LEMMA StrandingTlv ==
  ASSUME IInv, StrandingInv, TlvDenied \/ TlvGranted
  PROVE  StrandingInv'
<1>1. PICK kind \in ReplyKind : Respond(kind, TRUE, "tlv", "failed")
  BY DEF TlvDenied, TlvGranted, ReplyKind
<1>2. /\ pc = "tlv"
      /\ UNCHANGED <<sendtoFails, datagram, request, response>>
  BY DEF TlvDenied, TlvGranted, InTlvLoop
<1>3. /\ request \in Item /\ datagram[request] \in Datagram
      /\ "tlv" \in Control /\ "failed" \in Control
  BY <1>2, RequestInHand DEF Control
<1>4. \A k \in Replies : Mine(k) /\ ~Waiting(k).ready =>
        Pool!HeldAt(ptpPool, k) = response /\ Waiting(k).kind = "signaling"
  BY <1>2 DEF StrandingInv, UnfinishedReply
<1>5. /\ pc' \in {"tlv", "failed"}
      /\ \A k \in Replies' : Mine(k)' /\ ~Waiting(k)'.ready =>
           Pool!HeldAt(ptpPool, k)' = response /\ Waiting(k)'.kind = "signaling"
  <2>1. CASE ~Pool!HasFree(ptpPool)
    <3>1. UNCHANGED <<ptpPool, reply, own>> /\ pc' = "failed"
      BY <1>1, <2>1 DEF Respond
    <3>2. /\ Replies' = Replies
          /\ \A k \in Replies : /\ Pool!HeldAt(ptpPool, k)' = Pool!HeldAt(ptpPool, k)
                                /\ Waiting(k)' = Waiting(k)
                                /\ Mine(k)' <=> Mine(k)
      BY <3>1, PlacesKept DEF Mine
    <3> QED BY <1>4, <3>1, <3>2
  <2>2. CASE Pool!HasFree(ptpPool)
    <3> DEFINE n == Pool!Held(ptpPool)
    <3>1. /\ pc' = "tlv"
          /\ \A k \in Replies' : k \in Replies \/ k = n + 1
          /\ \A k \in Replies :
               /\ Pool!HeldAt(ptpPool, k)' = Pool!HeldAt(ptpPool, k)
               /\ Waiting(k)' = Waiting(k)
               /\ Mine(k)' <=> Mine(k)
      BY <1>1, <1>3, <2>2, ReplyJoins
    <3>2. \A k : k = n + 1 => Waiting(k)'.ready
      <4>1. \A k : k = n + 1 =>
              Waiting(k)' = [kind |-> kind, ready |-> TRUE,
                             client |-> datagram[request].client]
        BY <1>1, <1>3, <2>2, ReplyJoins
      <4>2. \A k : k = n + 1 => Waiting(k)'.ready = TRUE
        BY <4>1
      <4> QED BY <4>2, Zenon
    <3> HIDE DEF n
    <3> QED BY <1>4, <3>1, <3>2
  <2> QED BY <2>1, <2>2
<1>6. LastReplies' /\ LeftBehind'
  BY <1>1, <1>2, <1>3, <1>5, StrandingRespond
<1>7. UnfinishedReply'
  BY <1>2, <1>5 DEF UnfinishedReply
<1> QED BY <1>6, <1>7 DEF StrandingInv

\* The error message that answers a request that failed.
LEMMA StrandingError ==
  ASSUME IInv, StrandingInv, GeneralError
  PROVE  StrandingInv'
<1>1. /\ pc = "failed"
      /\ Respond("error", TRUE, "release", "release")
      /\ UNCHANGED <<sendtoFails, datagram, request>>
      /\ "error" \in ReplyKind /\ "release" \in Control
  BY DEF GeneralError, ReplyKind, Control
<1>2. request \in Item /\ datagram[request] \in Datagram
  BY <1>1, RequestInHand
<1>3. \A k \in Replies : Mine(k) /\ ~Waiting(k).ready =>
        /\ Waiting(k).kind = "signaling"
        /\ Waiting(k).client = datagram[request].client
  BY <1>1 DEF StrandingInv, UnfinishedReply, LastReplies
<1>4. pc' = "release"
  BY <1>1, <1>2, RespondEffect
<1>5. LastReplies' /\ LeftBehind'
  BY <1>1, <1>2, <1>4, StrandingRespond
<1>6. UnfinishedReply'
  <2> SUFFICES ASSUME NEW k \in Replies', Mine(k)', ~Waiting(k)'.ready
               PROVE  /\ Waiting(k)'.kind # "management"
                      /\ \/ /\ Waiting(Pool!Held(ptpPool))'.kind = "error"
                            /\ Waiting(Pool!Held(ptpPool))'.ready
                            /\ Waiting(Pool!Held(ptpPool))'.client = Waiting(k)'.client
                         \/ ~Pool!HasFree(ptpPool)'
    BY <1>4 DEF UnfinishedReply
  <2>1. CASE ~Pool!HasFree(ptpPool)
    <3>1. UNCHANGED <<ptpPool, reply, own>>
      BY <1>1, <2>1 DEF Respond
    <3>2. /\ k \in Replies /\ Waiting(k)' = Waiting(k)
          /\ Mine(k)' <=> Mine(k)
      BY <3>1, PlacesKept DEF Mine
    <3>3. ~Pool!HasFree(ptpPool)'
      BY <2>1, <3>1
    <3> QED BY <1>3, <3>2, <3>3
  <2>2. CASE Pool!HasFree(ptpPool)
    <3> DEFINE n == Pool!Held(ptpPool)
    <3>1. /\ Pool!Held(ptpPool)' = n + 1
          /\ \A i \in Replies' : i \in Replies \/ i = n + 1
          /\ \A i \in Replies : Waiting(i)' = Waiting(i) /\ (Mine(i)' <=> Mine(i))
      BY <1>1, <1>2, <2>2, ReplyJoins
    <3>2. \A i : i = n + 1 => /\ Waiting(i)'.kind = "error"
                              /\ Waiting(i)'.ready
                              /\ Waiting(i)'.client = datagram[request].client
      <4>1. \A i : i = n + 1 =>
              Waiting(i)' = [kind |-> "error", ready |-> TRUE,
                             client |-> datagram[request].client]
        BY <1>1, <1>2, <2>2, ReplyJoins
      <4>2. \A i : i = n + 1 =>
              /\ Waiting(i)'.kind = "error"
              /\ Waiting(i)'.ready = TRUE
              /\ Waiting(i)'.client = datagram[request].client
        BY <4>1
      <4> QED BY <4>2, Zenon
    <3> HIDE DEF n
    <3>3. k \in Replies
      BY <3>1, <3>2
    <3>4. \A i : i = Pool!Held(ptpPool)' =>
            /\ Waiting(i)'.kind = "error"
            /\ Waiting(i)'.ready
            /\ Waiting(i)'.client = datagram[request].client
      BY <3>1, <3>2
    <3>5. /\ Waiting(Pool!Held(ptpPool))'.kind = "error"
          /\ Waiting(Pool!Held(ptpPool))'.ready
          /\ Waiting(Pool!Held(ptpPool))'.client = datagram[request].client
      BY <3>4
    <3> QED BY <1>3, <3>1, <3>3, <3>5
  <2> QED BY <2>1, <2>2
<1> QED BY <1>5, <1>6 DEF StrandingInv

\* The request is done: what it leaves unfinished has only its own replies
\* behind it.
LEMMA StrandingRelease ==
  ASSUME IInv, IInv', StrandingInv, ReleaseRequest
  PROVE  StrandingInv'
<1>1. /\ pc = "release" /\ pc' = "drain" /\ own' = {}
      /\ UNCHANGED <<ptpPool, reply, sendtoFails>>
  BY DEF ReleaseRequest, IInv, NeverOutOfOrder
<1>2. /\ Replies' = Replies
      /\ \A k \in Replies : Waiting(k)' = Waiting(k)
  BY <1>1, PlacesKept
<1>3. LastReplies' /\ UnfinishedReply'
  BY <1>1 DEF Mine, LastReplies, UnfinishedReply
<1>4. ASSUME ~sendtoFails, NEW j \in Replies, NEW k \in Replies,
             j > k, ~Waiting(k).ready
      PROVE  Waiting(j).ready /\ Waiting(j).client = Waiting(k).client
  <2>1. Mine(k)
    BY <1>1, <1>4 DEF StrandingInv, LeftBehind
  <2>2. Mine(j) /\ Waiting(j).ready
    BY <1>4, <2>1 DEF StrandingInv, LastReplies
  <2>3. Waiting(j).client = Waiting(k).client
    BY <2>1, <2>2 DEF StrandingInv, LastReplies
  <2> QED BY <2>2, <2>3
<1>5. LeftBehind'
  BY <1>1, <1>2, <1>4 DEF LeftBehind
<1> QED BY <1>3, <1>5 DEF StrandingInv

\* A reply that is sent or dropped: the others move up.  If it was unfinished
\* the poll ends, and what stays is what stood behind it.
LEMMA StrandingDequeue ==
  ASSUME IInv, IInv', StrandingInv, SendReply \/ SendFails \/ DropUnfinished
  PROVE  StrandingInv'
<1> DEFINE n == Pool!Held(ptpPool)
<1>1. /\ pc = "drain" /\ ~Ring!IsEmpty(txRing) /\ own = {} /\ own' = {}
      /\ sendtoFails' = sendtoFails
      /\ ptpPool' = Pool!Put(ptpPool)
      /\ reply' = [reply EXCEPT ![Ring!First(txRing)] = None]
      /\ \/ pc' = "drain"
         \/ pc' = "idle" /\ sendtoFails
         \/ pc' = "idle" /\ ~Oldest.ready
  BY DEF SendReply, SendFails, DropUnfinished, Dequeuing, Dequeue, IInv,
     AnswerRoom, NeverOutOfOrder
<1>2. /\ TypeOK /\ n \in Nat /\ n >= 1 /\ n \in 0..(PoolSize - 1)
      /\ Ring!First(txRing) = Pool!HeldAt(ptpPool, 1)
  BY <1>1, PoolType, OrderGet, SizeAssumption
     DEF IInv, TypeOK, TransmitOrder, SameOrder
<1>3. /\ Pool!Held(ptpPool') = n - 1
      /\ \A k \in 1..(n - 1) :
           Pool!HeldAt(ptpPool', k) = Pool!HeldAt(ptpPool, k + 1)
  BY <1>1, <1>2, PoolPut DEF TypeOK
<1>4. Replies = 1..n /\ Replies' = 1..(n - 1) /\ 1 \in Replies
  BY <1>2, <1>3 DEF Replies
<1>5. Oldest = Waiting(1)
  BY <1>2 DEF Oldest, Waiting
<1>6. ASSUME NEW k \in Replies'
      PROVE  /\ k \in Nat /\ k >= 1 /\ k + 1 \in Replies
             /\ Waiting(k)' = Waiting(k + 1)
  <2>1. k \in Nat /\ k >= 1 /\ k + 1 \in Replies /\ k + 1 # 1
    BY <1>2, <1>4
  <2>2. /\ Pool!HeldAt(ptpPool, k + 1) # Pool!HeldAt(ptpPool, 1)
        /\ Pool!HeldAt(ptpPool, k + 1) \in Item
    BY <1>4, <2>1, Places
  <2>3. Pool!HeldAt(ptpPool', k) = Pool!HeldAt(ptpPool, k + 1)
    BY <1>3, <1>4
  <2> HIDE DEF n
  <2>4. reply'[Pool!HeldAt(ptpPool, k + 1)] = reply[Pool!HeldAt(ptpPool, k + 1)]
    BY <1>1, <1>2, <2>2 DEF TypeOK
  <2> QED BY <2>1, <2>3, <2>4 DEF Waiting
<1> HIDE DEF n
<1>7. LastReplies' /\ UnfinishedReply'
  BY <1>1 DEF Mine, LastReplies, UnfinishedReply
<1>8. ~sendtoFails =>
        \A j, k \in Replies : j > k /\ ~Waiting(k).ready =>
          Waiting(j).ready /\ Waiting(j).client = Waiting(k).client
  BY <1>1 DEF StrandingInv, LeftBehind
<1>9. CASE pc' = "drain"
  <2>1. ASSUME ~sendtoFails, NEW j \in Replies', NEW k \in Replies',
               j > k, ~Waiting(k)'.ready
        PROVE  Waiting(j)'.ready /\ Waiting(j)'.client = Waiting(k)'.client
    <3>1. /\ j + 1 \in Replies /\ k + 1 \in Replies /\ j + 1 > k + 1
          /\ Waiting(j)' = Waiting(j + 1) /\ Waiting(k)' = Waiting(k + 1)
      BY <1>6, <2>1
    <3> QED BY <1>8, <2>1, <3>1
  <2>2. LeftBehind'
    BY <1>1, <1>9, <2>1 DEF LeftBehind
  <2> QED BY <1>7, <2>2 DEF StrandingInv
<1>10. CASE pc' = "idle" /\ sendtoFails
  BY <1>1, <1>7, <1>10 DEF LeftBehind, StrandingInv
<1>11. CASE pc' = "idle" /\ ~Oldest.ready /\ ~sendtoFails
  <2>1. \A j \in Replies : j > 1 =>
          Waiting(j).ready /\ Waiting(j).client = Waiting(1).client
    BY <1>4, <1>5, <1>8, <1>11
  <2>2. \A j \in Replies' :
          Waiting(j)'.ready /\ Waiting(j)'.client = Waiting(1).client
    <3> TAKE j \in Replies'
    <3>1. j + 1 \in Replies /\ j + 1 > 1 /\ Waiting(j)' = Waiting(j + 1)
      BY <1>6
    <3> QED BY <2>1, <3>1
  <2>3. LeftBehind'
    BY <1>11, <2>2 DEF LeftBehind
  <2> QED BY <1>7, <2>3 DEF StrandingInv
<1> QED BY <1>1, <1>9, <1>10, <1>11

\* The poll ends because nothing is left to send.
LEMMA StrandingDrained ==
  ASSUME IInv, StrandingInv, DrainEnds
  PROVE  StrandingInv'
<1>1. /\ Ring!IsEmpty(txRing) /\ UNCHANGED <<ptpPool, reply, own>>
  BY DEF DrainEnds
<1>2. Pool!Held(ptpPool) = 0
  BY <1>1, RingType DEF IInv, TypeOK, TransmitOrder, SameOrder
<1>3. Replies' = {}
  BY <1>1, <1>2, PlacesKept DEF Replies
<1> QED BY <1>3 DEF StrandingInv, LastReplies, UnfinishedReply, LeftBehind

\* Nothing is waiting at the start, and every step keeps the invariant.
LEMMA StrandingInit == Init => StrandingInv
<1> SUFFICES ASSUME Init PROVE StrandingInv
  OBVIOUS
<1>1. Replies = {}
  BY SizeAssumption DEF Init, Replies, Pool!Setup, Pool!Held
<1> QED BY <1>1 DEF StrandingInv, LastReplies, UnfinishedReply, LeftBehind

LEMMA StrandingStep ==
  ASSUME IInv, IInv', StrandingInv, [Next]_vars
  PROVE  StrandingInv'
<1>1. CASE UNCHANGED vars
  <2>1. /\ Replies' = Replies
        /\ \A k \in Replies :
             /\ Pool!HeldAt(ptpPool, k)' = Pool!HeldAt(ptpPool, k)
             /\ Waiting(k)' = Waiting(k)
    BY <1>1, PlacesKept DEF vars
  <2> QED BY <1>1 DEF vars, StrandingInv, LastReplies, UnfinishedReply,
             LeftBehind, Replies, Mine, Waiting
<1>2. CASE UdpPoll \/ PtpHandleMessage
  <2>1. /\ pc \in {"idle", "handle"} /\ pc' # "idle" /\ own = {}
        /\ UNCHANGED <<ptpPool, reply, own, sendtoFails>>
    BY <1>2 DEF UdpPoll, UdpReceiveMessage, UdpReceiveFails, PtpHandleMessage,
       HandlerOf, IInv, AnswerRoom
  <2> QED BY <2>1, StrandingOutside
<1>3. CASE Handler /\ ~PtpHandleMessage
  BY <1>3, StrandingFirst, StrandingTlv, StrandingInvalid, StrandingFinish,
     StrandingError, StrandingRelease DEF Handler
<1>4. CASE Transmit
  BY <1>4, StrandingDequeue, StrandingDrained DEF Transmit
<1> QED BY <1>1, <1>2, <1>3, <1>4 DEF Next, Handler

LEMMA Stranding == Spec => []StrandingInv
<1>1. Spec => []IInv
  BY Invariant
<1>2. Init => StrandingInv
  BY StrandingInit
<1>3. IInv /\ IInv' /\ StrandingInv /\ [Next]_vars => StrandingInv'
  BY StrandingStep
<1> QED BY <1>1, <1>2, <1>3, PTL DEF Spec

\* A reply that is never finished is the first of its request, and if it is a
\* signaling reply an error message for the same client is the last, unless the
\* buffers ran out.
THEOREM UnfinishedExplainedHolds == Spec => []UnfinishedExplained
<1>1. IInv /\ StrandingInv => UnfinishedExplained
  <2> SUFFICES ASSUME IInv, StrandingInv, pc = "release",
                      NEW d \in own, ~reply[d].ready
               PROVE
                 /\ \A k \in Replies : Pool!HeldAt(ptpPool, k) = d =>
                      \A j \in 1..(k - 1) : Pool!HeldAt(ptpPool, j) \notin own
                 /\ reply[d].kind = "management" => own = {d}
                 /\ reply[d].kind # "management" =>
                      \/ /\ reply[ptpPool.head].kind = "error"
                         /\ reply[ptpPool.head].ready
                         /\ reply[ptpPool.head].client = reply[d].client
                      \/ ~Pool!HasFree(ptpPool)
    BY DEF UnfinishedExplained, Replies
  <2> DEFINE n == Pool!Held(ptpPool)
  <2>1. n \in Nat /\ \A k \in Replies : k \in Nat /\ k >= 1 /\ k <= n
    BY Places
  <2>2. \A e \in own : \E k \in Replies : Pool!HeldAt(ptpPool, k) = e
    BY DEF IInv, SignalingLocals, Pool!InUse, Replies
  <2>3. PICK i \in Replies : Pool!HeldAt(ptpPool, i) = d
    BY <2>2
  <2>4. Mine(i) /\ Waiting(i) = reply[d] /\ ~Waiting(i).ready
    BY <2>3 DEF Mine, Waiting
  <2>5. \A j \in Replies : Mine(j) => ~(i > j)
    BY <2>4 DEF StrandingInv, LastReplies
  <2>6. ASSUME NEW k \in Replies, Pool!HeldAt(ptpPool, k) = d, NEW j \in 1..(k - 1)
        PROVE  Pool!HeldAt(ptpPool, j) \notin own
    <3>1. k = i
      BY <2>3, <2>6, Places
    <3>2. j \in Replies /\ i > j
      BY <2>1, <3>1 DEF Replies
    <3> QED BY <2>5, <3>2 DEF Mine
  <2>7. ASSUME reply[d].kind = "management"
        PROVE  own = {d}
    <3>1. i = n
      BY <2>4, <2>7 DEF StrandingInv, UnfinishedReply
    <3>2. ASSUME NEW e \in own
          PROVE  e = d
      <4>1. PICK j \in Replies : Pool!HeldAt(ptpPool, j) = e
        BY <2>2
      <4>2. ~(i > j)
        BY <2>5, <4>1 DEF Mine
      <4> QED BY <2>1, <2>3, <3>1, <4>1, <4>2
    <3> QED BY <3>2
  <2>8. ASSUME reply[d].kind # "management"
        PROVE  \/ /\ reply[ptpPool.head].kind = "error"
                  /\ reply[ptpPool.head].ready
                  /\ reply[ptpPool.head].client = reply[d].client
               \/ ~Pool!HasFree(ptpPool)
    <3>1. Pool!HeldAt(ptpPool, n) = ptpPool.head
      BY SizeAssumption DEF IInv, TypeOK, Pool!Pool, Pool!Descriptor, Pool!Held,
         Pool!HeldAt
    <3>2. Waiting(n) = reply[ptpPool.head]
      BY <3>1 DEF Waiting
    <3> QED BY <2>4, <2>8, <3>2 DEF StrandingInv, UnfinishedReply
  <2> QED BY <2>6, <2>7, <2>8
<1> QED BY <1>1, Invariant, Stranding, PTL

\* If sendto never fails, what a poll leaves in the ring is finished and goes
\* to one client.
THEOREM StrandedRepliesHolds == Spec => []StrandedReplies
<1>1. IInv /\ StrandingInv => StrandedReplies
  <2> SUFFICES ASSUME IInv, StrandingInv, pc = "idle", ~sendtoFails,
                      NEW d \in Pool!InUse(ptpPool), NEW e \in Pool!InUse(ptpPool)
               PROVE  reply[d].ready /\ reply[d].client = reply[e].client
    BY DEF StrandedReplies
  <2>1. PICK j \in Replies : Pool!HeldAt(ptpPool, j) = d
    BY DEF Pool!InUse, Replies
  <2>2. PICK k \in Replies : Pool!HeldAt(ptpPool, k) = e
    BY DEF Pool!InUse, Replies
  <2>3. Waiting(j) = reply[d] /\ Waiting(k) = reply[e]
    BY <2>1, <2>2 DEF Waiting
  <2>4. ~Mine(j)
    BY DEF IInv, AnswerRoom, Mine
  <2> QED BY <2>3, <2>4 DEF StrandingInv, LeftBehind
<1> QED BY <1>1, Invariant, Stranding, PTL

-----------------------------------------------------------------------------
(* How long a poll takes: what PollCompletes and RepliesLeave rest on besides *)
(* the fairness of the loop.                                                  *)

\* A bound on the steps until udp_poll returns, from where it is, the replies
\* in the ring and the TLVs still to come.
StepsLeft ==
  LET waiting == Pool!Held(ptpPool)
  IN CASE pc = "idle"                            -> 0
       [] pc = "drain"                           -> waiting + 1
       [] pc = "release"                         -> waiting + 2
       [] pc = "failed"                          -> waiting + 4
       [] pc \in {"delay_request", "management"} -> waiting + 5
       [] pc = "tlv"       -> waiting + 5 + 2 * (MaxTlv - tlv)
       [] pc = "signaling" -> waiting + 7 + 2 * MaxTlv
       [] OTHER            -> waiting + 8 + 2 * MaxTlv

LongestPoll == PoolSize + 7 + 2 * MaxTlv

\* A handler that wants to queue a reply goes on with one more in the ring, or
\* is refused.
LEMMA RespondWaits ==
  ASSUME IInv, NEW kind, NEW ready, NEW onward, NEW refused,
         Respond(kind, ready, onward, refused)
  PROVE  \/ /\ pc' = onward
            /\ Pool!Held(ptpPool') = Pool!Held(ptpPool) + 1
         \/ /\ pc' = refused
            /\ Pool!Held(ptpPool') = Pool!Held(ptpPool)
<1>1. CASE ~Pool!HasFree(ptpPool)
  BY <1>1 DEF Respond
<1>2. CASE Pool!HasFree(ptpPool)
  <2>1. ptpPool \in Pool!Pool /\ Ring!HasRoom(txRing)
    BY <1>2, OrderPut DEF IInv, TypeOK, TransmitOrder
  <2>2. pc' = onward /\ ptpPool' = Pool!Get(ptpPool)
    BY <1>2, <2>1 DEF Respond
  <2> QED BY <1>2, <2>1, <2>2, PoolGet
<1> QED BY <1>1, <1>2

\* What the measure is made of.
StepsLeftParts ==
  /\ pc \in Control \ {"aborted"}
  /\ Pool!Held(ptpPool) \in 0..(PoolSize - 1)
  /\ tlv \in 0..MaxTlv

LEMMA PartsHold == IInv => StepsLeftParts
BY PoolType DEF IInv, TypeOK, NeverOutOfOrder, StepsLeftParts

LEMMA PartsHoldNext == IInv' => StepsLeftParts'
BY PartsHold, PTL

LEMMA StepsLeftBounded ==
  IInv => StepsLeft \in 0..LongestPoll /\ (StepsLeft = 0 <=> pc = "idle")
BY PartsHold, SizeAssumption, DataAssumption
   DEF StepsLeftParts, StepsLeft, LongestPoll, Control

\* Every step of a handler or of the sending loop takes the poll nearer to its
\* end.
LEMMA StepsDecrease ==
  ASSUME IInv, IInv', Handler \/ Transmit
  PROVE  StepsLeft' < StepsLeft
<1> DEFINE n == Pool!Held(ptpPool)
<1>1. /\ n \in Nat /\ n' \in Nat
      /\ tlv \in 0..MaxTlv /\ tlv' \in 0..MaxTlv
      /\ pc' \in Control \ {"aborted"}
      /\ MaxTlv \in Nat
  BY PartsHold, PartsHoldNext, SizeAssumption, DataAssumption
     DEF StepsLeftParts
<1>2. CASE PtpHandleMessage
  <2>1. /\ pc = "handle" /\ n' = n
        /\ tlv' = tlv /\ tlv = 0
        /\ pc' # "handle" /\ pc' # "tlv"
    BY <1>2 DEF PtpHandleMessage, HandlerOf, IInv, SignalingLocals
  <2> HIDE DEF n
  <2> QED BY <1>1, <2>1 DEF StepsLeft, Control, n
<1>3. CASE HandleDelayRequest \/ HandleManagement
  <2>1. /\ pc \in {"delay_request", "management"}
        /\ \/ pc' = "release" /\ n' = n + 1
           \/ pc' = "failed" /\ n' = n
    BY <1>3, RespondWaits DEF HandleDelayRequest, HandleManagement
  <2> HIDE DEF n
  <2> QED BY <1>1, <2>1 DEF StepsLeft, n
<1>4. CASE SignalingStart
  <2>1. /\ pc = "signaling" /\ tlv' = tlv /\ tlv = 0
        /\ \/ pc' = "tlv" /\ n' = n + 1
           \/ pc' = "failed" /\ n' = n
    BY <1>4, RespondWaits DEF SignalingStart, IInv, SignalingLocals
  <2> HIDE DEF n
  <2> QED BY <1>1, <2>1 DEF StepsLeft, n
<1>5. CASE TlvDenied \/ TlvGranted
  <2>1. /\ pc = "tlv" /\ tlv' = tlv + 1
        /\ \/ pc' = "tlv" /\ n' = n + 1
           \/ pc' = "failed" /\ n' = n
    BY <1>5, RespondWaits DEF TlvDenied, TlvGranted, InTlvLoop
  <2> HIDE DEF n
  <2> QED BY <1>1, <2>1 DEF StepsLeft, n
<1>6. CASE TlvInvalid \/ SignalingFinish
  <2>1. /\ pc = "tlv" /\ pc' \in {"failed", "release"} /\ n' = n
    BY <1>6 DEF TlvInvalid, SignalingFinish, InTlvLoop
  <2> HIDE DEF n
  <2> QED BY <1>1, <2>1 DEF StepsLeft, n
<1>7. CASE GeneralError
  <2>1. /\ pc = "failed" /\ pc' = "release"
        /\ n' = n + 1 \/ n' = n
    BY <1>7, RespondWaits DEF GeneralError
  <2> HIDE DEF n
  <2> QED BY <1>1, <2>1 DEF StepsLeft, n
<1>8. CASE ReleaseRequest
  <2>1. pc = "release" /\ pc' = "drain" /\ n' = n
    BY <1>1, <1>8 DEF ReleaseRequest
  <2> HIDE DEF n
  <2> QED BY <1>1, <2>1 DEF StepsLeft, n
<1>9. CASE SendReply \/ SendFails \/ DropUnfinished
  <2>1. /\ pc = "drain" /\ pc' \in {"drain", "idle"}
        /\ ptpPool' = Pool!Put(ptpPool)
        /\ ~Ring!IsEmpty(txRing)
    BY <1>1, <1>9 DEF SendReply, SendFails, DropUnfinished, Dequeuing, Dequeue
  <2>2. n' = n - 1
    BY <2>1, OrderGet, PoolPut DEF IInv, TypeOK, TransmitOrder
  <2> HIDE DEF n
  <2> QED BY <1>1, <2>1, <2>2 DEF StepsLeft, n
<1>10. CASE DrainEnds
  <2>1. pc = "drain" /\ pc' = "idle" /\ n' = n
    BY <1>10 DEF DrainEnds
  <2> HIDE DEF n
  <2> QED BY <1>1, <2>1 DEF StepsLeft, n
<1> QED BY <1>2, <1>3, <1>4, <1>5, <1>6, <1>7, <1>8, <1>9, <1>10
        DEF Handler, Transmit

\* udp_poll returns after at most LongestPoll steps, whatever the datagram and
\* whatever fails: every step it takes brings it nearer to its end.
THEOREM PollBounded ==
  Spec => /\ [](StepsLeft \in 0..LongestPoll /\ (StepsLeft = 0 <=> pc = "idle"))
          /\ [][pc # "idle" => StepsLeft' < StepsLeft]_vars
<1>1. IInv => StepsLeft \in 0..LongestPoll /\ (StepsLeft = 0 <=> pc = "idle")
  BY StepsLeftBounded
<1>2. IInv /\ IInv' /\ [Next]_vars =>
        [pc # "idle" => StepsLeft' < StepsLeft]_vars
  BY StepsDecrease
     DEF Next, UdpPoll, UdpReceiveMessage, UdpReceiveFails
<1> QED BY <1>1, <1>2, Invariant, PTL DEF Spec

\* A poll does not return without having sent or dropped the oldest reply, or
\* there was none: while polls go on, every reply comes to the front and leaves.
THEOREM PollRelieves ==
  Spec => [][(pc # "idle" /\ pc' = "idle") =>
                \/ TransmitQueue = <<>>
                \/ TransmitQueue' = Tail(TransmitQueue)]_vars
<1>1. ASSUME IInv, IInv', Next, pc # "idle", pc' = "idle"
      PROVE  TransmitQueue = <<>> \/ TransmitQueue' = Tail(TransmitQueue)
  <2>1. CASE SendReply \/ SendFails \/ DropUnfinished
    BY <1>1, <2>1, QueueDepart
       DEF SendReply, SendFails, DropUnfinished, Dequeuing, Control,
           Queue!Depart
  <2>2. CASE DrainEnds
    <3>1. Ring!Occupied(txRing) = 0
      BY <1>1, <2>2, RingType DEF DrainEnds, IInv, TypeOK
    <3> QED BY <3>1 DEF TransmitQueue
  <2>3. ~UdpPoll
    BY <1>1 DEF UdpPoll, UdpReceiveMessage, UdpReceiveFails
  <2>4. ~Handler
    <3>1. ASSUME \/ HandleDelayRequest \/ HandleManagement \/ SignalingStart
                 \/ TlvDenied \/ TlvGranted \/ GeneralError
          PROVE  pc' \in {"release", "tlv", "failed"}
      BY <1>1, <3>1, RespondWaits
         DEF HandleDelayRequest, HandleManagement, SignalingStart, TlvDenied,
             TlvGranted, GeneralError
    <3>2. ~(PtpHandleMessage \/ TlvInvalid \/ SignalingFinish \/ ReleaseRequest)
      BY <1>1 DEF PtpHandleMessage, HandlerOf, TlvInvalid, SignalingFinish,
                  ReleaseRequest
    <3> QED BY <1>1, <3>1, <3>2 DEF Handler
  <2> QED BY <1>1, <2>1, <2>2, <2>3, <2>4 DEF Next, Transmit
<1>2. IInv /\ IInv' /\ [Next]_vars =>
        [(pc # "idle" /\ pc' = "idle") =>
            \/ TransmitQueue = <<>>
            \/ TransmitQueue' = Tail(TransmitQueue)]_vars
  BY <1>1
<1> QED BY <1>2, Invariant, PTL DEF Spec
=============================================================================
