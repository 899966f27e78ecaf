-------------------------- MODULE HttpSession_proof ---------------------------
(***************************************************************************)
(* Proofs about HttpSession, for requests of any number and length and any *)
(* limit: the pointers of a session are its own, each request is answered  *)
(* from its own text, once and in its turn, and no memory is lost but      *)
(* where the code forgets it.                                              *)
(***************************************************************************)
EXTENDS HttpSession, SequenceTheorems, TLAPS

-----------------------------------------------------------------------------
(* Sequences. *)

\* A function on the first n numbers is a sequence.
LEMMA FunctionIsSeq ==
  ASSUME NEW S, NEW n \in Nat, NEW f \in [1..n -> S]
  PROVE  f \in Seq(S) /\ Len(f) = n
<1>1. f \in Seq(S)
  BY SeqDef
<1> QED BY <1>1, LenProperties

\* A body with the chunk that follows it is a longer part of the body.
LEMMA BodyGrows ==
  ASSUME NEW n \in 1..MaxRequests, NEW r \in Nat, NEW k \in Nat
  PROVE  LET old == [i \in 1..r |-> <<n, i>>]
             chunk == [i \in 1..k |-> <<n, r + i>>]
             new == [i \in 1..(r + k) |-> <<n, i>>]
         IN old \o chunk = new /\ new \in Seq(Byte)
<1> DEFINE old == [i \in 1..r |-> <<n, i>>]
           chunk == [i \in 1..k |-> <<n, r + i>>]
           new == [i \in 1..(r + k) |-> <<n, i>>]
<1>1. old \in Seq(Byte) /\ Len(old) = r
  <2>1. old \in [1..r -> Byte]
    BY DEF Byte
  <2> QED BY <2>1, FunctionIsSeq
<1>2. chunk \in Seq(Byte) /\ Len(chunk) = k
  <2>1. chunk \in [1..k -> Byte]
    BY DEF Byte
  <2> QED BY <2>1, FunctionIsSeq
<1>3. new \in Seq(Byte) /\ Len(new) = r + k
  <2>1. new \in [1..(r + k) -> Byte]
    BY DEF Byte
  <2> QED BY <2>1, FunctionIsSeq
<1>4. /\ old \o chunk \in Seq(Byte)
      /\ Len(old \o chunk) = r + k
      /\ \A i \in 1..(r + k) :
           (old \o chunk)[i] = IF i <= r THEN old[i] ELSE chunk[i - r]
  <2> HIDE DEF old, chunk
  <2> QED BY <1>1, <1>2, ConcatProperties
<1>5. \A i \in 1..(r + k) : (old \o chunk)[i] = new[i]
  <2> TAKE i \in 1..(r + k)
  <2>1. CASE i <= r
    BY <1>4, <2>1
  <2>2. CASE i > r
    <3>1. i - r \in 1..k /\ r + (i - r) = i
      BY <2>2
    <3> QED BY <1>4, <2>2, <3>1
  <2> QED BY <2>1, <2>2
<1>6. old \o chunk = new
  <2> HIDE DEF old, chunk, new
  <2> QED BY <1>3, <1>4, <1>5, SeqEqual
<1> QED BY <1>3, <1>6

\* The body of a request is a sequence of bytes.
LEMMA BodyIsSeq ==
  ASSUME NEW n \in 1..MaxRequests, NEW r \in Nat
  PROVE  [i \in 1..r |-> <<n, i>>] \in Seq(Byte)
<1>1. [i \in 1..r |-> <<n, i>>] \in [1..r -> Byte]
  BY DEF Byte
<1> QED BY <1>1, FunctionIsSeq

-----------------------------------------------------------------------------
(* The initial states. *)

LEMMA InitInvariant == Init => IInv
<1> SUFFICES ASSUME Init PROVE IInv
  OBVIOUS
<1> USE DEF Init
<1>1. Current = 0 /\ Len(wire) = 0 /\ DOMAIN heap = {} /\ Owned = {}
  BY DEF Current, Owned, Empty
<1>2. TypeOK
  <2>1. requests \in Seq([length : Lengths, post : BOOLEAN])
    BY EmptySeq
  <2>2. wire \in Seq([part : {"headers", "body", "status"},
                      to : 1..MaxRequests, answer : Answer \cup {None}])
    BY EmptySeq
  <2> QED BY <1>1, <2>1, <2>2, SessionAssumption DEF TypeOK, Pc, Empty
<1>3. Progress /\ Blocks /\ Sent
  BY <1>1 DEF Progress, Blocks, Sent, Empty
<1>4. SessionOwns /\ AnswersOwnRequest /\ OneAnswerEach /\ LostExplained
  BY <1>1 DEF SessionOwns, AnswersOwnRequest, OneAnswerEach, LostExplained, Empty
<1> QED BY <1>2, <1>3, <1>4 DEF IInv

-----------------------------------------------------------------------------
(* What is known of every state, in the form the steps below need it. *)

Request == [length : Lengths, post : BOOLEAN]

Write == [part : {"headers", "body", "status"}, to : 1..MaxRequests,
          answer : Answer \cup {None}]

LEMMA Facts ==
  ASSUME TypeOK
  PROVE  /\ Current \in 0..MaxRequests
         /\ requests \in Seq(Request)
         /\ \A n \in 1..Current : requests[n].length \in Nat
         /\ wire \in Seq(Write)
         /\ Len(wire) \in Nat
         /\ Fresh \in Nat
         /\ Fresh # None
         /\ Fresh \notin DOMAIN heap
         /\ None \notin DOMAIN heap
         /\ Text \in Seq(Byte)
<1>1. /\ requests \in Seq(Request)
      /\ wire \in Seq(Write)
  BY DEF TypeOK, Request, Write
<1>2. Current \in 0..MaxRequests /\ Len(wire) \in Nat
  BY <1>1, LenProperties, SessionAssumption DEF TypeOK, Current
<1>3. \A n \in 1..Current : requests[n].length \in Nat
  <2> TAKE n \in 1..Current
  <2>1. requests[n] \in Request
    BY <1>1, ElementOfSeq DEF Current
  <2> QED BY <2>1, SessionAssumption DEF Request
<1>4. /\ Fresh \in Nat /\ Fresh # None
      /\ Fresh \notin DOMAIN heap /\ None \notin DOMAIN heap
  BY SessionAssumption DEF TypeOK, Fresh
<1>5. Text \in Seq(Byte)
  <2>1. CASE session.data \in DOMAIN heap
    BY <2>1 DEF TypeOK, Text, Block
  <2>2. CASE session.data \notin DOMAIN heap
    BY <2>2, EmptySeq DEF Text
  <2> QED BY <2>1, <2>2
<1> QED BY <1>1, <1>2, <1>3, <1>4, <1>5

\* What is written comes behind what was written before.
LEMMA WireGrows ==
  ASSUME TypeOK, NEW w \in Write, wire' = Append(wire, w)
  PROVE  /\ wire' \in Seq(Write)
         /\ Len(wire') = Len(wire) + 1
         /\ \A i \in 1..Len(wire) : wire'[i] = wire[i]
         /\ wire'[Len(wire) + 1] = w
BY Facts, AppendProperties

\* What was written stays right while nothing else is.
LEMMA WireKept ==
  ASSUME IInv, UNCHANGED <<wire, requests>>
  PROVE  AnswersOwnRequest' /\ OneAnswerEach'
BY DEF IInv, AnswersOwnRequest, OneAnswerEach, BodyOf

\* What OneAnswerEach says of the i-th write, if it is no status.
Paired(writes, i) ==
  /\ writes[i].to = (i + 1) \div 2
  /\ \/ writes[i].part = "headers" /\ i % 2 = 1
     \/ /\ writes[i].part = "body" /\ i % 2 = 0
        /\ writes[i].answer = writes[i - 1].answer

\* What AnswersOwnRequest says of it.
FromOwn(writes, asked, i) ==
  writes[i].answer.of =
    [j \in 1..asked[writes[i].to].length |-> <<writes[i].to, j>>]

\* What was written stays right when something is written behind it, perhaps
\* for a new request.
LEMMA OldWrites ==
  ASSUME IInv, pc \in {"idle", "complete", "retry", "answering"},
         NEW w \in Write, wire' = Append(wire, w),
         \A n \in 1..Current : requests'[n] = requests[n]
  PROVE  \A i \in 1..Len(wire) :
           /\ wire'[i] = wire[i]
           /\ wire[i].part # "status" /\ wire[i].to <= Current
           /\ FromOwn(wire', requests', i)
           /\ Paired(wire', i)
<1>1. /\ TypeOK /\ AnswersOwnRequest /\ OneAnswerEach
      /\ \A i \in 1..Len(wire) : wire[i].part # "status" /\ wire[i].to <= Current
  BY DEF IInv, Sent, Blocks
<1>2. /\ \A i \in 1..Len(wire) : wire'[i] = wire[i]
      /\ wire \in Seq(Write) /\ Len(wire) \in Nat /\ Current \in 0..MaxRequests
  BY <1>1, Facts, WireGrows
<1> SUFFICES ASSUME NEW i \in 1..Len(wire)
             PROVE  /\ FromOwn(wire', requests', i)
                    /\ Paired(wire', i)
  BY <1>1, <1>2
<1>3. wire[i].to \in 1..Current
  <2>1. wire[i] \in Write
    BY <1>2, ElementOfSeq
  <2>2. wire[i].to \in 1..MaxRequests
    BY <2>1 DEF Write
  <2> QED BY <1>1, <1>2, <2>2
<1>4. FromOwn(wire', requests', i)
  <2>1. FromOwn(wire, requests, i)
    BY <1>1 DEF AnswersOwnRequest, BodyOf, FromOwn
  <2> QED BY <1>2, <1>3, <2>1 DEF FromOwn
<1>5. Paired(wire', i)
  <2>1. CASE wire[i].part = "headers" /\ i % 2 = 1
    BY <1>1, <1>2, <2>1 DEF OneAnswerEach, Paired
  <2>2. CASE /\ wire[i].part = "body" /\ i % 2 = 0
             /\ wire[i].answer = wire[i - 1].answer
    <3>1. i - 1 \in 1..Len(wire)
      BY <1>2, <2>2
    <3> QED BY <1>1, <1>2, <2>2, <3>1 DEF OneAnswerEach, Paired
  <2> QED BY <1>1, <2>1, <2>2 DEF OneAnswerEach
<1> QED BY <1>4, <1>5

\* The headers of a response to the request in hand.
LEMMA HeadersWritten ==
  ASSUME IInv, pc \in {"complete", "retry"}, UNCHANGED requests,
         NEW answer \in Answer, answer.of = Text, Written("headers", answer)
  PROVE  /\ wire' \in Seq(Write)
         /\ Len(wire') = 2 * Current - 1
         /\ wire'[Len(wire')].part = "headers"
         /\ wire'[Len(wire')].answer = answer
         /\ \A i \in 1..Len(wire') : /\ wire'[i].part # "status"
                                     /\ wire'[i].to <= Current
         /\ AnswersOwnRequest'
         /\ OneAnswerEach'
<1> DEFINE w == [part |-> "headers", to |-> Current, answer |-> answer]
<1>1. /\ TypeOK /\ Current > 0 /\ Len(wire) = 2 * Current - 2
      /\ answer.of = BodyOf(Current)
  BY DEF IInv, Progress, Sent, BodyOf
<1>2. w \in Write /\ Current \in 1..MaxRequests /\ Len(wire) \in Nat
  BY <1>1, Facts DEF Write
<1>3. wire' = Append(wire, w)
  BY DEF Written
<1>4. /\ wire' \in Seq(Write)
      /\ Len(wire') = Len(wire) + 1
      /\ wire'[Len(wire) + 1] = w
  BY <1>1, <1>2, <1>3, WireGrows
<1>5. \A i \in 1..Len(wire) :
        /\ wire'[i] = wire[i]
        /\ wire[i].part # "status" /\ wire[i].to <= Current
        /\ FromOwn(wire', requests', i)
        /\ Paired(wire', i)
  <2> HIDE DEF w
  <2> QED BY <1>2, <1>3, OldWrites
<1>6. \A i \in 1..Len(wire') : i \in 1..Len(wire) \/ i = Len(wire) + 1
  BY <1>2, <1>4
<1>7. AnswersOwnRequest'
  <2>1. FromOwn(wire', requests', Len(wire) + 1)
    BY <1>1, <1>4 DEF FromOwn, BodyOf
  <2> QED BY <1>5, <1>6, <2>1 DEF AnswersOwnRequest, FromOwn, BodyOf
<1>8. OneAnswerEach'
  <2>1. (Len(wire) + 1 + 1) \div 2 = Current /\ (Len(wire) + 1) % 2 = 1
    BY <1>1, <1>2
  <2>2. Paired(wire', Len(wire) + 1)
    BY <1>4, <2>1 DEF Paired
  <2> QED BY <1>5, <1>6, <2>2 DEF OneAnswerEach, Paired
<1> QED BY <1>1, <1>2, <1>4, <1>5, <1>6, <1>7, <1>8

\* The body of the response, behind its headers.
LEMMA BodyWritten ==
  ASSUME IInv, pc = "answering", UNCHANGED requests,
         Written("body", session.answer)
  PROVE  /\ wire' \in Seq(Write)
         /\ Len(wire') = 2 * Current
         /\ \A i \in 1..Len(wire') : /\ wire'[i].part # "status"
                                     /\ wire'[i].to <= Current
         /\ AnswersOwnRequest'
         /\ OneAnswerEach'
<1> DEFINE w == [part |-> "body", to |-> Current, answer |-> session.answer]
<1>1. /\ TypeOK /\ Current > 0 /\ Len(wire) = 2 * Current - 1
      /\ wire[Len(wire)].answer = session.answer
      /\ session.answer \in Answer
      /\ session.answer.of = BodyOf(Current)
  BY DEF IInv, Progress, Sent
<1>2. w \in Write /\ Current \in 1..MaxRequests /\ Len(wire) \in Nat
  BY <1>1, Facts DEF Write
<1>3. wire' = Append(wire, w)
  BY DEF Written
<1>4. /\ wire' \in Seq(Write)
      /\ Len(wire') = Len(wire) + 1
      /\ wire'[Len(wire) + 1] = w
  BY <1>1, <1>2, <1>3, WireGrows
<1>5. \A i \in 1..Len(wire) :
        /\ wire'[i] = wire[i]
        /\ wire[i].part # "status" /\ wire[i].to <= Current
        /\ FromOwn(wire', requests', i)
        /\ Paired(wire', i)
  <2> HIDE DEF w
  <2> QED BY <1>2, <1>3, OldWrites
<1>6. \A i \in 1..Len(wire') : i \in 1..Len(wire) \/ i = Len(wire) + 1
  BY <1>2, <1>4
<1>7. AnswersOwnRequest'
  <2>1. FromOwn(wire', requests', Len(wire) + 1)
    BY <1>1, <1>4 DEF FromOwn, BodyOf
  <2> QED BY <1>5, <1>6, <2>1 DEF AnswersOwnRequest, FromOwn, BodyOf
<1>8. OneAnswerEach'
  <2>1. (Len(wire) + 1 + 1) \div 2 = Current /\ (Len(wire) + 1) % 2 = 0
    <3>1. Len(wire) + 1 = 2 * Current
      BY <1>1, <1>2
    <3>2. (2 * Current + 1) \div 2 = Current /\ (2 * Current) % 2 = 0
      BY <1>2
    <3> QED BY <3>1, <3>2
  <2>2. Len(wire) + 1 - 1 = Len(wire) /\ Len(wire) \in 1..Len(wire)
    BY <1>1, <1>2
  <2>3. wire'[Len(wire)].answer = session.answer
    BY <1>1, <1>5, <2>2
  <2>4. Paired(wire', Len(wire) + 1)
    BY <1>4, <2>1, <2>2, <2>3 DEF Paired
  <2> QED BY <1>5, <1>6, <2>4 DEF OneAnswerEach, Paired
<1> QED BY <1>1, <1>2, <1>4, <1>5, <1>6, <1>7, <1>8

-----------------------------------------------------------------------------
(* Memory. *)

\* What the invariant says of the heap alone.
HeapOK == /\ taken \in Nat
          /\ DOMAIN heap \subseteq 1..taken
          /\ \A b \in DOMAIN heap : heap[b] \in Block
          /\ \A b \in DOMAIN heap : heap[b].for <= Current

\* An allocated block is a new one, beside those that are left.
LEMMA Allocation ==
  ASSUME IInv, UNCHANGED requests,
         NEW rest, DOMAIN rest \subseteq DOMAIN heap,
         \A b \in DOMAIN rest : rest[b] = heap[b],
         NEW block \in Block, block.for = Current, Allocate(rest, block)
  PROVE  /\ HeapOK'
         /\ DOMAIN heap' = DOMAIN rest \cup {Fresh}
         /\ heap'[Fresh] = block
         /\ \A b \in DOMAIN rest : heap'[b] = heap[b]
<1>1. TypeOK /\ Blocks /\ Fresh \notin DOMAIN heap
  BY Facts DEF IInv
<1>2. /\ DOMAIN heap' = DOMAIN rest \cup {Fresh}
      /\ heap'[Fresh] = block
      /\ \A b \in DOMAIN rest : heap'[b] = heap[b]
  BY <1>1 DEF Allocate
<1>3. taken' = taken + 1 /\ Fresh = taken + 1 /\ taken \in Nat
  BY <1>1 DEF TypeOK, Allocate, Fresh
<1>4. taken' \in Nat /\ DOMAIN heap' \subseteq 1..taken'
  BY <1>1, <1>2, <1>3 DEF TypeOK
<1>5. \A b \in DOMAIN heap' : heap'[b] \in Block /\ heap'[b].for <= Current'
  <2> TAKE b \in DOMAIN heap'
  <2>1. Current' = Current /\ Current \in Nat
    BY <1>1, Facts DEF Current
  <2>2. CASE b \in DOMAIN rest
    BY <1>1, <1>2, <2>1, <2>2 DEF TypeOK, Blocks
  <2>3. CASE b = Fresh
    BY <1>2, <2>1, <2>3
  <2> QED BY <1>2, <2>2, <2>3
<1> QED BY <1>2, <1>4, <1>5 DEF HeapOK

\* What the invariant says of the session and the heap.
MemoryOK == /\ HeapOK
            /\ SessionOwns
            /\ LostExplained
            /\ pc # "closed" =>
                 /\ session.data # None => heap[session.data].use = "request"
                 /\ session.buffer # None =>
                      heap[session.buffer].use = "response"

\* http_send_response leaves the request alone, and replaces the buffer of the
\* response or leaves it, or forgets it.
LEMMA ResponseMemory ==
  ASSUME IInv, pc \in {"complete", "retry"}, UNCHANGED requests,
         pc' \in {"closing", "retry", "answering"},
         pc' = "retry" => pc = "complete",
         session'.data = session.data,
         \/ /\ UNCHANGED <<heap, taken>>
            /\ session'.buffer \in {session.buffer, None}
         \/ /\ session'.buffer = Fresh
            /\ Allocate(heap, [use |-> "response", for |-> Current,
                               data |-> <<>>])
  PROVE  MemoryOK' /\ Text' = Text
<1>1. /\ TypeOK /\ Blocks /\ SessionOwns /\ LostExplained
      /\ pc = "complete" => session.buffer = None
      /\ Current \in 1..MaxRequests /\ Current' = Current
  BY Facts DEF IInv, Progress, Current
<1>2. /\ Fresh \notin DOMAIN heap /\ None \notin DOMAIN heap /\ Fresh # None
  BY <1>1, Facts
<1>3. /\ session.data \in DOMAIN heap \cup {None}
      /\ session.buffer \in DOMAIN heap \cup {None}
      /\ session.data = session.buffer => session.data = None
      /\ \A b \in Owned : heap[b].for = Current
      /\ session.data # None => heap[session.data].use = "request"
      /\ session.buffer # None => heap[session.buffer].use = "response"
  BY <1>1 DEF SessionOwns, Owned, Blocks
<1>4. CASE /\ UNCHANGED <<heap, taken>>
           /\ session'.buffer \in {session.buffer, None}
  <2>1. HeapOK'
    BY <1>1, <1>4 DEF TypeOK, Blocks, HeapOK
  <2>2. SessionOwns'
    BY <1>1, <1>3, <1>4 DEF SessionOwns, Owned
  <2>3. LostExplained'
    <3>1. SUFFICES ASSUME NEW b \in DOMAIN heap, b \notin Owned'
                   PROVE  \/ heap[b].for < Current
                          \/ heap[b].use = "response" /\ pc' \in {"answering",
                               "closing"}
      BY <1>1, <1>4 DEF LostExplained
    <3>2. CASE b \in Owned
      <4>1. b = session.buffer /\ session.buffer # None
        BY <3>1, <3>2 DEF Owned
      <4> QED BY <1>1, <1>3, <4>1
    <3>3. CASE b \notin Owned
      BY <1>1, <3>1, <3>3 DEF LostExplained
    <3> QED BY <3>2, <3>3
  <2>4. Text' = Text
    BY <1>4 DEF Text
  <2> QED BY <1>3, <1>4, <2>1, <2>2, <2>3, <2>4 DEF MemoryOK
<1>5. CASE /\ session'.buffer = Fresh
           /\ Allocate(heap, [use |-> "response", for |-> Current,
                              data |-> <<>>])
  <2> DEFINE block == [use |-> "response", for |-> Current, data |-> <<>>]
  <2>1. block \in Block
    BY <1>1, EmptySeq DEF Block
  <2>2. /\ HeapOK'
        /\ DOMAIN heap' = DOMAIN heap \cup {Fresh}
        /\ heap'[Fresh] = block
        /\ \A b \in DOMAIN heap : heap'[b] = heap[b]
    <3>1. block.for = Current
      OBVIOUS
    <3> HIDE DEF block
    <3>2. Allocate(heap, block)
      BY <1>5 DEF block
    <3> QED BY <2>1, <3>1, <3>2, Allocation
  <2>3. SessionOwns'
    BY <1>1, <1>2, <1>3, <1>5, <2>2 DEF SessionOwns, Owned
  <2>4. LostExplained'
    <3>1. SUFFICES ASSUME NEW b \in DOMAIN heap, b \notin Owned'
                   PROVE  \/ heap[b].for < Current
                          \/ heap[b].use = "response" /\ pc' \in {"answering",
                               "closing"}
      BY <1>1, <1>2, <1>5, <2>2 DEF LostExplained, Owned
    <3>2. CASE b \in Owned
      <4>1. b = session.buffer /\ session.buffer # None
        BY <3>1, <3>2 DEF Owned
      <4> QED BY <1>1, <1>3, <4>1
    <3>3. CASE b \notin Owned
      BY <1>1, <3>1, <3>3 DEF LostExplained
    <3> QED BY <3>2, <3>3
  <2>5. Text' = Text
    BY <1>2, <1>3, <2>2 DEF Text
  <2>6. /\ session.data # None => heap'[session.data].use = "request"
        /\ heap'[Fresh].use = "response"
    BY <1>3, <2>2
  <2> QED BY <1>5, <2>2, <2>3, <2>4, <2>5, <2>6 DEF MemoryOK
<1> QED BY <1>4, <1>5

-----------------------------------------------------------------------------
(* The steps. *)

\* http_send_response, by either attempt.
LEMMA SendResponseInvariant ==
  ASSUME IInv, pc \in {"complete", "retry"},
         NEW what \in {"reply", "general"},
         NEW otherwise \in {"closing", "retry"},
         otherwise = "retry" => pc = "complete",
         SendResponse(what, otherwise), UNCHANGED <<requests, received>>
  PROVE  IInv'
<1> DEFINE answer == [what |-> what, of |-> Text]
           block == [use |-> "response", for |-> Current, data |-> <<>>]
<1>1. /\ TypeOK /\ Progress /\ Blocks /\ Sent
      /\ Current \in 1..MaxRequests /\ Current' = Current
      /\ answer \in Answer
  BY Facts DEF IInv, Progress, Current, Answer
<1>2. CASE /\ pc' = otherwise
           /\ UNCHANGED wire
           /\ session'.data = session.data
           /\ session' \in [data : Nat \cup {None}, length : 0..MaxSize,
                            buffer : Nat \cup {None}, answer : Answer \cup {None}]
           /\ \/ /\ UNCHANGED <<heap, taken>>
                 /\ session'.buffer \in {session.buffer, None}
              \/ /\ session'.buffer = Fresh
                 /\ Allocate(heap, block)
  <2>1. MemoryOK' /\ Text' = Text
    BY <1>2, ResponseMemory
  <2>2. TypeOK'
    BY <1>1, <1>2, <2>1 DEF TypeOK, MemoryOK, HeapOK, Pc
  <2>3. Progress'
    BY <1>1, <1>2, <2>1 DEF Progress
  <2>4. Blocks'
    BY <1>1, <1>2, <2>1 DEF Blocks, MemoryOK, HeapOK
  <2>5. Sent'
    BY <1>1, <1>2 DEF Sent
  <2>6. AnswersOwnRequest' /\ OneAnswerEach'
    BY <1>2, WireKept
  <2> QED BY <2>1, <2>2, <2>3, <2>4, <2>5, <2>6 DEF IInv, MemoryOK
<1>3. CASE /\ pc' = "answering"
           /\ session' = [session EXCEPT !.buffer = Fresh, !.answer = answer]
           /\ Allocate(heap, block)
           /\ Written("headers", answer)
  <2>1. /\ session'.data = session.data /\ session'.buffer = Fresh
        /\ session'.answer = answer
        /\ session' \in [data : Nat \cup {None}, length : 0..MaxSize,
                         buffer : Nat \cup {None}, answer : Answer \cup {None}]
    BY <1>1, <1>3, Facts DEF TypeOK
  <2>2. MemoryOK' /\ Text' = Text
    BY <1>3, <2>1, ResponseMemory
  <2>3. /\ wire' \in Seq(Write)
        /\ Len(wire') = 2 * Current - 1
        /\ wire'[Len(wire')].part = "headers"
        /\ wire'[Len(wire')].answer = answer
        /\ \A i \in 1..Len(wire') : /\ wire'[i].part # "status"
                                    /\ wire'[i].to <= Current
        /\ AnswersOwnRequest'
        /\ OneAnswerEach'
    <3>1. answer.of = Text
      OBVIOUS
    <3> HIDE DEF answer
    <3> QED BY <1>1, <1>3, <3>1, HeadersWritten
  <2>4. TypeOK'
    BY <1>1, <1>3, <2>1, <2>2, <2>3 DEF TypeOK, MemoryOK, HeapOK, Pc, Write
  <2>5. Progress'
    BY <1>1, <1>3, <2>1 DEF Progress, BodyOf
  <2>6. Blocks'
    BY <1>1, <1>3, <2>2, <2>3 DEF Blocks, MemoryOK, HeapOK
  <2>7. Sent'
    BY <1>1, <1>3, <2>1, <2>3 DEF Sent
  <2> QED BY <2>2, <2>3, <2>4, <2>5, <2>6, <2>7 DEF IInv, MemoryOK
<1> QED
  <2>1. /\ session.data = session.data
        /\ session \in [data : Nat \cup {None}, length : 0..MaxSize,
                        buffer : Nat \cup {None}, answer : Answer \cup {None}]
        /\ Fresh \in Nat
    BY <1>1, Facts DEF TypeOK
  <2> QED BY <1>2, <1>3, <2>1 DEF SendResponse

\* http_handle_message up to the first response.
LEMMA HandleMessageInvariant == ASSUME IInv, HandleMessage PROVE IInv'
<1>1. pc = "complete" /\ UNCHANGED <<requests, received>>
  BY DEF HandleMessage
<1>2. CASE SendResponse("reply", "closing") \/ SendResponse("reply", "retry")
  BY <1>1, <1>2, SendResponseInvariant
<1>3. CASE pc' = "retry" /\ UNCHANGED <<session, heap, taken, wire>>
  <2>1. TypeOK' /\ Progress' /\ Blocks' /\ Sent' /\ SessionOwns'
    BY <1>1, <1>3 DEF IInv, TypeOK, Progress, Blocks, Sent, SessionOwns, Owned,
                      Current, Text, BodyOf, Pc
  <2>2. LostExplained'
    BY <1>1, <1>3 DEF IInv, LostExplained, Owned, Current
  <2> QED BY <1>1, <1>3, <2>1, <2>2, WireKept DEF IInv
<1> QED BY <1>2, <1>3 DEF HandleMessage

LEMMA GeneralErrorInvariant == ASSUME IInv, GeneralError PROVE IInv'
BY SendResponseInvariant DEF GeneralError

\* The body is written, or not.
LEMMA WriteableInvariant == ASSUME IInv, Writeable PROVE IInv'
<1>1. /\ pc = "answering" /\ pc' \in {"idle", "closing"}
      /\ UNCHANGED <<session, heap, taken, requests, received>>
  BY DEF Writeable
<1>2. Current' = Current /\ Current \in 1..MaxRequests /\ Owned' = Owned
  BY <1>1, Facts DEF IInv, Progress, Current, Owned
<1>3. Progress' /\ SessionOwns' /\ LostExplained'
  BY <1>1, <1>2 DEF IInv, Progress, SessionOwns, LostExplained
<1>4. CASE Written("body", session.answer)
  <2>1. /\ wire' \in Seq(Write)
        /\ Len(wire') = 2 * Current
        /\ \A i \in 1..Len(wire') : /\ wire'[i].part # "status"
                                    /\ wire'[i].to <= Current
        /\ AnswersOwnRequest'
        /\ OneAnswerEach'
    BY <1>1, <1>4, BodyWritten
  <2>2. TypeOK' /\ Blocks' /\ Sent'
    BY <1>1, <1>2, <2>1 DEF IInv, TypeOK, Blocks, Sent, Pc, Write
  <2> QED BY <1>3, <2>1, <2>2 DEF IInv
<1>5. CASE UNCHANGED wire /\ pc' = "closing"
  <2>1. TypeOK' /\ Blocks' /\ Sent'
    BY <1>1, <1>2, <1>5 DEF IInv, TypeOK, Blocks, Sent, Pc
  <2> QED BY <1>1, <1>3, <1>5, <2>1, WireKept DEF IInv
<1> QED BY <1>4, <1>5 DEF Writeable

\* The connection is closed.
LEMMA ClosedInvariant == ASSUME IInv, Closed PROVE IInv'
<1>1. /\ pc \in Pc /\ pc' = "closed"
      /\ DOMAIN heap' = DOMAIN heap \ Owned
      /\ \A b \in DOMAIN heap' : heap'[b] = heap[b]
      /\ UNCHANGED <<session, taken, requests, received, wire>>
  <2>1. None \notin DOMAIN heap
    BY Facts DEF IInv
  <2> QED BY <2>1 DEF IInv, TypeOK, Closed, Without, Owned
<1>2. Current' = Current /\ Owned' = Owned
  BY <1>1 DEF Current, Owned
<1>3. TypeOK' /\ Progress' /\ Blocks' /\ Sent' /\ SessionOwns'
  BY <1>1, <1>2 DEF IInv, TypeOK, Progress, Blocks, Sent, SessionOwns, Pc
<1>4. LostExplained'
  BY <1>1, <1>2 DEF IInv, LostExplained
<1> QED BY <1>1, <1>3, <1>4, WireKept DEF IInv

\* A new request, perhaps told at once that it is no POST.
LEMMA NewRequestInvariant == ASSUME IInv, NewRequest PROVE IInv'
<1>1. PICK r \in Request :
        /\ pc = "idle" /\ Current < MaxRequests
        /\ session' = Empty /\ received' = 0
        /\ requests' = Append(requests, r)
        /\ pc' = IF ~r.post THEN "closing"
                 ELSE IF r.length = 0 THEN "complete" ELSE "body"
        /\ wire' = IF r.post THEN wire
                   ELSE Append(wire, [part |-> "status", to |-> Current + 1,
                                      answer |-> None])
        /\ UNCHANGED <<heap, taken>>
  <2>1. PICK length \in Lengths, post \in BOOLEAN :
          /\ requests' = Append(requests, [length |-> length, post |-> post])
          /\ pc' = IF ~post THEN "closing"
                   ELSE IF length = 0 THEN "complete" ELSE "body"
          /\ wire' = IF post THEN wire
                     ELSE Append(wire, [part |-> "status", to |-> Current + 1,
                                        answer |-> None])
    BY DEF NewRequest
  <2>2. [length |-> length, post |-> post] \in Request
    BY DEF Request
  <2> QED BY <2>1, <2>2 DEF NewRequest, Forgotten
<1>2. /\ TypeOK /\ Blocks /\ Sent /\ AnswersOwnRequest /\ OneAnswerEach
      /\ Current \in Nat /\ Len(wire) = 2 * Current
      /\ \A i \in 1..Len(wire) : wire[i].part # "status" /\ wire[i].to <= Current
  <2>1. TypeOK /\ Blocks /\ Sent /\ AnswersOwnRequest /\ OneAnswerEach
    BY DEF IInv
  <2>2. Current \in Nat
    BY <2>1, Facts, SessionAssumption
  <2> QED BY <1>1, <2>1, <2>2 DEF Blocks, Sent
<1>3. /\ requests' \in Seq(Request)
      /\ Current' = Current + 1 /\ Current' \in 1..MaxRequests
      /\ \A n \in 1..Current : requests'[n] = requests[n]
      /\ requests'[Current'] = r
  <2>1. requests \in Seq(Request)
    BY <1>2, Facts
  <2> QED BY <1>1, <1>2, <2>1, AppendProperties, SessionAssumption DEF Current
<1>4. r.length \in Nat /\ r.post \in BOOLEAN
  BY SessionAssumption DEF Request
<1>5. session'.data = None /\ session'.buffer = None /\ Owned' = {}
  BY <1>1 DEF Empty, Owned
<1>6. /\ wire' \in Seq(Write)
      /\ r.post => wire' = wire
      /\ \A i \in 1..Len(wire') :
           \/ /\ i \in 1..Len(wire)
              /\ wire'[i] = wire[i]
              /\ FromOwn(wire', requests', i)
              /\ Paired(wire', i)
           \/ /\ ~r.post
              /\ i = Len(wire') /\ wire'[i].part = "status"
              /\ wire'[i].to = Current + 1 /\ i = 2 * Current + 1
  <2>1. CASE r.post
    <3>1. ASSUME NEW i \in 1..Len(wire)
          PROVE  /\ FromOwn(wire, requests', i)
                 /\ Paired(wire, i)
      <4>1. wire[i] \in Write
        BY <1>2, Facts, ElementOfSeq
      <4>2. wire[i].to \in 1..Current
        BY <1>2, <4>1, Facts DEF Write
      <4>3. FromOwn(wire, requests, i)
        BY <1>2, <3>1 DEF AnswersOwnRequest, FromOwn, BodyOf
      <4> QED BY <1>2, <1>3, <3>1, <4>2, <4>3 DEF FromOwn, Paired, OneAnswerEach
    <3> QED BY <1>1, <1>2, <2>1, <3>1, Facts
  <2>2. CASE ~r.post
    <3> DEFINE w == [part |-> "status", to |-> Current + 1, answer |-> None]
    <3>1. w \in Write
      BY <1>1, <1>2, <1>3 DEF Write
    <3>2. wire' = Append(wire, w)
      BY <1>1, <2>2
    <3>3. w.part = "status" /\ w.to = Current + 1
      OBVIOUS
    <3> HIDE DEF w
    <3>4. /\ wire' \in Seq(Write)
          /\ Len(wire') = Len(wire) + 1
          /\ wire'[Len(wire) + 1] = w
      BY <1>2, <3>1, <3>2, WireGrows
    <3>5. \A i \in 1..Len(wire) : /\ wire'[i] = wire[i]
                                  /\ FromOwn(wire', requests', i)
                                  /\ Paired(wire', i)
      BY <1>1, <1>3, <3>1, <3>2, OldWrites
    <3>6. \A i \in 1..Len(wire') : i \in 1..Len(wire) \/ i = Len(wire) + 1
      BY <1>2, <3>4
    <3> QED BY <1>2, <2>2, <3>3, <3>4, <3>5, <3>6
  <2> QED BY <2>1, <2>2
<1>7. TypeOK'
  <2>1. session' \in [data : Nat \cup {None}, length : 0..MaxSize,
                      buffer : Nat \cup {None}, answer : Answer \cup {None}]
    BY <1>1, SessionAssumption DEF Empty
  <2> QED BY <1>1, <1>2, <1>3, <1>4, <1>6, <2>1 DEF TypeOK, Pc, Request, Write
<1>8. Progress'
  <2>1. Text' = <<>>
    BY <1>1, <1>2, <1>5, Facts DEF Text
  <2>2. <<>> = [i \in 1..received' |-> <<Current', i>>]
    BY <1>1
  <2> QED BY <1>1, <1>3, <1>4, <1>5, <2>1, <2>2 DEF Progress
<1>9. Blocks'
  <2>1. \A b \in DOMAIN heap' : heap'[b].for <= Current'
    <3> TAKE b \in DOMAIN heap'
    <3>1. heap[b].for \in Nat /\ heap[b].for <= Current
      BY <1>1, <1>2 DEF TypeOK, Blocks, Block
    <3> QED BY <1>1, <1>2, <1>3, <3>1
  <2>2. \A i \in 1..Len(wire') : wire'[i].to <= Current'
    <3> TAKE i \in 1..Len(wire')
    <3>1. wire'[i].to <= Current \/ wire'[i].to = Current + 1
      BY <1>2, <1>6
    <3>2. wire'[i] \in Write
      BY <1>6, ElementOfSeq
    <3>3. wire'[i].to \in Nat
      BY <3>2 DEF Write
    <3> QED BY <1>2, <1>3, <3>1, <3>3
  <2> QED BY <1>5, <2>1, <2>2 DEF Blocks
<1>10. Sent'
  <2>1. CASE r.post
    <3>1. /\ wire' = wire /\ Len(wire') = 2 * Current' - 2
          /\ pc' \in {"body", "complete"}
      BY <1>1, <1>2, <1>3, <1>6, <2>1
    <3> QED BY <1>2, <3>1 DEF Sent
  <2>2. CASE ~r.post
    BY <1>1, <2>2 DEF Sent
  <2> QED BY <2>1, <2>2
<1>11. SessionOwns' /\ LostExplained'
  <2>1. \A b \in DOMAIN heap' : heap'[b].for < Current'
    <3> TAKE b \in DOMAIN heap'
    <3>1. heap[b].for \in Nat /\ heap[b].for <= Current
      BY <1>1, <1>2 DEF TypeOK, Blocks, Block
    <3> QED BY <1>1, <1>2, <1>3, <3>1
  <2> QED BY <1>5, <2>1 DEF SessionOwns, LostExplained
<1>12. AnswersOwnRequest'
  BY <1>6 DEF AnswersOwnRequest, FromOwn, BodyOf
<1>13. OneAnswerEach'
  <2>1. SUFFICES ASSUME NEW i \in 1..Len(wire')
                 PROVE  /\ wire'[i].to = (i + 1) \div 2
                        /\ \/ Paired(wire', i)
                           \/ wire'[i].part = "status" /\ i = Len(wire')
    BY DEF OneAnswerEach, Paired
  <2>2. (2 * Current + 1 + 1) \div 2 = Current + 1
    BY <1>2
  <2> QED BY <1>6, <2>2 DEF Paired
<1> QED BY <1>7, <1>8, <1>9, <1>10, <1>11, <1>12, <1>13 DEF IInv

\* A chunk of the body: it is put behind the others, or the session is given up.
LEMMA BodyInvariant ==
  ASSUME IInv, NEW k \in 1..MaxSize, Body(k)
  PROVE  IInv'
<1>1. /\ TypeOK /\ Progress /\ Blocks /\ Sent /\ SessionOwns /\ LostExplained
      /\ pc = "body" /\ session.buffer = None
      /\ k \in 1..(requests[Current].length - received)
      /\ received' = received + k
      /\ UNCHANGED <<requests, wire>>
  BY DEF IInv, Progress, Body
<1>2. /\ Current \in 1..MaxRequests /\ Current' = Current
      /\ requests[Current].length \in Nat
      /\ received \in Nat /\ received' \in Nat /\ k \in Nat
      /\ received' <= requests[Current].length
  <2>1. Current \in 1..MaxRequests
    BY <1>1, Facts DEF Progress
  <2>2. requests[Current].length \in Nat
    BY <1>1, <2>1, Facts
  <2> QED BY <1>1, <2>1, <2>2, SessionAssumption DEF TypeOK, Current
<1>3. /\ Fresh \notin DOMAIN heap /\ None \notin DOMAIN heap /\ Fresh # None
      /\ Fresh \in Nat
  BY <1>1, Facts
<1>4. CASE /\ pc' = "closing"
           /\ session' \in {session, [session EXCEPT !.data = None]}
           /\ UNCHANGED <<heap, taken>>
  <2>1. /\ session'.data \in {session.data, None} /\ session'.buffer = None
        /\ session' \in [data : Nat \cup {None}, length : 0..MaxSize,
                         buffer : Nat \cup {None}, answer : Answer \cup {None}]
    BY <1>1, <1>4 DEF TypeOK
  <2>2. TypeOK' /\ Progress' /\ Sent'
    BY <1>1, <1>2, <1>4, <2>1 DEF TypeOK, Progress, Sent, Pc
  <2>3. Blocks'
    BY <1>1, <1>2, <1>4, <2>1 DEF Blocks
  <2>4. SessionOwns'
    BY <1>1, <1>2, <1>4, <2>1 DEF SessionOwns, Owned
  <2>5. LostExplained'
    <3> SUFFICES ASSUME NEW b \in DOMAIN heap, b \notin Owned'
                 PROVE  \/ heap[b].for < Current
                        \/ heap[b].use = "request" /\ session'.data = None
      BY <1>2, <1>4 DEF LostExplained
    <3>1. CASE b \in Owned
      BY <1>1, <2>1, <3>1 DEF Owned, Blocks
    <3>2. CASE b \notin Owned
      BY <1>1, <3>2 DEF LostExplained
    <3> QED BY <3>1, <3>2
  <2> QED BY <1>1, <2>2, <2>3, <2>4, <2>5, WireKept DEF IInv
<1>5. CASE /\ ~TooLong(k)
           /\ pc' = IF received' = requests[Current].length THEN "complete"
                                                           ELSE "body"
           /\ session' = [session EXCEPT !.data = Fresh, !.length = @ + k]
           /\ Allocate(Grown, [use |-> "request", for |-> Current,
                               data |-> Text \o Chunk(k)])
  <2> DEFINE text == [i \in 1..received' |-> <<Current, i>>]
             block == [use |-> "request", for |-> Current,
                       data |-> Text \o Chunk(k)]
  <2>1. Text \o Chunk(k) = text /\ text \in Seq(Byte)
    <3>1. Text = [i \in 1..received |-> <<Current, i>>]
      BY <1>1 DEF Progress
    <3> QED BY <1>1, <1>2, <3>1, BodyGrows DEF Chunk
  <2>2. /\ block \in Block /\ block.for = Current
        /\ block.use = "request" /\ block.data = text
    BY <1>2, <2>1 DEF Block
  <2>3. /\ DOMAIN Grown = DOMAIN heap \ {session.data}
        /\ \A b \in DOMAIN Grown : Grown[b] = heap[b]
    BY DEF Grown, Without
  <2>4. /\ session'.data = Fresh /\ session'.buffer = None
        /\ session' \in [data : Nat \cup {None}, length : 0..MaxSize,
                         buffer : Nat \cup {None}, answer : Answer \cup {None}]
    <3>1. /\ session \in [data : Nat \cup {None}, length : 0..MaxSize,
                          buffer : Nat \cup {None}, answer : Answer \cup {None}]
          /\ session' = [session EXCEPT !.data = Fresh,
                                        !.length = session.length + k]
      BY <1>1, <1>5 DEF TypeOK
    <3>2. session.length + k \in 0..MaxSize
      BY <1>2, <1>5, <3>1, SessionAssumption DEF TooLong
    <3> QED BY <1>1, <1>3, <3>1, <3>2
  <2>5. /\ HeapOK'
        /\ DOMAIN heap' = (DOMAIN heap \ {session.data}) \cup {Fresh}
        /\ heap'[Fresh] = block
        /\ \A b \in DOMAIN heap \ {session.data} : heap'[b] = heap[b]
    <3>1. Allocate(Grown, block)
      BY <1>5
    <3> HIDE DEF block
    <3> QED BY <1>1, <2>2, <2>3, <3>1, Allocation
  <2> HIDE DEF block
  <2>6. Text' = text
    BY <2>2, <2>4, <2>5 DEF Text
  <2>7. pc' \in {"body", "complete"}
    BY <1>5
  <2>8. TypeOK'
    BY <1>1, <1>2, <2>4, <2>5, <2>7 DEF TypeOK, HeapOK, Pc
  <2>9. Progress'
    <3>1. pc' = "body" => received' < requests'[Current'].length
      BY <1>1, <1>2, <1>5
    <3>2. pc' = "complete" => received' = requests'[Current'].length
      BY <1>1, <1>2, <1>5
    <3> QED BY <1>2, <2>4, <2>6, <2>7, <3>1, <3>2 DEF Progress
  <2>10. Blocks'
    BY <1>1, <1>2, <2>2, <2>4, <2>5 DEF Blocks, HeapOK
  <2>11. Sent'
    BY <1>1, <1>2, <2>7 DEF Sent
  <2>12. SessionOwns'
    BY <1>2, <1>3, <2>2, <2>4, <2>5 DEF SessionOwns, Owned
  <2>13. LostExplained'
    <3> SUFFICES ASSUME NEW b \in DOMAIN heap', b \notin Owned'
                 PROVE  heap'[b].for < Current
      BY <1>2, <2>7 DEF LostExplained
    <3>1. b \in DOMAIN heap \ {session.data}
      BY <1>3, <2>4, <2>5 DEF Owned
    <3>2. b \notin Owned
      BY <1>1, <3>1 DEF Owned
    <3> QED BY <1>1, <2>5, <3>1, <3>2 DEF LostExplained
  <2> QED BY <1>1, <2>8, <2>9, <2>10, <2>11, <2>12, <2>13, WireKept DEF IInv
<1> QED
  <2>1. session \in {session, [session EXCEPT !.data = None]}
    OBVIOUS
  <2> QED BY <1>4, <1>5, <2>1 DEF Body

LEMMA NextInvariant == IInv /\ [Next]_vars => IInv'
<1> SUFFICES ASSUME IInv, [Next]_vars PROVE IInv'
  OBVIOUS
<1>1. CASE NewRequest
  BY <1>1, NewRequestInvariant
<1>2. CASE \E k \in 1..MaxSize : Body(k)
  BY <1>2, BodyInvariant
<1>3. CASE HandleMessage
  BY <1>3, HandleMessageInvariant
<1>4. CASE GeneralError
  BY <1>4, GeneralErrorInvariant
<1>5. CASE Writeable
  BY <1>5, WriteableInvariant
<1>6. CASE Closed
  BY <1>6, ClosedInvariant
<1>7. CASE UNCHANGED vars
  <2>1. /\ TypeOK' /\ Progress' /\ Blocks' /\ Sent'
        /\ SessionOwns' /\ LostExplained'
    BY <1>7 DEF IInv, TypeOK, Progress, Blocks, Sent, SessionOwns,
                LostExplained, Owned, Current, Text, BodyOf, vars
  <2> QED BY <1>7, <2>1, WireKept DEF IInv, vars
<1> QED BY <1>1, <1>2, <1>3, <1>4, <1>5, <1>6, <1>7 DEF Next

-----------------------------------------------------------------------------
(* The theorems. *)

\* The inductive invariant holds of the sessions of http/http.c.
THEOREM Invariant == Spec => []IInv
BY InitInvariant, NextInvariant, PTL DEF Spec

\* A session, its blocks and what it writes keep their types; its request never
\* gets longer than HTTP_MAX_PACKET_SIZE.
THEOREM TypeCorrect == Spec => []TypeOK
<1>1. IInv => TypeOK
  BY DEF IInv
<1> QED BY Invariant, <1>1, PTL

\* Whatever http.c uses or frees through the pointers of a session is a block
\* of that session, allocated for the request in hand.
THEOREM SessionOwnsHolds == Spec => []SessionOwns
<1>1. IInv => SessionOwns
  BY DEF IInv
<1> QED BY Invariant, <1>1, PTL

\* What http_handle_message answers is the whole body of the request in hand,
\* however it was cut into chunks and whatever came before it.
THEOREM AnswersOwnRequestHolds == Spec => []AnswersOwnRequest
<1>1. IInv => AnswersOwnRequest
  BY DEF IInv
<1> QED BY Invariant, <1>1, PTL

\* http_send_response and the writeable callback write one answer for each
\* request, headers and body, in the order of the requests.
THEOREM OneAnswerEachHolds == Spec => []OneAnswerEach
<1>1. IInv => OneAnswerEach
  BY DEF IInv
<1> QED BY Invariant, <1>1, PTL

\* The callbacks of http.c lose no memory but by the next request, a second
\* response, or a realloc that failed.
THEOREM LostExplainedHolds == Spec => []LostExplained
<1>1. IInv => LostExplained
  BY DEF IInv
<1> QED BY Invariant, <1>1, PTL

-----------------------------------------------------------------------------
(* How long a request takes: what RequestsEnd rests on besides fairness. *)

\* How many callbacks a complete request may still take.
CallbacksLeft == CASE pc = "complete"  -> 4
                   [] pc = "retry"     -> 3
                   [] pc = "answering" -> 2
                   [] pc = "closing"   -> 1
                   [] OTHER            -> 0

LEMMA ResponseAdvances ==
  ASSUME NEW what, NEW otherwise \in {"retry", "closing"},
         SendResponse(what, otherwise)
  PROVE  pc' \in {"answering", otherwise}
BY DEF SendResponse

\* What is written is the last of what was written.
LEMMA LastWritten ==
  ASSUME IInv, pc = "answering", Written("body", session.answer)
  PROVE  \E i \in 1..Len(wire') :
           wire'[i].part = "body" /\ wire'[i].to = Current
<1> DEFINE last == [part |-> "body", to |-> Current, answer |-> session.answer]
<1>1. wire' = Append(wire, last) /\ Len(wire) \in Nat
  BY DEF Written, IInv, TypeOK
<1>2. last.part = "body" /\ last.to = Current
  OBVIOUS
<1> HIDE DEF last
<1>3. /\ Len(wire') = Len(wire) + 1
      /\ wire'[Len(wire) + 1] = last
  BY <1>1 DEF IInv, TypeOK
<1>4. Len(wire) + 1 \in 1..Len(wire')
  BY <1>1, <1>3
<1> QED BY <1>2, <1>3, <1>4

\* A complete request is over after at most four callbacks: each is one less,
\* none is for another request, and the last closes the connection or has
\* written the body of the answer.
THEOREM RequestsBounded ==
  Spec => [][CallbacksLeft > 0 =>
               /\ CallbacksLeft' < CallbacksLeft
               /\ requests' = requests
               /\ CallbacksLeft' = 0 =>
                    \/ pc' = "closed"
                    \/ \E i \in 1..Len(wire') :
                         wire'[i].part = "body" /\ wire'[i].to = Current]_vars
<1> DEFINE Handling == {"complete", "retry", "answering", "closing"}
           Ended == \/ pc' = "closed"
                    \/ \E i \in 1..Len(wire') :
                         wire'[i].part = "body" /\ wire'[i].to = Current
<1>1. ASSUME IInv, Next, pc \in Handling
      PROVE  /\ CallbacksLeft' < CallbacksLeft
             /\ requests' = requests
             /\ pc' \notin Handling => Ended
  <2>1. CASE HandleMessage
    <3>1. /\ pc = "complete" /\ requests' = requests
          /\ pc' \in {"answering", "retry", "closing"}
      BY <2>1, ResponseAdvances DEF HandleMessage
    <3> QED BY <3>1 DEF CallbacksLeft
  <2>2. CASE GeneralError
    <3>1. /\ pc = "retry" /\ requests' = requests
          /\ pc' \in {"answering", "closing"}
      BY <2>2, ResponseAdvances DEF GeneralError
    <3> QED BY <3>1 DEF CallbacksLeft
  <2>3. CASE Writeable
    <3>1. /\ pc = "answering" /\ requests' = requests
          /\ pc' \in {"idle", "closing"}
          /\ pc' = "idle" => Written("body", session.answer)
      BY <2>3 DEF Writeable
    <3>2. pc' = "idle" => Ended
      BY <1>1, <3>1, LastWritten
    <3> HIDE DEF Ended
    <3> QED BY <3>1, <3>2 DEF CallbacksLeft
  <2>4. CASE Closed
    <3>1. pc' = "closed" /\ requests' = requests
      BY <2>4 DEF Closed
    <3> QED BY <1>1, <3>1 DEF CallbacksLeft
  <2>5. ~NewRequest /\ ~(\E k \in 1..MaxSize : Body(k))
    BY <1>1 DEF NewRequest, Body
  <2> QED BY <1>1, <2>1, <2>2, <2>3, <2>4, <2>5 DEF Next
<1>2. /\ CallbacksLeft > 0 <=> pc \in Handling
      /\ CallbacksLeft' = 0 <=> pc' \notin Handling
  BY DEF CallbacksLeft
<1> HIDE DEF Handling
<1>3. IInv /\ [Next]_vars =>
        [CallbacksLeft > 0 =>
           /\ CallbacksLeft' < CallbacksLeft
           /\ requests' = requests
           /\ CallbacksLeft' = 0 => Ended]_vars
  BY <1>1, <1>2
<1> QED BY <1>3, Invariant, PTL DEF Spec
=============================================================================
