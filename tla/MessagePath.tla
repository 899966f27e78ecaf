----------------------------- MODULE MessagePath -----------------------------
(***************************************************************************)
(* The path of a PTP datagram through the server: udp/udp.c receives it    *)
(* into a buffer of the udp pool and hands it to ptp/ptp.c through the     *)
(* receive ring; ptp/tasks/ptp_tasks.c handles it, taking buffers of the   *)
(* ptp pool for its replies and queueing them in the transmit ring; then   *)
(* udp/udp.c drains that ring to the sockets.                              *)
(*                                                                         *)
(* One libuv thread runs all of it.  A poll callback (udp_poll) is one     *)
(* passage from pc = "idle" back to "idle"; pc names the function the      *)
(* thread is in, and every action is one call of the code.                 *)
(*                                                                         *)
(* A datagram is abstracted to what decides its way: its kind, the socket  *)
(* it came in on, who sent it and how many unicast requests it carries.    *)
(* The contents of the database, the verdict of the authentication check   *)
(* and the outcome of system calls are choices of the environment.         *)
(***************************************************************************)
EXTENDS Integers, Sequences, FiniteSets

CONSTANTS PoolSize,       \* COMMON_MEMPOOL_SIZE
          RingSize,       \* COMMON_RING_SIZE
          MaxTlv,         \* PTP_MAX_TLV_COUNT
          Client,         \* the addresses datagrams come from
          None            \* "no value"

ASSUME SizeAssumption == /\ PoolSize \in Nat /\ PoolSize >= 2
                         /\ RingSize \in Nat /\ RingSize >= PoolSize
ASSUME DataAssumption == MaxTlv \in Nat

Item == 0..(PoolSize - 1)

Pool == INSTANCE Mempool WITH Count <- PoolSize
Ring == INSTANCE Ring WITH Length <- RingSize, Content <- Item, Nothing <- None

PortType == {"event", "general"}

\* "undecodable" stands for every datagram ptp_decode_message refuses or whose
\* type has no case; "ignored" for sync, delay response and announce.
DatagramKind == {"undecodable", "ignored", "delay_request", "signaling",
                 "management"}

\* Only the unicast requests of a datagram are counted: the signaling handler
\* skips its other TLVs, the management handler's TLVs change no state here.
Datagram == {dg \in [kind : DatagramKind, port : PortType, client : Client,
                     tlvs : 0..MaxTlv] :
               dg.kind # "signaling" => dg.tlvs = 0}

\* "granted" is the sync or announce message a unicast request asks for.
ReplyKind == {"delay_response", "signaling", "granted", "management", "error"}

\* ready: the reply was encoded, that is buffer.length is not 0.
Reply == [kind : ReplyKind, client : Client, ready : BOOLEAN]

ASSUME NoneAssumption == None \notin Item \cup Datagram \cup Reply

VARIABLES pc,        \* the function the loop's thread is in
          udpPool,   \* udp_state.mempool
          ptpPool,   \* ptp_state.mempool
          rxRing,    \* ptp_state.rx_ring
          txRing,    \* ptp_state.tx_ring
          datagram,  \* what the udp pool's descriptors in use hold
          reply,     \* what the ptp pool's descriptors in use hold
          request,   \* the request in hand (local of ptp_handle_message)
          response,  \* transaction.response of the signaling handler
          tlv,       \* the loop index i of the signaling handler
          own,       \* history: descriptors given out for the request in hand
          sendtoFails \* whether sendto() can report an error, once and for all

vars == <<pc, udpPool, ptpPool, rxRing, txRing, datagram, reply, request,
          response, tlv, own, sendtoFails>>

Control == {"idle", "handle", "delay_request", "signaling", "tlv",
            "management", "failed", "release", "drain", "aborted"}

TypeOK == /\ pc \in Control
          /\ udpPool \in Pool!Pool
          /\ ptpPool \in Pool!Pool
          /\ rxRing \in Ring!RingState
          /\ txRing \in Ring!RingState
          /\ datagram \in [Item -> Datagram \cup {None}]
          /\ reply \in [Item -> Reply \cup {None}]
          /\ request \in Item \cup {None}
          /\ response \in Item \cup {None}
          /\ tlv \in 0..MaxTlv
          /\ own \subseteq Item
          /\ sendtoFails \in BOOLEAN

Init == /\ pc = "idle"
        /\ udpPool = Pool!Setup
        /\ ptpPool = Pool!Setup
        /\ rxRing = Ring!Setup
        /\ txRing = Ring!Setup
        /\ datagram = [d \in Item |-> None]
        /\ reply = [d \in Item |-> None]
        /\ request = None
        /\ response = None
        /\ tlv = 0
        /\ own = {}
        /\ sendtoFails \in BOOLEAN

-----------------------------------------------------------------------------
(* udp_poll, first half: one datagram is received. *)

\* util_mempool_get finds no buffer: udp_receive_message returns -ENOMEM and
\* leaves the datagram in the socket.  Otherwise the datagram goes into the
\* buffer and ptp_enqueue_message puts it into the receive ring; if the ring
\* refuses it nobody returns the buffer.
UdpReceiveMessage(dg) ==
  LET item == Pool!NextFree(udpPool)
      hasBuffer == Pool!HasFree(udpPool)
      accepted == hasBuffer /\ Ring!HasRoom(rxRing)
  IN /\ pc = "idle"
     /\ pc' = IF accepted THEN "handle" ELSE "drain"
     /\ udpPool' = IF hasBuffer THEN Pool!Get(udpPool) ELSE udpPool
     /\ datagram' = IF hasBuffer THEN [datagram EXCEPT ![item] = dg]
                                 ELSE datagram
     /\ rxRing' = IF accepted THEN Ring!Put(rxRing, item) ELSE rxRing
     /\ UNCHANGED <<sendtoFails, ptpPool, txRing, reply, request, response, tlv,
                    own>>

\* recvfrom fails (a spurious wake-up, a pending socket error): the buffer goes
\* straight back.
UdpReceiveFails ==
  LET item == Pool!NextFree(udpPool)
      taken == Pool!Get(udpPool)
  IN /\ pc = "idle"
     /\ Pool!HasFree(udpPool)
     /\ udpPool' = Pool!Put(taken)
     /\ pc' = IF Pool!InOrder(taken, item) THEN "drain" ELSE "aborted"
     /\ UNCHANGED <<sendtoFails, ptpPool, rxRing, txRing, datagram, reply,
                    request, response, tlv, own>>

-----------------------------------------------------------------------------
(* ptp_handle_message and the handlers it calls. *)

\* Mutant: a request on the wrong socket is dropped without an error.
HandlerOfSilent(dg) ==
  CASE dg.kind = "delay_request" /\ dg.port = "event"       -> "delay_request"
    [] dg.kind = "signaling"     /\ dg.port = "event"       -> "signaling"
    [] dg.kind = "management"    /\ dg.port = "general"     -> "management"
    [] dg.kind = "undecodable"                              -> "failed"
    [] OTHER                                                -> "release"

\* The handler a decoded message goes to; a request on the wrong socket is
\* refused by the handler before it takes a buffer.
HandlerOf(dg) ==
  CASE dg.kind = "ignored"                                  -> "release"
    [] dg.kind = "delay_request" /\ dg.port = "event"       -> "delay_request"
    [] dg.kind = "signaling"     /\ dg.port = "event"       -> "signaling"
    [] dg.kind = "management"    /\ dg.port = "general"     -> "management"
    [] OTHER                                                -> "failed"

\* util_ring_get, ptp_decode_message and the switch over the message type.
PtpHandleMessage ==
  LET item == Ring!First(rxRing)
  IN /\ pc = "handle"
     /\ IF Ring!IsEmpty(rxRing)
          THEN pc' = "drain" /\ UNCHANGED <<rxRing, request>>
          ELSE /\ rxRing' = Ring!Get(rxRing)
               /\ request' = item
               /\ pc' = HandlerOf(datagram[item])
     /\ UNCHANGED <<sendtoFails, udpPool, ptpPool, txRing, datagram, reply,
                    response, tlv, own>>

\* ptp_get_and_init_response, and ptp_finalize_message when "ready": a buffer
\* for a reply to the request in hand is taken and queued in the transmit
\* ring.  Control goes to "onward", or to "refused" when there is no buffer;
\* when the ring is full the buffer is put back, in whatever order that is.
Respond(kind, ready, onward, refused) ==
  LET item == Pool!NextFree(ptpPool)
      taken == Pool!Get(ptpPool)
      hasBuffer == Pool!HasFree(ptpPool)
      queued == hasBuffer /\ Ring!HasRoom(txRing)
      new == [kind |-> kind, client |-> datagram[request].client,
              ready |-> ready]
      outOfOrder == hasBuffer /\ ~Pool!InOrder(taken, item)
  IN /\ pc' = IF queued THEN onward
              ELSE IF outOfOrder THEN "aborted" ELSE refused
     /\ ptpPool' = IF queued THEN taken
                   ELSE IF hasBuffer THEN Pool!Put(taken) ELSE ptpPool
     /\ txRing' = IF queued THEN Ring!Put(txRing, item) ELSE txRing
     /\ reply' = IF queued THEN [reply EXCEPT ![item] = new] ELSE reply
     /\ own' = IF queued THEN own \cup {item} ELSE own

HandleDelayRequest ==
  /\ pc = "delay_request"
  /\ Respond("delay_response", TRUE, "release", "failed")
  /\ UNCHANGED <<sendtoFails, udpPool, rxRing, datagram, request, response,
                 tlv>>

\* The reply is finished after the TLVs, whatever became of them, and encoding
\* it may fail (too long for the buffer); the handler reports success anyway.
\* (A reply that MessageCodec's Overrun gave a length counts as encoded.)
HandleManagement ==
  /\ pc = "management"
  /\ \E encoded \in BOOLEAN :
       Respond("management", encoded, "release", "failed")
  /\ UNCHANGED <<sendtoFails, udpPool, rxRing, datagram, request, response,
                 tlv>>

\* The signaling reply is queued before the TLVs are looked at.
SignalingStart ==
  /\ pc = "signaling"
  /\ Respond("signaling", FALSE, "tlv", "failed")
  /\ response' = IF Pool!HasFree(ptpPool) THEN Pool!NextFree(ptpPool) ELSE None
  /\ UNCHANGED <<sendtoFails, udpPool, rxRing, datagram, request, tlv>>

InTlvLoop == pc = "tlv" /\ tlv < datagram[request].tlvs

\* Mutant: the error message is queued without being encoded.
TlvDeniedUnfinished ==
  /\ InTlvLoop
  /\ Respond("error", FALSE, "tlv", "failed")
  /\ tlv' = tlv + 1
  /\ UNCHANGED <<sendtoFails, udpPool, rxRing, datagram, request, response>>

\* ptp_handle_tlv_request_unicast: the sender may not use the clock, an error
\* message of its own says so and the loop goes on.
TlvDenied ==
  /\ InTlvLoop
  /\ Respond("error", TRUE, "tlv", "failed")
  /\ tlv' = tlv + 1
  /\ UNCHANGED <<sendtoFails, udpPool, rxRing, datagram, request, response>>

\* ... the sender may: a sync or an announce message is sent.
TlvGranted ==
  /\ InTlvLoop
  /\ Respond("granted", TRUE, "tlv", "failed")
  /\ tlv' = tlv + 1
  /\ UNCHANGED <<sendtoFails, udpPool, rxRing, datagram, request, response>>

\* Mutant: a request for another type ends the handler as if it had succeeded.
TlvInvalidSilent ==
  /\ InTlvLoop
  /\ pc' = "release"
  /\ UNCHANGED <<sendtoFails, udpPool, ptpPool, rxRing, txRing, datagram, reply,
                 request, response, tlv, own>>

\* ... the message type asked for cannot be sent: -EINVAL.
TlvInvalid ==
  /\ InTlvLoop
  /\ pc' = "failed"
  /\ UNCHANGED <<sendtoFails, udpPool, ptpPool, rxRing, txRing, datagram, reply,
                 request, response, tlv, own>>

\* ptp_finalize_message on the signaling reply.
SignalingFinish ==
  /\ pc = "tlv"
  /\ tlv = datagram[request].tlvs
  /\ reply' = [reply EXCEPT ![response].ready = TRUE]
  /\ pc' = "release"
  /\ UNCHANGED <<sendtoFails, udpPool, ptpPool, rxRing, txRing, datagram,
                 request, response, tlv, own>>

\* A request that failed is answered by a "General error" message.
GeneralError ==
  /\ pc = "failed"
  /\ Respond("error", TRUE, "release", "release")
  /\ UNCHANGED <<sendtoFails, udpPool, rxRing, datagram, request, response,
                 tlv>>

\* Mutant: udp_poll returns when no error message could be queued, without
\* sending what is in the ring.
ReleaseUndrained ==
  /\ pc = "release"
  /\ udpPool' = Pool!Put(udpPool)
  /\ datagram' = [datagram EXCEPT ![request] = None]
  /\ pc' = IF Pool!HasFree(ptpPool) THEN "drain" ELSE "idle"
  /\ request' = None
  /\ response' = None
  /\ tlv' = 0
  /\ own' = {}
  /\ UNCHANGED <<sendtoFails, ptpPool, rxRing, txRing, reply>>

\* The end of ptp_handle_message: the request's buffer is returned.  (The
\* handlers' local variables end here; a returned buffer is not read again.)
ReleaseRequest ==
  /\ pc = "release"
  /\ udpPool' = Pool!Put(udpPool)
  /\ datagram' = [datagram EXCEPT ![request] = None]
  /\ pc' = IF Pool!InOrder(udpPool, request) THEN "drain" ELSE "aborted"
  /\ request' = None
  /\ response' = None
  /\ tlv' = 0
  /\ own' = {}
  /\ UNCHANGED <<sendtoFails, ptpPool, rxRing, txRing, reply>>

-----------------------------------------------------------------------------
(* udp_poll, second half: udp_send_message until it returns an error. *)

\* ptp_dequeue_message finds a reply, the oldest one.
Dequeuing == pc = "drain" /\ ~Ring!IsEmpty(txRing)

Oldest == reply[Ring!First(txRing)]

\* It is taken off the transmit ring and its buffer returned, sent or not.
Dequeue(next) ==
  LET item == Ring!First(txRing)
  IN /\ txRing' = Ring!Get(txRing)
     /\ ptpPool' = Pool!Put(ptpPool)
     /\ reply' = [reply EXCEPT ![item] = None]
     /\ pc' = IF Pool!InOrder(ptpPool, item) THEN next ELSE "aborted"
     /\ UNCHANGED <<sendtoFails, udpPool, rxRing, datagram, request, response,
                    tlv, own>>

SendReply == Dequeuing /\ Oldest.ready /\ Dequeue("drain")

\* sendto reports an error: the loop of udp_poll ends.
SendFails == sendtoFails /\ Dequeuing /\ Oldest.ready /\ Dequeue("idle")

\* Mutant: an unfinished reply stays at the front of the ring.
DropUnfinishedKept ==
  /\ Dequeuing
  /\ ~Oldest.ready
  /\ pc' = "idle"
  /\ UNCHANGED <<sendtoFails, udpPool, ptpPool, rxRing, txRing, datagram, reply,
                 request, response, tlv, own>>

\* A reply that was never encoded is dropped with -EINVAL: the loop ends.
DropUnfinished == Dequeuing /\ ~Oldest.ready /\ Dequeue("idle")

\* Mutant: the loop goes on when there is nothing to send.
DrainEndsRetries ==
  /\ pc = "drain"
  /\ Ring!IsEmpty(txRing)
  /\ UNCHANGED vars

DrainEnds ==
  /\ pc = "drain"
  /\ Ring!IsEmpty(txRing)
  /\ pc' = "idle"
  /\ UNCHANGED <<sendtoFails, udpPool, ptpPool, rxRing, txRing, datagram, reply,
                 request, response, tlv, own>>

-----------------------------------------------------------------------------
UdpPoll == (\E dg \in Datagram : UdpReceiveMessage(dg)) \/ UdpReceiveFails

Handler == \/ PtpHandleMessage
           \/ HandleDelayRequest
           \/ HandleManagement
           \/ SignalingStart
           \/ TlvDenied
           \/ TlvGranted
           \/ TlvInvalid
           \/ SignalingFinish
           \/ GeneralError
           \/ ReleaseRequest

Transmit == SendReply \/ SendFails \/ DropUnfinished \/ DrainEnds

Next == UdpPoll \/ Handler \/ Transmit

Spec == Init /\ [][Next]_vars

\* A callback that runs is run to its end: the C code is not preempted for
\* ever.  Nothing is assumed of the arrival of datagrams.
FairSpec == Spec /\ WF_vars(Handler \/ Transmit)

-----------------------------------------------------------------------------
(* Properties. *)

\* The ring lists exactly the pool's buffers in use, oldest first.
SameOrder(ring, pool) ==
  /\ Ring!Occupied(ring) = Pool!Held(pool)
  /\ \A k \in 1..Pool!Held(pool) : Ring!At(ring, k) = Pool!HeldAt(pool, k)

\* The replies waiting to be sent are the ptp pool's buffers in use, in the
\* order in which they were taken, and each holds a reply.  Nothing in the code
\* ties the ring to the pool except that every handler takes and queues its
\* buffers in the same order; util_mempool_put relies on it.
TransmitOrder ==
  /\ SameOrder(txRing, ptpPool)
  /\ \A d \in Item : reply[d] # None <=> d \in Pool!InUse(ptpPool)

\* One request at a time is in the server, in the udp pool's only buffer in
\* use, and none is left behind when the poll drains the replies or is over:
\* no path through udp_receive_message and the handlers loses a buffer.
RequestBuffers ==
  /\ pc \in {"idle", "drain"} => /\ Pool!Held(udpPool) = 0
                                 /\ Ring!IsEmpty(rxRing)
  /\ pc = "handle" => /\ Pool!Held(udpPool) = 1
                      /\ SameOrder(rxRing, udpPool)
  /\ pc \notin {"idle", "drain", "handle", "aborted"} =>
       /\ Pool!Held(udpPool) = 1
       /\ Ring!IsEmpty(rxRing)
       /\ request = Pool!HeldAt(udpPool, 1)
  /\ \A d \in Item : datagram[d] # None <=> d \in Pool!InUse(udpPool)

\* util_mempool_put never finds buffers coming back out of order, so the
\* process does not exit (util/mempool.h:89).
NeverOutOfOrder == pc # "aborted"

\* A poll never ends with every reply buffer taken, whatever replies had to be
\* left in the ring: the next request finds at least one.
IdleHasRoom == pc = "idle" => Pool!HasFree(ptpPool)

\* Every request but the ignored kinds gets at least one reply queued, also
\* when earlier replies are stranded in the ring and when handling it fails.
EveryRequestAnswered ==
  pc = "release" => (datagram[request].kind = "ignored" \/ own # {})

\* What the handlers rely on: the first reply buffer a poll asks for is there,
\* and a handler that comes to an end has queued something by then.
AnswerRoom ==
  /\ pc \in {"idle", "drain", "handle", "delay_request", "signaling",
             "management"} => own = {}
  /\ pc \in {"idle", "handle", "delay_request", "signaling", "management"} =>
       Pool!HasFree(ptpPool)
  /\ pc = "failed" => own # {} \/ Pool!HasFree(ptpPool)
  /\ EveryRequestAnswered

\* The buffers of the request in hand are in use; the signaling handler's loop
\* has one of them as its response and stays within the request's TLVs.
SignalingLocals ==
  /\ own \subseteq Pool!InUse(ptpPool)
  /\ pc \in {"idle", "drain", "handle", "signaling"} => tlv = 0
  /\ pc = "tlv" => response \in own /\ tlv <= datagram[request].tlvs

\* The inductive invariant: together these are kept by every step.
IInv == /\ TypeOK
        /\ TransmitOrder
        /\ RequestBuffers
        /\ NeverOutOfOrder
        /\ AnswerRoom
        /\ SignalingLocals

\* A reply left unfinished is the first of its request; if it is a signaling
\* reply the last one queued is an error message for the same client, unless
\* the reply buffers ran out.
UnfinishedExplained ==
  LET oldest(d) == \A k \in 1..Pool!Held(ptpPool) :
                     Pool!HeldAt(ptpPool, k) = d =>
                       \A j \in 1..(k - 1) : Pool!HeldAt(ptpPool, j) \notin own
      newest == reply[ptpPool.head]
  IN pc = "release" =>
       \A d \in own : ~reply[d].ready =>
         /\ oldest(d)
         /\ reply[d].kind = "management" => own = {d}
         /\ reply[d].kind # "management" =>
              \/ /\ newest.kind = "error"
                 /\ newest.ready
                 /\ newest.client = reply[d].client
              \/ ~Pool!HasFree(ptpPool)

\* If sendto never fails, the only replies a poll leaves in the ring are
\* finished ones, and all of them answer one client: those queued behind a
\* signaling reply that was never finished.
StrandedReplies ==
  (pc = "idle" /\ ~sendtoFails) =>
    \A d, e \in Pool!InUse(ptpPool) :
      reply[d].ready /\ reply[d].client = reply[e].client

Replies == 1..Pool!Held(ptpPool)

\* The k-th oldest reply, and whether it is for the request in hand.
Waiting(k) == reply[Pool!HeldAt(ptpPool, k)]

Mine(k) == Pool!HeldAt(ptpPool, k) \in own

\* The replies to the request in hand are the last ones in the ring, go to its
\* sender, and are finished except for the first.
LastReplies ==
  \A k \in Replies : Mine(k) =>
    /\ Waiting(k).client = datagram[request].client
    /\ \A j \in Replies : j > k => Mine(j) /\ Waiting(j).ready

\* The one that is not is the signaling reply, while its handler runs; what it
\* may be afterwards.
UnfinishedReply ==
  \A k \in Replies : Mine(k) /\ ~Waiting(k).ready =>
    /\ pc = "tlv" => Pool!HeldAt(ptpPool, k) = response
    /\ pc \in {"tlv", "failed"} => Waiting(k).kind = "signaling"
    /\ pc = "release" /\ Waiting(k).kind = "management" =>
         k = Pool!Held(ptpPool)
    /\ pc = "release" /\ Waiting(k).kind # "management" =>
         \/ /\ Waiting(Pool!Held(ptpPool)).kind = "error"
            /\ Waiting(Pool!Held(ptpPool)).ready
            /\ Waiting(Pool!Held(ptpPool)).client = Waiting(k).client
         \/ ~Pool!HasFree(ptpPool)

\* What other requests have left in the ring is finished; until the ring is
\* drained, what stands behind an unfinished reply is, and is for one client.
LeftBehind ==
  ~sendtoFails =>
    /\ pc # "drain" => \A k \in Replies : Mine(k) \/ Waiting(k).ready
    /\ pc = "drain" =>
         \A j, k \in Replies : j > k /\ ~Waiting(k).ready =>
           Waiting(j).ready /\ Waiting(j).client = Waiting(k).client
    /\ pc = "idle" => \A j, k \in Replies : Waiting(j).client = Waiting(k).client

\* With IInv this is inductive.
StrandingInv == LastReplies /\ UnfinishedReply /\ LeftBehind

\* The transmission path is the queue of ReplyQueue.
TransmitQueue ==
  [k \in 1..Ring!Occupied(txRing) |-> reply[Ring!At(txRing, k)]]

Queue == INSTANCE ReplyQueue WITH Capacity <- PoolSize - 1,
                                  queue <- TransmitQueue

IsReplyQueue == Queue!Spec

\* Every poll callback returns to the event loop.
PollCompletes == (pc # "idle") ~> (pc = "idle")

\* As long as datagrams keep arriving, every queued reply leaves the ring.
\* Without them it need not: a stranded reply waits for the next datagram.
RepliesLeave ==
  []<>(pc # "idle") => \A d \in Item : (reply[d] # None) ~> (reply[d] = None)
=============================================================================
