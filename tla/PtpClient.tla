------------------------------ MODULE PtpClient ------------------------------
(***************************************************************************)
(* The synchronisation client (client/ptp_client.py), the server as it     *)
(* answers one client, and the network between them.                       *)
(*                                                                         *)
(* The client has one request outstanding at a time, numbers all of them 0 *)
(* and takes replies from one queue without looking at whom they answer.   *)
(* It goes by what they contain: anything unexpected raises an exception,  *)
(* which ends the client, except that a failed request for the description *)
(* is made once more with the other authentication policy.                 *)
(*                                                                         *)
(* Both hosts read monotonic clocks; the server's is Skew ahead.  The      *)
(* network loses datagrams and delays them for any time, so that they      *)
(* overtake each other, but does not duplicate them.                       *)
(***************************************************************************)
EXTENDS Integers, SequencesExt

CONSTANTS Syncs,        \* args.syncs, how many synchronisations to run
          ClockPolicies, \* the authentication policies clocks have
          Skew,         \* the server's monotonic clock minus the client's
          Offset,       \* entry->offset: the clock minus the server's clock
          Second,       \* 1000000000 nanoseconds
          HalfRange,    \* 2^31, for the int32_t current_offset
          Precision,    \* 2^53: a float holds the integers below exactly ...
          Spacings,     \* {2^k : k \in 0..971}: ... and others in such steps
          MaxTime,      \* bound: the last instant considered
          None          \* "no value"

ASSUME ClientAssumption == /\ Syncs \in Nat \ {0}
                           /\ ClockPolicies \subseteq {"none", "plain", "hmac"}
                           /\ Skew \in Int
                           /\ Offset \in Int
                           /\ Second \in Nat \ {0}
                           /\ HalfRange \in Nat \ {0}
                           /\ MaxTime \in Nat

Abs(x) == IF x >= 0 THEN x ELSE -x

\* The floats of the size of x are the multiples of u.
SpacedBy(x, u) == /\ Abs(x) < Precision * u
                  /\ u = 1 \/ Abs(x) >= Precision * (u \div 2)

\* The client's sums are floats of some size.
ASSUME FloatAssumption ==
  /\ Precision \in Nat \ {0}
  /\ Spacings \subseteq Nat \ {0}
  /\ \A u \in Spacings \ {1} : u % 2 = 0
  /\ \A x \in 0..(2 * Abs(Skew) + MaxTime) : \E u \in Spacings : SpacedBy(x, u)

Policy == {"hmac", "plain"}

RequestKind == {"description", "announce", "sync", "delay"}

\* "to" numbers the requests; it is not in the message (sequence_id is 0).
Request == [kind : RequestKind, to : Nat, policy : Policy]

\* "grant" and "refused": signaling messages with and without a grant TLV;
\* "error": a management message with an error TLV.
ReplyKind == {"description", "grant", "refused", "announce", "sync",
              "delay_response", "error"}

\* "value" is the timestamp of a sync or delay response and the whole seconds
\* of an announce.
Reply == [kind : ReplyKind, to : Nat, value : Int]

ASSUME NoneAssumption == None \notin Int \cup [error : Int, span : Int]

VARIABLES setting,  \* "policy": that of the clock asked for; "reliable": nothing
                    \* is lost, late, out of order or refused, and the user
                    \* does not quit
          pc,       \* the statement of loop() the client is at
          policy,   \* auth_info.policy
          inbox,    \* protocol.queue
          times,    \* t1, t2 and t3 of run_synchronization
          offset,   \* what get_offset returned
          round,    \* the synchronisations done
          requests, \* the requests on their way
          replies,  \* the replies on their way, in the order they were sent
          now,      \* time, as the client reads it
          sent,     \* history: how many requests were sent
          begun,    \* history: when the synchronisation began
          result    \* history: the last result, and how long it took

vars == <<setting, pc, policy, inbox, times, offset, round, requests, replies, now,
          sent, begun, result>>

Waiting == {"description", "announce_grant", "announce", "sync_grant", "sync",
            "delay_response"}

Control == Waiting \cup {"ask_description", "ask_announce", "ask_sync",
                         "ask_delay", "done", "failed"}

TypeOK == /\ setting \in [policy : ClockPolicies, reliable : BOOLEAN]
          /\ pc \in Control
          /\ policy \in Policy
          /\ inbox \in Seq(Reply)
          /\ times \in [t1 : Int, t2 : Int, t3 : Int]
          /\ offset \in Int
          /\ round \in 0..Syncs
          /\ requests \subseteq Request
          /\ replies \in Seq(Reply)
          /\ now \in 0..MaxTime
          /\ sent \in Nat
          /\ begun \in 0..MaxTime
          /\ result \in [error : Int, span : Int] \cup {None}

Init == /\ setting \in [policy : ClockPolicies, reliable : BOOLEAN]
        /\ pc = "ask_description"
        /\ policy = "hmac"
        /\ inbox = <<>>
        /\ times = [t1 |-> 0, t2 |-> 0, t3 |-> 0]
        /\ offset = 0
        /\ round = 0
        /\ requests = {}
        /\ replies = <<>>
        /\ now = 0
        /\ sent = 0
        /\ begun = 0
        /\ result = None

-----------------------------------------------------------------------------
(* The client. *)

Send(kind) ==
  /\ requests' = requests \cup {[kind |-> kind, to |-> sent + 1,
                                 policy |-> policy]}
  /\ sent' = sent + 1
  /\ UNCHANGED <<inbox, replies, now>>

\* get_user_description, up to its await.
AskDescription ==
  /\ pc = "ask_description"
  /\ pc' = "description"
  /\ Send("description")
  /\ UNCHANGED <<policy, times, offset, round, begun, result>>

\* request_unicast_message, called by get_offset ...
AskAnnounce ==
  /\ pc = "ask_announce"
  /\ pc' = "announce_grant"
  /\ Send("announce")
  /\ UNCHANGED <<policy, times, offset, round, begun, result>>

\* ... and by run_synchronization.
AskSync ==
  /\ pc = "ask_sync"
  /\ pc' = "sync_grant"
  /\ begun' = now
  /\ Send("sync")
  /\ UNCHANGED <<policy, times, offset, round, result>>

AskDelay ==
  /\ pc = "ask_delay"
  /\ pc' = "delay_response"
  /\ times' = [times EXCEPT !.t3 = now]
  /\ Send("delay")
  /\ UNCHANGED <<policy, offset, round, begun, result>>

\* connection.receive returns the oldest reply in the queue, any reply.
Receive == inbox # <<>> /\ inbox' = Tail(inbox)

Received(kind) == Receive /\ Head(inbox).kind = kind

\* A reply without what was asked for raises PtpException.
Unexpected(kind) == Receive /\ Head(inbox).kind # kind

\* wait_for gives up after a second.  What is reliable is also faster.
Timeout == /\ inbox = <<>>
           /\ UNCHANGED inbox
           /\ ~setting.reliable

TakeDescription ==
  /\ pc = "description"
  /\ Received("description")
  /\ pc' = "ask_announce"
  /\ UNCHANGED <<policy, times, offset, round, requests, replies, now, sent,
                 begun, result>>

\* The first exception is answered by asking again with the policy "plain".
DescriptionFails ==
  /\ pc = "description"
  /\ Unexpected("description") \/ Timeout
  /\ pc' = IF policy = "hmac" THEN "ask_description" ELSE "failed"
  /\ policy' = "plain"
  /\ UNCHANGED <<times, offset, round, requests, replies, now, sent, begun,
                 result>>

\* Mutant: any reply passes for a grant.
TakeGrantUnchecked ==
  /\ pc \in {"announce_grant", "sync_grant"}
  /\ Receive
  /\ pc' = IF pc = "announce_grant" THEN "announce" ELSE "sync"
  /\ UNCHANGED <<policy, times, offset, round, requests, replies, now, sent,
                 begun, result>>

TakeGrant ==
  /\ pc \in {"announce_grant", "sync_grant"}
  /\ Received("grant")
  /\ pc' = IF pc = "announce_grant" THEN "announce" ELSE "sync"
  /\ UNCHANGED <<policy, times, offset, round, requests, replies, now, sent,
                 begun, result>>

TakeAnnounce ==
  /\ pc = "announce"
  /\ Received("announce")
  /\ offset' = Head(inbox).value * Second
  /\ pc' = "ask_sync"
  /\ UNCHANGED <<policy, times, round, requests, replies, now, sent, begun,
                 result>>

\* Mutant: t2 is left from the synchronisation before.
TakeSyncStale ==
  /\ pc = "sync"
  /\ Received("sync")
  /\ times' = [times EXCEPT !.t1 = Head(inbox).value]
  /\ pc' = "ask_delay"
  /\ UNCHANGED <<policy, offset, round, requests, replies, now, sent, begun,
                 result>>

TakeSync ==
  /\ pc = "sync"
  /\ Received("sync")
  /\ times' = [times EXCEPT !.t1 = Head(inbox).value, !.t2 = now]
  /\ pc' = "ask_delay"
  /\ UNCHANGED <<policy, offset, round, requests, replies, now, sent, begun,
                 result>>

\* The float nearest to n, of two the even one.
Nearest(n) ==
  LET u == CHOOSE u \in Spacings : SpacedBy(n, u)
      rest == n % u
  IN IF 2 * rest < u \/ (2 * rest = u /\ (n \div u) % 2 = 0) THEN n - rest
                                                           ELSE n - rest + u

\* int(x / 2): the quotient is a float, of which int() drops the fraction.
Half(x) == IF x >= 0 THEN Nearest(x) \div 2 ELSE -(Nearest(-x) \div 2)

\* The end of run_synchronization and of a turn of loop(); the user may quit.
TakeDelayResponse ==
  /\ pc = "delay_response"
  /\ Received("delay_response")
  /\ result' = [error |-> Half((times.t1 + Head(inbox).value)
                               - (times.t2 + times.t3)),
                span |-> now - begun]
  /\ round' = round + 1
  /\ \/ round' < Syncs /\ pc' = "ask_sync"
     \/ (setting.reliable => round' = Syncs) /\ pc' = "done"
  /\ UNCHANGED <<policy, times, offset, requests, replies, now, sent, begun>>

\* The kind of reply each of the other awaits is for.
Expected == [announce_grant |-> "grant", announce |-> "announce",
             sync_grant |-> "grant", sync |-> "sync",
             delay_response |-> "delay_response"]

\* Mutant: a timeout is not caught by wait_for, the client waits on.
GivesUpLate ==
  /\ pc \in Waiting \ {"description"}
  /\ Unexpected(Expected[pc])
  /\ pc' = "failed"
  /\ UNCHANGED <<policy, times, offset, round, requests, replies, now, sent,
                 begun, result>>

\* The exception ends the client.
GivesUp ==
  /\ pc \in Waiting \ {"description"}
  /\ Unexpected(Expected[pc]) \/ Timeout
  /\ pc' = "failed"
  /\ UNCHANGED <<policy, times, offset, round, requests, replies, now, sent,
                 begun, result>>

Client ==
  /\ UNCHANGED setting
  /\ \/ AskDescription \/ AskAnnounce \/ AskSync \/ AskDelay
     \/ TakeDescription \/ DescriptionFails
     \/ TakeGrant \/ TakeAnnounce \/ TakeSync \/ TakeDelayResponse
     \/ GivesUp

-----------------------------------------------------------------------------
(* The server. *)

\* ptp_security_check_auth lets any request use a clock without a policy.
Admits(p) == setting.policy \in {"none", p}

\* C division rounds towards zero.
WholeSeconds == IF Offset >= 0 THEN Offset \div Second
                ELSE -((-Offset) \div Second)

\* Mutant: the field is read as an unsigned one.
CurrentOffsetUnsigned == WholeSeconds % (2 * HalfRange)

\* The field current_offset has 32 bits, with a sign.
CurrentOffset == ((WholeSeconds + HalfRange) % (2 * HalfRange)) - HalfRange

\* Mutant: the message that was asked for goes out before the grant.
AnswersSwapped(q) ==
  {CASE q.kind = "description" -> <<"description">>
     [] q.kind = "announce"    -> <<"announce", "grant">>
     [] q.kind = "sync"        -> <<"sync", "grant">>
     [] q.kind = "delay"       -> <<"delay_response">>}

\* The kinds of replies to a request that is handled.  A unicast request that
\* is not admitted gets its signaling message all the same, without a grant.
\* Any request may get a general error instead (no buffer, no such clock).
Answers(q) ==
  LET granted == CASE q.kind = "description" -> <<"description">>
                   [] q.kind = "announce"    -> <<"grant", "announce">>
                   [] q.kind = "sync"        -> <<"grant", "sync">>
                   [] q.kind = "delay"       -> <<"delay_response">>
      refused == IF q.kind \in {"announce", "sync"} THEN <<"refused", "error">>
                                                   ELSE <<"error">>
      admitted == q.kind = "delay" \/ Admits(q.policy)
  IN (IF admitted THEN {granted} ELSE {refused})
       \cup (IF setting.reliable THEN {} ELSE {refused, <<"error">>})

\* udp_poll for one request of this client: its replies are sent in the order
\* they were queued.
ServerPoll(q) ==
  LET value(kind) == IF kind = "announce" THEN CurrentOffset ELSE now + Skew
  IN /\ q \in requests
     /\ requests' = requests \ {q}
     /\ \E kinds \in Answers(q) :
          replies' = replies \o
            [i \in 1..Len(kinds) |-> [kind |-> kinds[i], to |-> q.to,
                                      value |-> value(kinds[i])]]
     /\ UNCHANGED <<setting, pc, policy, inbox, times, offset, round, now,
                    sent, begun, result>>

-----------------------------------------------------------------------------
(* The network and time. *)

\* A reply arrives, datagram_received puts it into the queue.
Deliver(i) ==
  /\ i \in 1..Len(replies)
  /\ setting.reliable => i = 1
  /\ inbox' = Append(inbox, replies[i])
  /\ replies' = RemoveAt(replies, i)
  /\ UNCHANGED <<setting, pc, policy, times, offset, round, requests, now, sent, begun,
                 result>>

LoseReply(i) ==
  /\ ~setting.reliable
  /\ i \in 1..Len(replies)
  /\ replies' = RemoveAt(replies, i)
  /\ UNCHANGED <<setting, pc, policy, inbox, times, offset, round, requests, now, sent,
                 begun, result>>

LoseRequest(q) ==
  /\ ~setting.reliable
  /\ q \in requests
  /\ requests' = requests \ {q}
  /\ UNCHANGED <<setting, pc, policy, inbox, times, offset, round, replies, now, sent,
                 begun, result>>

Tick ==
  /\ now < MaxTime
  /\ now' = now + 1
  /\ UNCHANGED <<setting, pc, policy, inbox, times, offset, round, requests, replies,
                 sent, begun, result>>

Network == \/ \E i \in 1..Len(replies) : Deliver(i) \/ LoseReply(i)
           \/ \E q \in requests : LoseRequest(q)

Next == Client \/ (\E q \in requests : ServerPoll(q)) \/ Network \/ Tick

Spec == Init /\ [][Next]_vars

\* asyncio runs what is ready, and wait_for's timer goes off.
FairSpec == Spec /\ WF_vars(Client)

\* A reliable network and server do their work at last.
ReliableSpec ==
  /\ FairSpec
  /\ WF_vars(setting.reliable /\ \E q \in requests : ServerPoll(q))
  /\ WF_vars(setting.reliable /\ \E i \in 1..Len(replies) : Deliver(i))

-----------------------------------------------------------------------------
(* Properties. *)

\* What the client goes on with is an answer to its last request, though
\* nothing in the messages says so and a late reply to the first request may
\* still come in: an offset or a time never stems from an exchange that was
\* given up.  Only the description may.
OwnAnswers ==
  [][ (Receive /\ pc # "description" /\ pc' # "failed") =>
        Head(inbox).to = sent ]_vars

\* What halving may lose of a sum whose size the skew and the time of the
\* exchange bound: the odd nanosecond, and half a step of a float once the sum
\* does not fit into one, that is when the clocks are 52 days apart.
Loss(span) == LET size == 2 * Abs(Skew) + span
              IN IF size < Precision THEN 1 ELSE size \div Precision

\* A result of run_synchronization is the server's clock minus the client's up
\* to half the time the exchange took, however that divides on the two ways and
\* on the server, and what the division by two loses.
SyncAccuracy ==
  result # None =>
    2 * Abs(result.error - Skew) <= result.span + Loss(result.span)

\* How far the time loop() works out to show is from the clock's.  (Splitting it
\* into seconds and nanoseconds is not modelled: math.floor(x / 1000000000) also
\* rounds, up to the next second in the last 120 ns of one.)
ShownError == (result.error + offset) - (Skew + Offset)

\* The time shown is the clock's within a second and half the time of the
\* exchange, as long as the offset in seconds fits into 32 bits.
TimeShown ==
  (result # None /\ WholeSeconds \in (-HalfRange)..(HalfRange - 1)) =>
     2 * Abs(ShownError) < 2 * Second + result.span + Loss(result.span)

\* "It also displays the current time and user description of the selected
\* clock" (documentation/README.md:113), with nanoseconds: the time shown is as
\* good as the synchronisation.
ClockTimeShown ==
  result # None => 2 * Abs(ShownError) <= result.span + Loss(result.span)

\* The client comes to an end whatever the network does.
ClientEnds == <>(pc \in {"done", "failed"})

\* If every datagram arrives in time and in order, all synchronisations are
\* run, whichever policy the clock has: the fallback finds it, and the server's
\* replies come in the order the client takes them.
ReliableSucceeds == setting.reliable => <>(pc = "done")

-----------------------------------------------------------------------------
(* Why the safety properties hold. *)

\* The replies on their way or in the queue.
InFlight == ToSet(inbox) \cup ToSet(replies)

OfKind(s, kind) == {i \in DOMAIN s : s[i].kind = kind}

NoneOf(kind) == OfKind(inbox, kind) = {} /\ OfKind(replies, kind) = {}

AtMostOne(kind) ==
  /\ \A i, j \in OfKind(inbox, kind) : i = j
  /\ \A i, j \in OfKind(replies, kind) : i = j
  /\ OfKind(inbox, kind) = {} \/ OfKind(replies, kind) = {}

\* The replies that get the client on in a synchronisation, and which of them
\* may still come.
Decisive == {"grant", "announce", "sync", "delay_response"}

Due == CASE pc = "announce_grant" -> {"grant", "announce"}
         [] pc = "announce"       -> {"announce"}
         [] pc = "sync_grant"     -> {"grant", "sync"}
         [] pc = "sync"           -> {"sync"}
         [] pc = "delay_response" -> {"delay_response"}
         [] OTHER                 -> {}

Asking == [announce_grant |-> "announce", sync_grant |-> "sync",
           delay_response |-> "delay"]

Running == pc \notin {"done", "failed"}

\* Apart from requests for the description there is only the latest, or there
\* are replies to it, of each kind one.
OneExchange ==
  Running =>
    /\ \A q \in requests : q.kind # "description" =>
         /\ pc \in DOMAIN Asking
         /\ q = [kind |-> Asking[pc], to |-> sent, policy |-> policy]
         /\ \A kind \in Decisive : NoneOf(kind)
    /\ \A kind \in Decisive : AtMostOne(kind) /\ (kind \notin Due => NoneOf(kind))

\* Those replies are as recent as the request.
Recent ==
  Running =>
    \A r \in InFlight :
      /\ r.kind \in Decisive => r.to = sent
      /\ r.kind = "announce" => r.value = CurrentOffset
      /\ r.kind = "sync" => r.value - Skew \in begun..now
      /\ r.kind = "delay_response" => r.value - Skew \in times.t3..now

RoundsLeft == Running => round < Syncs

\* The order of the times taken.
Timeline ==
  /\ begun <= now
  /\ pc \in {"ask_delay", "delay_response"} =>
       times.t1 - Skew \in begun..times.t2 /\ times.t2 <= now
  /\ pc = "delay_response" => times.t3 \in times.t2..now

\* The offset is that of the clock's announce message.
OffsetKnown ==
  (result # None \/ pc \in {"ask_sync", "sync_grant", "sync", "ask_delay",
                            "delay_response"}) =>
     offset = CurrentOffset * Second

\* The inductive invariant.
IInv == /\ TypeOK
        /\ OneExchange
        /\ Recent
        /\ RoundsLeft
        /\ Timeline
        /\ OffsetKnown
        /\ SyncAccuracy
=============================================================================
