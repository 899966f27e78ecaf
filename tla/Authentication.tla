--------------------------- MODULE Authentication ---------------------------
(***************************************************************************)
(* Authentication of PTP messages (ptp/security/ptp_security.c, the        *)
(* clients' add_auth_tlv and finalize_auth_tlvs, and the checker's         *)
(* check_auth_tlvs_hmac), on the messages of MessageCodec.                 *)
(*                                                                         *)
(* A client adds authentication TLVs, encodes its request, decodes it      *)
(* again to learn where the integrity values (ICVs) are, and fills them    *)
(* in.  The server checks the TLVs it handles, answers them, and signs its *)
(* answer the same way.  Parties follow their own code; a client may have  *)
(* the wrong secret, the wrong policy, or no authentication TLV at all.    *)
(*                                                                         *)
(* An ICV is what it was computed from: a hash has the secret and          *)
(* everything in front of the value, with the ICVs that stand there; a     *)
(* plain one has only the secret.  The rest of a packet does not change    *)
(* once it is encoded, so how far the value is from the start says it all; *)
(* only the server changes one byte of a request, see Touched.  In a TLV   *)
(* of another length the value stands as far as it fits.                   *)
(***************************************************************************)
EXTENDS MessageCodec

CONSTANTS HmacSize,   \* PTP_HMAC_128_SIZE
          DigestSize, \* 32, how much of a hash the server computes
          PlainSize,  \* PTP_MAX_ICV_LENGTH
          DeniedText, \* the length of "Access denied"
          Mark,       \* 1428, where in a packet tlvs[-1].authenticated lies
          Entry       \* clocks a request may be for: policy and description

ServerPolicy == {"none", "plain", "hmac", "unpopulated"}

ASSUME AuthenticationAssumption ==
  /\ {HmacSize, PlainSize, DeniedText, DescriptionSize} \subseteq TextLength
  /\ DigestSize \in Nat /\ HmacSize \in 1..DigestSize /\ DigestSize < PlainSize
  /\ Mark \in Nat
  /\ DeniedText <= ErrorTextSize
  /\ Entry \subseteq [policy : ServerPolicy, description : TextLength]

VARIABLES stage,         \* "request", "sign", "handle" or "reply"
          client,        \* policy and secret the client was given
          entry,         \* the row of the clock, or that there is none
          icvs,          \* the ICV in each TLV of the packet
          authenticated, \* the TLVs marked by an earlier check; 0 for tlvs[-1]
          served,        \* for each TLV handled, whether it was allowed
          reply          \* the TLVs of the answer

authVars == <<stage, client, entry, icvs, authenticated, served, reply>>

allVars == <<vars, authVars>>

Icv == [policy |-> "none", secret |-> "none", upto |-> 0, before |-> <<>>]

AuthInit ==
  /\ Init
  /\ stage = "request"
  /\ client = [policy |-> "hmac", secret |-> "right"]
  /\ entry = [policy |-> "unpopulated", description |-> 0]
  /\ icvs = <<>> /\ authenticated = {} /\ served = <<>> /\ reply = <<>>

-----------------------------------------------------------------------------
(* Integrity values. *)

\* ptp_compute_icv, and what ptp_check_icv compares with.
IcvOf(policy, secret, i, before) ==
  CASE policy = "hmac"  -> [policy |-> policy, secret |-> secret,
                            upto |-> packet.tlvs[i].at + TlvHeaderSize + 6,
                            before |-> before]
    [] policy = "plain" -> [Icv EXCEPT !.policy = policy, !.secret = secret]
    [] OTHER            -> Icv

IsAuth(i) == decoded.tlvs[i].type = "authentication"

\* Mutant: a value does not see the ones in front of it.
NextIcvAlone(policy, secret) ==
  LET i == Len(icvs) + 1
  IN IF IsAuth(i) THEN IcvOf(policy, secret, i, [j \in 1..(i - 1) |-> Icv])
                  ELSE Icv

\* finalize_auth_tlv and a turn of ptp_security_complete_auth_tlvs.
NextIcv(policy, secret) ==
  LET i == Len(icvs) + 1
  IN IF IsAuth(i) THEN IcvOf(policy, secret, i, icvs) ELSE Icv

Sign(policy, secret) ==
  /\ pc = "decoded"
  /\ Len(icvs) < Len(decoded.tlvs)
  /\ icvs' = Append(icvs, NextIcv(policy, secret))
  /\ UNCHANGED <<vars, stage, client, entry, authenticated, served, reply>>

-----------------------------------------------------------------------------
(* The client's request. *)

IcvSize == [hmac |-> HmacSize, plain |-> PlainSize]

\* MessageCodec's steps, for the request and then for the reply.
Code(step) == step /\ UNCHANGED authVars

BuildRequest == stage = "request" /\ Code(AddTlv)

\* finalize_auth_tlvs has decoded the request.  (add_auth_tlv gives an
\* authentication TLV the length IcvSize; here it may have any.)
FinalizeRequest ==
  /\ stage = "request" /\ pc = "decoded"
  /\ message.type \in {"management", "signaling"}
  /\ client' \in [policy : DOMAIN IcvSize, secret : {"right", "wrong"}]
  /\ entry' \in Entry
  /\ stage' = "sign"
  /\ UNCHANGED <<vars, icvs, authenticated, served, reply>>

SignRequest == stage = "sign" /\ Sign(client.policy, client.secret)

\* The server decodes the same TLVs as the client did.
Receive ==
  /\ stage = "sign" /\ Len(icvs) = Len(decoded.tlvs)
  /\ stage' = "handle"
  /\ UNCHANGED <<vars, client, entry, icvs, authenticated, served, reply>>

-----------------------------------------------------------------------------
(* The server's handlers, ptp_handle_message_management and _signaling. *)

\* Where ptp_security_check_auth finds an authentication TLV.
NextAuth(i) == {j \in DOMAIN decoded.tlvs : j > i /\ IsAuth(j)}

\* icv_length
IcvLength(j) == decoded.tlvs[j].text

\* The bytes of the packet a check of a value looks at.
Looks(j) ==
  LET icv == packet.tlvs[j].at + TlvHeaderSize + 6
  IN (IF entry.policy = "hmac" THEN 0 ELSE icv)..(icv + IcvLength(j) - 1)

\* An earlier check has set a byte among them to 1, which it may have been.
Touched(j) == 0 \in authenticated /\ Mark \in Looks(j)

Same(j) == icvs[j] = IcvOf(entry.policy, "right", j, SubSeq(icvs, 1, j - 1))

\* ptp_check_icv: as much of a hash is compared as the TLV has, and a plain
\* secret up to its end, which may lie behind a TLV that is too short.  The
\* beginnings of two hashes may agree; behind a hash stands anything.
Verdicts(j) ==
  LET length == IcvLength(j)
      short == length < IcvSize[entry.policy]
      mayPass == Same(j) \/ short
      mayFail == IF entry.policy = "hmac"
                   THEN length # 0 /\ (~Same(j) \/ length > DigestSize \/ Touched(j))
                   ELSE ~Same(j) \/ short \/ Touched(j)
  IN {verdict \in BOOLEAN : IF verdict THEN mayPass ELSE mayFail}

\* The tests in front of it.
IcvAccepted(j, accepted) ==
  CASE entry.policy = "none"          -> accepted
    [] entry.policy = client.policy   -> accepted \in Verdicts(j)
    [] OTHER                          -> ~accepted

\* ptp_security_check_auth.  Without an authentication TLV in the message it
\* looks at one place behind the last TLV, where the buffer still has a TLV of
\* an earlier message, of any kind: that may be accepted or not.  The marks go
\* one place beyond the first TLV.
CheckAuth(i, allowed) ==
  \/ /\ i \in authenticated
     /\ allowed /\ UNCHANGED authenticated
  \/ /\ i \notin authenticated /\ entry.policy = "unpopulated"
     /\ ~allowed /\ UNCHANGED authenticated
  \/ /\ i \notin authenticated /\ entry.policy # "unpopulated"
     /\ NextAuth(i) # {} => IcvAccepted(Min(NextAuth(i)), allowed)
     /\ authenticated' =
          IF ~allowed THEN authenticated
          ELSE authenticated \cup
                 0..(IF NextAuth(i) # {} THEN Min(NextAuth(i))
                                         ELSE Len(decoded.tlvs))

Answer(type, text, flags) ==
  [type |-> type, text |-> text, asked |-> 0, flags |-> flags]

\* ptp_handle_management_user_description_get
DescriptionAnswer(allowed) ==
  IF allowed
    THEN Answer("description", IF entry.description < DescriptionSize
                                 THEN entry.description ELSE DescriptionSize, 0)
    ELSE Answer("error", DeniedText, 0)

Guarded == [management |-> "description", signaling |-> "request"]

Handling == stage = "handle" /\ Len(served) < Len(decoded.tlvs)

Handled(allowed, answers) ==
  /\ served' = Append(served, allowed)
  /\ reply' = reply \o answers
  /\ UNCHANGED <<vars, stage, client, entry, icvs>>

\* A TLV that needs authentication.  A grant leaves its message type at 0; the
\* refusal of a unicast request is a message of its own.
HandleGuarded ==
  LET i == Len(served) + 1
  IN /\ Handling
     /\ decoded.tlvs[i].type = Guarded[decoded.type]
     /\ \E allowed \in BOOLEAN :
          /\ CheckAuth(i, allowed)
          /\ Handled(allowed,
               IF decoded.type = "management" THEN <<DescriptionAnswer(allowed)>>
               ELSE IF allowed THEN <<Answer("grant", 0, 1)>> ELSE <<>>)

\* Anybody may ask for the time; every other TLV is skipped.
HandleOpen ==
  LET i == Len(served) + 1
      time == decoded.type = "management" /\ decoded.tlvs[i].type = "time"
  IN /\ Handling
     /\ decoded.tlvs[i].type # Guarded[decoded.type]
     /\ Handled(TRUE, IF time THEN <<Answer("time", 0, 0)>> ELSE <<>>)
     /\ UNCHANGED authenticated

\* Mutant: one place is kept free.
AuthAddedShy(type) ==
  IF /\ type = "management"
     /\ entry.policy \in {"none", "hmac"}
     /\ Len(reply) + 1 < MaxTlv
    THEN <<Answer("authentication", HmacSize, 0)>> ELSE <<>>

\* ptp_security_add_auth_tlv: none for a plain policy, and none without room.
AuthAdded(type) ==
  IF /\ type = "management"
     /\ entry.policy \in {"none", "hmac"}
     /\ Len(reply) < MaxTlv
    THEN <<Answer("authentication", HmacSize, 0)>> ELSE <<>>

FinishReply ==
  /\ stage = "handle" /\ Len(served) = Len(decoded.tlvs)
  /\ stage' = "reply"
  /\ message' = [message EXCEPT !.tlvs = reply \o AuthAdded(decoded.type)]
  /\ pc' = "build" /\ head' = 0 /\ packet' = NoPacket
  /\ decoded' = NotDecoded
  /\ icvs' = <<>>
  /\ UNCHANGED <<room, client, entry, authenticated, served, reply>>

\* ptp_security_complete_auth_tlvs
SignReply == stage = "reply" /\ Sign(entry.policy, "right")

AuthNext ==
  \/ BuildRequest
  \/ Code(EncodeHeader) \/ Code(EncodeNext) \/ Code(EncodePad)
  \/ Code(DecodeHeader) \/ Code(DecodeTlv) \/ Code(DecodeEnds)
  \/ FinalizeRequest \/ SignRequest \/ Receive
  \/ HandleGuarded \/ HandleOpen \/ FinishReply \/ SignReply

AuthSpec == AuthInit /\ [][AuthNext]_allVars

-----------------------------------------------------------------------------
(* Properties. *)

AuthTypeOK ==
  /\ TypeOK
  /\ stage \in {"request", "sign", "handle", "reply"}
  /\ client \in [policy : DOMAIN IcvSize, secret : {"right", "wrong"}]
  /\ entry \in [policy : ServerPolicy, description : TextLength \cup {0}]
  /\ icvs \in Seq(ToSet(icvs))
  /\ Len(icvs) <= Len(decoded.tlvs)
  /\ stage = "handle" => Len(icvs) = Len(decoded.tlvs)
  /\ authenticated \subseteq 0..MaxTlv
  /\ served \in Seq(BOOLEAN) /\ Len(served) <= MaxTlv
  /\ reply \in Seq(Tlv) /\ Len(reply) <= Len(served)

Entitled == \/ entry.policy = "none"
            \/ client = [policy |-> entry.policy, secret |-> "right"]

\* The value that decides has the length the policy calls for.  (No value is
\* looked at for a clock with another policy than the TLV, or with none.)
Conclusive(j) ==
  client.policy = entry.policy =>
    IF entry.policy = "hmac" THEN IcvLength(j) \in HmacSize..DigestSize
                             ELSE IcvLength(j) >= PlainSize

\* There is such a value behind a TLV.
Decided(i) == NextAuth(i) # {} /\ Conclusive(Min(NextAuth(i)))

\* A TLV with an authentication TLV somewhere behind it is allowed to nobody but
\* those who may, as long as the next such TLV has a value of full length, which
\* all clients give it: whatever stands between the two, however many
\* authentication TLVs the request has, and whichever of them an earlier check
\* has marked.  And those who may are allowed it: what the client signed is what
\* the server computes, unless it looks at the byte that an earlier check sets.
AuthenticationDecides ==
  stage = "handle" =>
    \A i \in DOMAIN served :
      decoded.tlvs[i].type = Guarded[decoded.type] /\ Decided(i) =>
        /\ served[i] => Entitled
        /\ Entitled => served[i] \/ Mark \in Looks(Min(NextAuth(i)))

\* check_auth_tlvs_hmac
Verifies ==
  \E j \in DOMAIN decoded.tlvs :
    /\ IsAuth(j) /\ \A i \in 1..(j - 1) : ~IsAuth(i)
    /\ entry.policy = "hmac" /\ decoded.tlvs[j].text = HmacSize
    /\ icvs[j] = IcvOf("hmac", "right", j, SubSeq(icvs, 1, j - 1))

\* The answer of a clock with policy hmac, also a refusal, can be verified by
\* whoever knows the secret, unless its answers leave no room for the
\* authentication TLV; then it has none.  (What the encoder gave up is not signed,
\* see PacketAligned.)
RepliesVerify ==
  (/\ stage = "reply" /\ pc = "decoded" /\ Len(icvs) = Len(decoded.tlvs)
   /\ message.type = "management" /\ entry.policy = "hmac") =>
     \/ Verifies
     \/ Len(reply) = MaxTlv /\ \A i \in DOMAIN decoded.tlvs : ~IsAuth(i)

\* A value is what its maker computed from what stands in front of it.
SignedBy(policy, secret) ==
  \A j \in DOMAIN icvs :
    IsAuth(j) => icvs[j] = IcvOf(policy, secret, j, SubSeq(icvs, 1, j - 1))

\* The client signs the request, and the server the reply, once it is decoded.
Signatures ==
  /\ pc # "decoded" => icvs = <<>>
  /\ stage \in {"sign", "handle"} => SignedBy(client.policy, client.secret)
  /\ stage = "reply" => SignedBy(entry.policy, "right")

\* What there is of a request and of its answer at each stage.
Stages ==
  /\ stage = "request" => icvs = <<>>
  /\ stage \in {"request", "sign"} =>
       authenticated = {} /\ served = <<>> /\ reply = <<>>
  /\ stage \in {"sign", "handle"} => pc = "decoded"
  /\ stage # "request" => message.type \in DOMAIN Guarded

\* Of the TLVs still to be handled that a conclusive value decides about, only
\* those of somebody who may be answered are marked.
MarksDeserved ==
  stage = "handle" =>
    \A i \in authenticated :
      i > Len(served) /\ ~IsAuth(i) /\ Decided(i) => Entitled

\* A reply holds the answers, and behind them its only authentication TLV.
Answered ==
  /\ \A i \in DOMAIN reply : reply[i].type # "authentication"
  /\ stage = "reply" => message.tlvs = reply \o AuthAdded(message.type)

\* The inductive invariant.
AuthIInv == /\ IInv
            /\ AuthTypeOK
            /\ Signatures
            /\ Stages
            /\ MarksDeserved
            /\ AuthenticationDecides
            /\ Answered
=============================================================================
