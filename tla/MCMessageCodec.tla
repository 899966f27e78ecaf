--------------------------- MODULE MCMessageCodec ---------------------------
(***************************************************************************)
(* Messages of up to two TLVs of every kind, of three TLVs as clients send *)
(* them, and of four that ask for what is guarded or sign it, encoded for  *)
(* buffers too short for some of the messages, for their TLVs or only for  *)
(* their padding, and such that TLVs end with the buffer; texts as long as *)
(* the limits, shorter by one and longer by one, and longer than a byte    *)
(* can tell.  The byte that a check sets lies in the fourth TLV.           *)
(***************************************************************************)
EXTENDS Authentication

Rooms == {64, 80, 118}

TextLengths == {0, 1, 3, 4, 5, 257}

\* Seconds that fit into the low part, and that do not.
Times == {9, 49, 119}

\* Clocks of every policy, with descriptions within the limit and beyond it.
Entries == {[policy |-> "none", description |-> 5],
            [policy |-> "plain", description |-> 3],
            [policy |-> "hmac", description |-> 4],
            [policy |-> "unpopulated", description |-> 0]}

\* The TLVs of requests.
FromClient == {t \in Tlv : /\ t.type \in {"description", "time", "request",
                                          "authentication"}
                           /\ t.text \in IF t.type = "authentication"
                                           THEN {HmacSize, PlainSize} ELSE {0}
                           /\ t.flags = 0}

\* What asks for something that is guarded, or signs it.
Asking == {t \in FromClient : /\ t.type # "time"
                              /\ t.text \in {0, HmacSize}
                              /\ t.asked = 0}

\* The bound on messages of three and of four TLVs.
Scope ==
  \/ stage # "request"
  \/ Len(message.tlvs) <= 2
  \/ /\ ToSet(message.tlvs) \subseteq IF Len(message.tlvs) = 3 THEN FromClient
                                                             ELSE Asking
     /\ message.type \in DOMAIN Guarded
     /\ message.time = 9
=============================================================================
