----------------------------- MODULE MessageCodec -----------------------------
(***************************************************************************)
(* Encoding and decoding of PTP messages (ptp/protocol/ptp_encoding.c and  *)
(* ptp_decoding.c).  The server and the client use the same code: what one *)
(* encodes the other decodes, and both decode their own messages again to  *)
(* fill in the authentication TLVs.                                        *)
(*                                                                         *)
(* A packet is its type, its timestamp and its TLVs, each at its offset    *)
(* and with the length written in its header; head is the offset the code  *)
(* is at.  Sizes are the sizes of the packed structures.  Fields that are  *)
(* copied and converted to network byte order and back are left out;       *)
(* timestamps and the bit fields of the unicast TLVs are not mere copies   *)
(* and are kept.                                                           *)
(***************************************************************************)
EXTENDS Integers, SequencesExt

CONSTANTS MaxTlv,          \* PTP_MAX_TLV_COUNT
          DescriptionSize, \* PTP_USER_DESCRIPTION_SIZE
          ErrorTextSize,   \* PTP_MANAGEMENT_ERROR_DISPLAY_DATA_SIZE
          NameSize,        \* PTP_DISPLAY_NAME_SIZE
          Room,            \* the buffer sizes messages are encoded for
          TextLength,      \* the lengths of texts and of integrity values
          Time,            \* the timestamps, in nanoseconds
          Second,          \* 1000000000
          LowRange,        \* 2^32, for the field seconds_low
          HighRange        \* 2^16, for the field seconds_high

\* A 64-bit number of nanoseconds has fewer seconds than the mask
\* 0xffff00000000 of the encoder.
Mask == (HighRange - 1) * LowRange

ASSUME CodecAssumption ==
  /\ MaxTlv \in Nat /\ DescriptionSize \in Nat
  /\ ErrorTextSize \in Nat /\ NameSize \in Nat
  /\ Room \subseteq Nat /\ TextLength \subseteq Nat
  /\ Second \in Nat \ {0} /\ LowRange \in Nat \ {0}
  /\ HighRange \in Nat /\ HighRange > 1
  /\ Time \subseteq 0..(Mask * Second - 1)

\* "unsupported" stands for every type without a case in the code.
MessageType == {"sync", "delay_request", "pdelay_request", "pdelay_response",
                "follow_up", "delay_response", "pdelay_response_follow_up",
                "announce", "signaling", "management", "unsupported"}

\* The TLVs messages are built from.  "description", "time" are management
\* TLVs; "text" is the length of a text or integrity value.
TlvType == {"description", "time", "error", "request", "grant", "cancel",
            "acknowledge", "time_offset", "authentication", "unsupported"}

Unicast == {"request", "grant", "cancel", "acknowledge"}

\* The message types asked for: sync and announce; the flags are two bits.
Tlv == {t \in [type : TlvType, text : TextLength \cup {0}, asked : {0, 11},
               flags : 0..3] :
          /\ t.text # 0 => t.type \in {"description", "error", "time_offset",
                                       "authentication"}
          /\ t.type = "error" => t.text <= ErrorTextSize
          /\ t.type = "time_offset" => t.text <= NameSize
          /\ t.type \notin Unicast => t.asked = 0
          /\ t.type \notin Unicast \ {"request"} => t.flags = 0}

VARIABLES pc,       \* "build", "encode", "refused", "sent", "decode",
                    \* "decoded" or "undecodable"
          message,  \* the decoded message to encode
          room,     \* the argument length of ptp_encode_message
          head,     \* how far the encoder or the decoder has come
          packet,   \* the encoded message
          decoded   \* what the decoder has found

vars == <<pc, message, room, head, packet, decoded>>

\* length: buffer.length, which is sent when it is positive.
NoPacket == [type |-> "unsupported", timestamp |-> [high |-> 0, low |-> 0,
             nanoseconds |-> 0], tlvs |-> <<>>, length |-> 0]

\* clean: the structure decoded into was zeroed, or holds the message that was
\* encoded; otherwise it may hold an older one.
NotDecoded == [type |-> "unsupported", time |-> 0, clean |-> TRUE, tlvs |-> <<>>]

Init == /\ pc = "build"
        /\ message \in [type : MessageType, time : Time, tlvs : {<<>>}]
        /\ room \in Room
        /\ head = 0
        /\ packet = NoPacket
        /\ decoded = NotDecoded

\* ptp_add_tlv; the caller fills in the TLV.
AddTlv ==
  /\ pc = "build"
  /\ Len(message.tlvs) < MaxTlv
  /\ \E t \in Tlv : message' = [message EXCEPT !.tlvs = Append(@, t)]
  /\ UNCHANGED <<pc, room, head, packet, decoded>>

-----------------------------------------------------------------------------
(* Encoding. *)

HeaderSize == 34

TlvHeaderSize == 4

Alignment == 16

\* Ethernet, IPv4 and UDP.
NetworkOverhead == 14 + 20 + 8

\* Mutant: the seconds beyond the low part are dropped.
EncodedTimestampTruncated(t) ==
  [high |-> 0, low |-> (t \div Second) % LowRange, nanoseconds |-> t % Second]

EncodedTimestamp(t) ==
  [high |-> (((t \div Second) % Mask) \div LowRange) % HighRange,
   low |-> (t \div Second) % LowRange,
   nanoseconds |-> t % Second]

PayloadSize ==
  [sync |-> 10, delay_request |-> 10, pdelay_request |-> 20,
   pdelay_response |-> 20, follow_up |-> 20, delay_response |-> 20,
   pdelay_response_follow_up |-> 20, announce |-> 30, signaling |-> 10,
   management |-> 14]

Timed == DOMAIN PayloadSize \ {"signaling", "management"}

\* A text has a length byte in front; with it the text is padded to an even
\* number of bytes.
Padding(text) == IF text % 2 = 0 THEN 1 ELSE 0

Byte == 256

\* How much of a text is encoded: a description's length is put into the byte
\* before it is compared with the limit; the others are shorter than a byte.
Written(t) == IF t.type = "description" THEN t.text % Byte ELSE t.text

\* ptp_encode_management_tlv
ManagementSize(t) ==
  2 + IF t.type = "time" THEN 10 ELSE 1 + Written(t) + Padding(Written(t))

\* ptp_encode_management_error_status_tlv
ErrorStatusSize(t) == 8 + 1 + t.text + Padding(t.text)

\* What ptp_encode_tlv writes behind the header.
TlvSize(t) ==
  CASE t.type \in {"description", "time"}       -> ManagementSize(t)
    [] t.type = "error"                         -> ErrorStatusSize(t)
    [] t.type = "request"                       -> 6
    [] t.type = "grant"                         -> 8
    [] t.type \in {"cancel", "acknowledge"}     -> 2
    [] t.type = "time_offset"                   -> 15 + 1 + t.text
                                                     + Padding(t.text)
    [] t.type = "authentication"                -> 6 + t.text
    [] t.type = "pad"                           -> t.text

\* The byte with the message type; the cancelling TLVs have their flags in it.
TypeByte(t) == t.asked * 16
                 + IF t.type \in {"cancel", "acknowledge"} THEN t.flags ELSE 0

EncodedTlv(t, at) ==
  [type |-> t.type, at |-> at, length |-> TlvSize(t), text |-> Written(t),
   typeByte |-> TypeByte(t),
   flagsByte |-> IF t.type = "grant" THEN t.flags ELSE 0]

\* Mutant: a TLV that would fill the buffer is refused.
EncodableStrict(t) ==
  /\ t.type # "unsupported"
  /\ t.type = "description" => Written(t) <= DescriptionSize
  /\ head + TlvHeaderSize + TlvSize(t) < room

Encodable(t) ==
  /\ t.type # "unsupported"
  /\ t.type = "description" => Written(t) <= DescriptionSize
  /\ head + TlvHeaderSize + TlvSize(t) <= room

\* enum ptp_tlv_type
TypeNumber == [description |-> 1, time |-> 1, error |-> 2, request |-> 4,
               grant |-> 5, cancel |-> 6, acknowledge |-> 7, time_offset |-> 9,
               pad |-> 32776, authentication |-> 32777, unsupported |-> 3]

\* Behind the buffer stands buffer.length, still 0.  The type of a TLV is stored
\* in network byte order before there is known to be room for it, and buffer.length
\* gets what is beyond the end.  (Padding is zeroed before its check as well, and
\* leaves a 0 there and in the unused bytes in front of the message.)
Overrun(t) ==
  LET number == TypeNumber[t.type]
  IN CASE head = room     -> (number % Byte) * Byte + number \div Byte
       [] head + 1 = room -> number % Byte
       [] OTHER           -> 0

\* The encoder returns an error; ptp_finalize_message does not go on.
Refuse(length) == /\ pc' = "refused"
                  /\ packet' = [packet EXCEPT !.length = length]
                  /\ UNCHANGED <<message, room, head, decoded>>

\* ptp_encode_message up to the loop over the TLVs.
EncodeHeader ==
  LET size == HeaderSize + PayloadSize[message.type]
      encodable == message.type \in DOMAIN PayloadSize /\ size <= room
  IN /\ pc = "build"
     /\ \/ ~encodable /\ Refuse(0)
        \/ /\ encodable
           /\ pc' = "encode"
           /\ head' = size
           /\ packet' = [NoPacket EXCEPT
                !.type = message.type,
                !.timestamp = IF message.type \in Timed
                                THEN EncodedTimestamp(message.time) ELSE @]
           /\ UNCHANGED <<message, room, decoded>>

\* ptp_encode_tlv, called with a TLV of the message or the padding.
EncodeTlv(t, onward) ==
  \/ ~Encodable(t) /\ Refuse(Overrun(t))
  \/ /\ Encodable(t)
     /\ pc' = onward
     /\ head' = head + TlvHeaderSize + TlvSize(t)
     /\ packet' = [packet EXCEPT !.tlvs = Append(@, EncodedTlv(t, head)),
                                 !.length = IF onward = "sent" THEN head' ELSE 0]
     /\ UNCHANGED <<message, room, decoded>>

EncodeNext ==
  LET next == Len(packet.tlvs) + 1
  IN /\ pc = "encode"
     /\ next <= Len(message.tlvs)
     /\ EncodeTlv(message.tlvs[next], "encode")

\* Mutant: the padding's own header is not counted.
PadHeaderless == [type |-> "pad", asked |-> 0, flags |-> 0,
                  text |-> (-(head + NetworkOverhead)) % Alignment]

Pad == [type |-> "pad", asked |-> 0, flags |-> 0,
        text |-> (-(head + NetworkOverhead + TlvHeaderSize)) % Alignment]

\* The padding is always added: the condition in front of it lacks parentheses
\* and is a length plus a remainder.
EncodePad ==
  /\ pc = "encode"
  /\ Len(packet.tlvs) = Len(message.tlvs)
  /\ EncodeTlv(Pad, "sent")

-----------------------------------------------------------------------------
(* Decoding. *)

DecodedTimestamp(e) ==
  (e.high * LowRange + e.low) * Second + e.nanoseconds

\* ptp_decode_payload: the sizes are the encoder's.
PayloadPresent(type) ==
  type \in DOMAIN PayloadSize
    /\ HeaderSize + PayloadSize[type] <= packet.length

DecodeHeader ==
  /\ pc = "sent"
  /\ \/ /\ ~PayloadPresent(packet.type)
        /\ pc' = "undecodable"
        /\ UNCHANGED <<head, decoded>>
     \/ /\ PayloadPresent(packet.type)
        /\ pc' = "decode"
        /\ head' = HeaderSize + PayloadSize[packet.type]
        /\ \E clean \in BOOLEAN :
             decoded' = [type |-> packet.type,
                         time |-> DecodedTimestamp(packet.timestamp),
                         clean |-> clean, tlvs |-> <<>>]
  /\ UNCHANGED <<message, room, packet>>

\* ptp_decode_management_tlv
ManagementFits(w) ==
  \/ w.type = "time" /\ 2 + 10 <= w.length
  \/ w.type = "description" /\ w.text <= DescriptionSize
                            /\ 2 + 1 + w.text <= w.length

\* ptp_decode_management_error_status_tlv
ErrorStatusFits(w) == w.text <= ErrorTextSize /\ 8 + 1 + w.text <= w.length

\* The checks of ptp_decode_tlv.
TlvFits(w) ==
  /\ head + TlvHeaderSize + w.length <= packet.length
  /\ CASE w.type \in {"description", "time"}   -> ManagementFits(w)
       [] w.type = "error"                     -> ErrorStatusFits(w)
       [] w.type = "request"                   -> 6 <= w.length
       [] w.type = "grant"                     -> 8 <= w.length
       [] w.type \in {"cancel", "acknowledge"} -> 2 <= w.length
       [] w.type = "time_offset"               -> /\ w.text <= NameSize
                                                  /\ 15 + 1 + w.text <= w.length
       [] w.type = "authentication"            -> 6 <= w.length
       [] w.type = "pad"                       -> TRUE

\* Padding and integrity values have the length their header leaves them; the
\* flags of a grant are taken from the other half of their byte.
DecodedTlv(w) ==
  [type |-> w.type,
   text |-> CASE w.type = "pad"            -> w.length
              [] w.type = "authentication" -> w.length - 6
              [] OTHER                     -> w.text,
   asked |-> w.typeByte \div 16,
   flags |-> CASE w.type = "grant"                     -> w.flagsByte \div 16
               [] w.type \in {"cancel", "acknowledge"} -> w.typeByte % 4
               [] OTHER                                -> 0]

\* An error text is copied without a terminator: what a longer one has left in
\* the structure goes on behind it.
Decodings(w) ==
  {[DecodedTlv(w) EXCEPT !.text = n] :
     n \in IF w.type = "error" /\ ~decoded.clean THEN w.text..ErrorTextSize
                                                 ELSE {DecodedTlv(w).text}}

\* Mutant: the decoder goes on behind the text and not behind the TLV.
BehindText(w) == head + TlvHeaderSize
                   + IF w.type = "error" THEN 9 + w.text ELSE w.length

\* Where the decoder goes on.
Behind(w) == head + TlvHeaderSize + w.length

DecodeDone == head >= packet.length \/ Len(decoded.tlvs) = MaxTlv

\* A turn of the loop of ptp_decode_message.  Where no TLV was written the
\* decoder finds something it cannot make sense of.
DecodeTlv ==
  /\ pc = "decode"
  /\ ~DecodeDone
  /\ \/ \E w \in ToSet(packet.tlvs) :
          /\ w.at = head
          /\ TlvFits(w)
          /\ head' = Behind(w)
          /\ \E found \in Decodings(w) :
               decoded' = [decoded EXCEPT !.tlvs = Append(@, found)]
          /\ UNCHANGED pc
     \/ /\ \A w \in ToSet(packet.tlvs) : w.at = head => ~TlvFits(w)
        /\ pc' = "undecodable"
        /\ UNCHANGED <<head, decoded>>
  /\ UNCHANGED <<message, room, packet>>

DecodeEnds ==
  /\ pc = "decode"
  /\ DecodeDone
  /\ pc' = "decoded"
  /\ UNCHANGED <<message, room, head, packet, decoded>>

-----------------------------------------------------------------------------
Next == \/ AddTlv \/ EncodeHeader \/ EncodeNext \/ EncodePad
        \/ DecodeHeader \/ DecodeTlv \/ DecodeEnds

Spec == Init /\ [][Next]_vars

-----------------------------------------------------------------------------
(* Properties. *)

\* What a TLV is on the wire, and what is decoded from it.
WireTlv == [type : TlvType \cup {"pad"}, at : Nat, length : Nat, text : Nat,
            typeByte : Nat, flagsByte : Nat]

FoundTlv == [type : TlvType \cup {"pad"}, text : Int, asked : Int, flags : Int]

TypeOK ==
  /\ pc \in {"build", "encode", "refused", "sent", "decode", "decoded",
             "undecodable"}
  /\ message \in [type : MessageType, time : Time, tlvs : Seq(Tlv)]
  /\ Len(message.tlvs) <= MaxTlv
  /\ room \in Room
  /\ head \in Nat
  /\ packet \in [type : MessageType,
                 timestamp : [high : Nat, low : Nat, nanoseconds : Nat],
                 tlvs : Seq(WireTlv), length : Nat]
  /\ decoded \in [type : MessageType, time : Int, clean : BOOLEAN,
                  tlvs : Seq(FoundTlv)]
  /\ Len(decoded.tlvs) <= MaxTlv

Sent == {"sent", "decode", "decoded"}

\* What has a length to be sent with fills a multiple of 16 bytes together with
\* the headers of the network, and fits into the buffer it was encoded for.  A
\* message the encoder gives up has no length, with one exception: if what was
\* encoded of it ends with the buffer (or a byte before), the type of the next
\* TLV becomes its length.
PacketAligned ==
  /\ pc \in Sent => /\ (packet.length + NetworkOverhead) % Alignment = 0
                    /\ packet.length <= room
  /\ packet.length > 0 =>
       pc \in Sent \/ (pc = "refused" /\ head \in {room - 1, room})

\* Where the first TLV starts.
Start == HeaderSize + PayloadSize[message.type]

\* How long the first k TLVs are when they are encoded.
EncodedSize(tlvs) ==
  LET size[k \in 0..Len(tlvs)] ==
        IF k = 0 THEN 0 ELSE size[k - 1] + TlvHeaderSize + TlvSize(tlvs[k])
  IN size

\* Where the first k TLVs of the message end, if nothing stands between them.
Unpadded(k) == Start + EncodedSize(message.tlvs)[k]

\* What the encoder may refuse: something it does not know, a description that
\* is too long (by the byte its length is cut to), or a message whose parts with
\* the least padding that aligns it are longer than the buffer.
Unencodable ==
  LET plain == Unpadded(Len(message.tlvs))
      aligned == {n \in 0..(Alignment - 1) :
                    (plain + TlvHeaderSize + n + NetworkOverhead) % Alignment = 0}
  IN \/ message.type = "unsupported"
     \/ \E i \in 1..Len(message.tlvs) :
          \/ message.tlvs[i].type = "unsupported"
          \/ /\ message.tlvs[i].type = "description"
             /\ Written(message.tlvs[i]) > DescriptionSize
     \/ \A n \in aligned : plain + TlvHeaderSize + n > room

\* Every message fits that can, wherever in it the encoder finds out that the
\* rest does not: no room is lost between the TLVs or to the padding.
RefusedForAReason == pc = "refused" => Unencodable

\* Nothing that was encoded is refused by the decoder, whichever limits of the
\* two meet: otherwise ptp_security_complete_auth_tlvs would fail on the
\* server's own replies.
OwnMessagesDecode == pc # "undecodable"

\* What may come of a TLV: a grant's flags are lost on the way, which nobody
\* looks at, of a description all beyond its length modulo 256, and an error text
\* may be continued by an older one, but not in a clean structure.
Received(t) ==
  CASE t.type = "grant"       -> {[t EXCEPT !.flags = 0]}
    [] t.type = "description" -> {[t EXCEPT !.text = t.text % Byte]}
    [] t.type = "error" /\ ~decoded.clean ->
         {[t EXCEPT !.text = n] : n \in t.text..ErrorTextSize}
    [] OTHER                  -> {t}

\* What is decoded is what was encoded: the type, the time to the nanosecond,
\* and every TLV in its place, also when the message has as many TLVs as there
\* is room for and the padding is one too many; so a description of up to 255
\* bytes is never changed, nor is an error text that a client decodes into a new
\* structure or the server into the reply itself.
RoundTrip ==
  pc = "decoded" =>
    /\ decoded.type = message.type
    /\ message.type \in Timed => decoded.time = message.time
    /\ Len(decoded.tlvs) \in {Len(message.tlvs), Len(message.tlvs) + 1}
    /\ \A i \in 1..Len(message.tlvs) :
         decoded.tlvs[i] \in Received(message.tlvs[i])
    /\ \A i \in (Len(message.tlvs) + 1)..Len(decoded.tlvs) :
         decoded.tlvs[i].type = "pad"

\* Where what follows a TLV starts.
After(w) == w.at + TlvHeaderSize + w.length

\* Where the encoder is, or was when it had finished.
End == IF pc = "encode" THEN head ELSE packet.length

\* A TLV starts where the one before it ends, and lies within the packet.
InPlace(i) ==
  /\ packet.tlvs[i].at = IF i = 1 THEN Start ELSE After(packet.tlvs[i - 1])
  /\ \A j \in 1..(i - 1) : packet.tlvs[j].at < packet.tlvs[i].at
  /\ After(packet.tlvs[i]) <= End

\* It is one of the message's, or the padding behind them.
FromMessage(i) ==
  IF i <= Len(message.tlvs)
    THEN /\ message.tlvs[i].type # "unsupported"
         /\ message.tlvs[i].type = "description" =>
              Written(message.tlvs[i]) <= DescriptionSize
         /\ packet.tlvs[i] = EncodedTlv(message.tlvs[i], packet.tlvs[i].at)
    ELSE packet.tlvs[i].type = "pad"

\* The TLVs of a packet are those of the message, encoded one behind the other,
\* and the padding when the packet is complete.
Layout ==
  pc \in {"encode"} \cup Sent =>
    /\ message.type \in DOMAIN PayloadSize
    /\ packet.type = message.type
    /\ message.type \in Timed =>
         packet.timestamp = EncodedTimestamp(message.time)
    /\ End = IF packet.tlvs = <<>> THEN Start
                                   ELSE After(packet.tlvs[Len(packet.tlvs)])
    /\ \A i \in 1..Len(packet.tlvs) : InPlace(i) /\ FromMessage(i)

\* How far encoder and decoder have come, and what the decoder has found.
Progress ==
  LET n == Len(packet.tlvs)
      k == Len(decoded.tlvs)
  IN /\ pc = "encode" => n <= Len(message.tlvs)
     /\ pc \in Sent => n = Len(message.tlvs) + 1
     /\ pc \in {"decode", "decoded"} =>
          /\ k <= n
          /\ head = IF k = n THEN packet.length ELSE packet.tlvs[k + 1].at
          /\ decoded.type = message.type
          /\ decoded.time = DecodedTimestamp(packet.timestamp)
          /\ \A i \in 1..k : decoded.tlvs[i] \in Decodings(packet.tlvs[i])
     /\ pc = "decoded" => k = n \/ k = MaxTlv

\* The encoder is behind the parts it has encoded.
Summed == pc = "encode" => head = Unpadded(Len(packet.tlvs))

\* The inductive invariant ...
IInv == /\ TypeOK
        /\ PacketAligned
        /\ OwnMessagesDecode
        /\ Layout
        /\ Progress

\* ... and what is inductive together with it.
SizesAddUp == Summed /\ RefusedForAReason
=============================================================================
