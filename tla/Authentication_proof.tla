------------------------ MODULE Authentication_proof ------------------------
(***************************************************************************)
(* Proofs about MessageCodec and Authentication, which extends it.         *)
(*                                                                         *)
(* First MessageCodec, for buffers of every size, texts, timestamps and    *)
(* limits: packets are aligned and fit, the decoder accepts what the       *)
(* encoder produced, what it finds is what was encoded (but for long       *)
(* descriptions and old structures), and only messages that cannot fit are *)
(* refused.                                                                *)
(*                                                                         *)
(* Then Authentication, for requests and answers with any number of TLVs:  *)
(* a TLV is served exactly to those who may have it, where the value that  *)
(* decides has its full length, and replies verify.                        *)
(* What is shown of encoder and decoder holds for requests and for the     *)
(* replies made from them.                                                 *)
(***************************************************************************)
EXTENDS Authentication, TLAPS, WellFoundedInduction

-----------------------------------------------------------------------------
(* Arithmetic. *)

\* A set of numbers has a least one.
LEMMA LeastNumber ==
  ASSUME NEW S, S \subseteq Nat, S # {}
  PROVE  \E x \in S : \A y \in S : x <= y
<1> DEFINE R == OpToRel(<, Nat)
<1>1. PICK x \in S : \A y \in S : ~ (<<y, x>> \in R)
  <2>1. IsWellFoundedOn(R, Nat)
    BY NatLessThanWellFounded
  <2> HIDE DEF R
  <2> QED BY <2>1, WFMin
<1>2. \A y \in S : x <= y
  <2> SUFFICES ASSUME NEW y \in S PROVE x <= y
    OBVIOUS
  <2>1. ~(y < x)
    BY <1>1 DEF OpToRel
  <2> QED BY <2>1
<1> QED BY <1>2

\* Quotient and remainder.
LEMMA DivMod ==
  ASSUME NEW a \in Nat, NEW b \in Nat, b > 0
  PROVE  /\ a = b * (a \div b) + (a % b)
         /\ a % b \in 0..(b - 1)
         /\ a \div b \in Nat
OBVIOUS

\* The quotient of a number below a product.
LEMMA DivLess ==
  ASSUME NEW a \in Nat, NEW b \in Nat, NEW c \in Nat, b > 0, a < c * b
  PROVE  a \div b < c
BY DivMod

\* The remainder of a number below the divisor.
LEMMA ModSmall ==
  ASSUME NEW a \in Nat, NEW b \in Nat, a < b
  PROVE  a % b = a
OBVIOUS

\* The three fields of a timestamp hold every 64-bit number of nanoseconds.
LEMMA TimestampRoundTrip ==
  ASSUME NEW t \in Time
  PROVE  /\ EncodedTimestamp(t) \in [high : Nat, low : Nat, nanoseconds : Nat]
         /\ DecodedTimestamp(EncodedTimestamp(t)) = t
<1> DEFINE s == t \div Second
           h == s \div LowRange
<1>1. /\ Second \in Nat /\ Second > 0
      /\ LowRange \in Nat /\ LowRange > 0
      /\ HighRange \in Nat /\ HighRange - 1 \in Nat
  BY CodecAssumption
<1>2. Mask \in Nat
  BY <1>1 DEF Mask
<1>3. t \in Nat /\ t < Mask * Second
  <2>1. t \in 0..(Mask * Second - 1)
    BY CodecAssumption
  <2>2. Mask * Second \in Int
    BY <1>1, <1>2
  <2> QED BY <2>1, <2>2
<1>4. /\ t = Second * s + (t % Second)
      /\ t % Second \in Nat
      /\ s \in Nat
  BY <1>1, <1>3, DivMod
<1>5. s < Mask
  BY <1>1, <1>2, <1>3, DivLess
<1> HIDE DEF s
<1>6. /\ s = LowRange * h + (s % LowRange)
      /\ s % LowRange \in Nat
      /\ h \in Nat
  BY <1>1, <1>4, DivMod
<1>7. h < HighRange - 1
  BY <1>1, <1>4, <1>5, DivLess DEF Mask
<1>8. s % Mask = s
  BY <1>2, <1>4, <1>5, ModSmall
<1> HIDE DEF h
<1>9. h % HighRange = h
  <2>1. h \in Nat /\ HighRange \in Nat /\ h < HighRange
    BY <1>1, <1>6, <1>7
  <2> QED BY <2>1, ModSmall
<1>10. EncodedTimestamp(t) = [high |-> h, low |-> s % LowRange,
                              nanoseconds |-> t % Second]
  BY <1>8, <1>9 DEF EncodedTimestamp, s, h
<1>11. h * LowRange + (s % LowRange) = s
  BY <1>1, <1>6
<1>12. s * Second + (t % Second) = t
  BY <1>1, <1>4
<1> QED BY <1>4, <1>6, <1>10, <1>11, <1>12 DEF DecodedTimestamp

-----------------------------------------------------------------------------
(* A single TLV. *)

\* What the definition of Tlv says.
LEMMA TlvParts ==
  ASSUME NEW t \in Tlv
  PROVE  /\ t \in [type : TlvType, text : TextLength \cup {0}, asked : {0, 11},
                   flags : 0..3]
         /\ t.text \in Nat /\ t.type \in TlvType
         /\ t.asked \in {0, 11} /\ t.flags \in 0..3
         /\ t.type = "error" => t.text <= ErrorTextSize
         /\ t.type = "time_offset" => t.text <= NameSize
         /\ t.type \notin Unicast \ {"request"} => t.flags = 0
<1>1. TextLength \subseteq Nat
  BY CodecAssumption
<1>2. t \in [type : TlvType, text : TextLength \cup {0}, asked : {0, 11},
             flags : 0..3]
  BY DEF Tlv
<1>3. /\ t.type = "error" => t.text <= ErrorTextSize
      /\ t.type = "time_offset" => t.text <= NameSize
      /\ t.type \notin Unicast \ {"request"} => t.flags = 0
  BY DEF Tlv
<1>4. /\ t.text \in TextLength \cup {0} /\ t.type \in TlvType
      /\ t.asked \in {0, 11} /\ t.flags \in 0..3
  BY <1>2
<1>5. t.text \in Nat
  <2>1. 0 \in Nat
    OBVIOUS
  <2> QED BY <1>1, <1>4, <2>1, Zenon
<1> QED BY <1>2, <1>3, <1>4, <1>5, Zenon

\* As much of a text is written as there is, but of a description.
LEMMA WrittenType ==
  ASSUME NEW t, t.text \in Nat
  PROVE  /\ Written(t) \in Nat
         /\ t.type # "description" => Written(t) = t.text
<1>1. t.text % Byte \in Nat
  BY DEF Byte
<1> QED BY <1>1 DEF Written

\* The size of each TLV, by its type.
LEMMA TlvSizes ==
  ASSUME NEW t, t.text \in Nat
  PROVE  /\ Padding(t.text) \in Nat /\ Padding(Written(t)) \in Nat
         /\ t.type = "description" =>
              TlvSize(t) = 3 + Written(t) + Padding(Written(t))
         /\ t.type = "time" => TlvSize(t) = 12
         /\ t.type = "error" => TlvSize(t) = 9 + t.text + Padding(t.text)
         /\ t.type = "request" => TlvSize(t) = 6
         /\ t.type = "grant" => TlvSize(t) = 8
         /\ t.type \in {"cancel", "acknowledge"} => TlvSize(t) = 2
         /\ t.type = "time_offset" =>
              TlvSize(t) = 16 + t.text + Padding(t.text)
         /\ t.type = "authentication" => TlvSize(t) = 6 + t.text
         /\ t.type = "pad" => TlvSize(t) = t.text
<1>1. /\ Padding(t.text) \in Nat /\ Padding(Written(t)) \in Nat
      /\ Written(t) \in Nat
  BY WrittenType DEF Padding
<1>2. ManagementSize(t) = IF t.type = "time" THEN 12
                            ELSE 3 + Written(t) + Padding(Written(t))
  BY <1>1 DEF ManagementSize
<1>3. ErrorStatusSize(t) = 9 + t.text + Padding(t.text)
  BY <1>1 DEF ErrorStatusSize
<1>4. CASE t.type \in {"description", "time"}
  BY <1>1, <1>2, <1>4 DEF TlvSize
<1>5. CASE t.type = "error"
  BY <1>1, <1>3, <1>5 DEF TlvSize
<1>6. CASE t.type \notin {"description", "time", "error"}
  BY <1>1, <1>6 DEF TlvSize
<1> QED BY <1>4, <1>5, <1>6

\* A TLV's size is a number of bytes.
LEMMA TlvSizeType ==
  ASSUME NEW t \in Tlv, t.type # "unsupported"
  PROVE  TlvSize(t) \in Nat
<1>1. t.text \in Nat /\ t.type \in TlvType
  BY TlvParts, Zenon
<1>2. Padding(t.text) \in Nat /\ Padding(Written(t)) \in Nat /\ Written(t) \in Nat
  BY <1>1, WrittenType DEF Padding
<1> QED BY <1>1, <1>2, TlvSizes DEF TlvType

\* The encoded TLV holds the TLV's parts ...
LEMMA EncodedTlvType ==
  ASSUME NEW t \in Tlv, t.type # "unsupported", NEW at \in Nat
  PROVE  EncodedTlv(t, at) \in WireTlv
<1>1. /\ t.text \in Nat /\ t.type \in TlvType
      /\ t.asked \in {0, 11} /\ t.flags \in 0..3
  BY TlvParts, Zenon
<1>2. TypeByte(t) \in Nat
  BY <1>1 DEF TypeByte
<1>3. TlvSize(t) \in Nat /\ Written(t) \in Nat
  BY <1>1, TlvSizeType, WrittenType
<1> QED BY <1>1, <1>2, <1>3 DEF EncodedTlv, WireTlv

\* ... which the decoder finds again ...
LEMMA TlvRoundTrip ==
  ASSUME NEW t \in Tlv, t.type # "unsupported", NEW at \in Nat
  PROVE  Decodings(EncodedTlv(t, at)) \subseteq Received(t)
<1>1. /\ t.text \in Nat /\ t.type \in TlvType
      /\ t.asked \in {0, 11} /\ t.flags \in 0..3
      /\ t \in [type : TlvType, text : TextLength \cup {0}, asked : {0, 11},
                flags : 0..3]
      /\ t.type \notin Unicast \ {"request"} => t.flags = 0
  BY TlvParts, Zenon
<1>2. TypeByte(t) \div 16 = t.asked
  BY <1>1 DEF TypeByte
<1>3. t.type \in {"cancel", "acknowledge"} => TypeByte(t) % 4 = t.flags
  BY <1>1 DEF TypeByte
<1>4. t.type = "grant" => t.flags \div 16 = 0
  BY <1>1
<1>5. t.type = "authentication" => TlvSize(t) - 6 = t.text
  BY <1>1, TlvSizes
<1>6. DecodedTlv(EncodedTlv(t, at)) =
        [type |-> t.type, text |-> Written(t), asked |-> t.asked,
         flags |-> IF t.type = "grant" THEN 0 ELSE t.flags]
  <2>1. t.type = "authentication" => Written(t) = t.text
    BY DEF Written
  <2> QED BY <1>1, <1>2, <1>3, <1>4, <1>5, <2>1
          DEF DecodedTlv, EncodedTlv, TlvType, Unicast
<1>7. t = [type |-> t.type, text |-> t.text, asked |-> t.asked,
           flags |-> t.flags]
  BY <1>1
<1> DEFINE w == EncodedTlv(t, at)
           d == DecodedTlv(w)
<1>8. w.type = t.type /\ w.text = Written(t)
  BY DEF EncodedTlv
<1> HIDE DEF w
<1>9. \A e \in Decodings(w) :
        \/ e = d
        \/ /\ t.type = "error" /\ ~decoded.clean
           /\ \E n \in t.text..ErrorTextSize : e = [d EXCEPT !.text = n]
  <2>1. [d EXCEPT !.text = d.text] = d
    BY <1>6 DEF w
  <2>2. t.type = "error" => w.text = t.text
    BY <1>8 DEF Written
  <2> HIDE DEF d
  <2>3. Decodings(w) =
          {[d EXCEPT !.text = n] :
             n \in IF w.type = "error" /\ ~decoded.clean
                     THEN w.text..ErrorTextSize ELSE {d.text}}
    BY DEF Decodings, d
  <2> QED BY <1>8, <2>1, <2>2, <2>3
<1>10. d \in Received(t)
  <2>1. d = [type |-> t.type, text |-> Written(t), asked |-> t.asked,
             flags |-> IF t.type = "grant" THEN 0 ELSE t.flags]
    BY <1>6 DEF w
  <2> HIDE DEF d
  <2>2. CASE t.type = "grant"
    <3>1. d = [t EXCEPT !.flags = 0]
      BY <1>1, <2>1, <2>2 DEF Written
    <3> QED BY <2>2, <3>1 DEF Received
  <2>3. CASE t.type = "description"
    <3>1. d = [t EXCEPT !.text = t.text % Byte]
      BY <1>1, <1>7, <2>1, <2>3 DEF Written
    <3> QED BY <2>3, <3>1 DEF Received
  <2>4. CASE t.type \notin {"grant", "description"}
    <3>1. d = t
      BY <1>1, <1>7, <2>1, <2>4 DEF Written
    <3>2. CASE t.type = "error" /\ ~decoded.clean
      <4>1. t.text \in t.text..ErrorTextSize /\ [t EXCEPT !.text = t.text] = t
        BY <1>1, <1>7, <3>2, TlvParts, CodecAssumption
      <4>2. Received(t) = {[t EXCEPT !.text = n] : n \in t.text..ErrorTextSize}
        BY <3>2 DEF Received
      <4> QED BY <3>1, <4>1, <4>2
    <3>3. CASE ~(t.type = "error" /\ ~decoded.clean)
      BY <2>4, <3>1, <3>3 DEF Received
    <3> QED BY <3>2, <3>3
  <2> QED BY <2>2, <2>3, <2>4
<1>11. ASSUME t.type = "error", ~decoded.clean, NEW n \in t.text..ErrorTextSize
       PROVE  [d EXCEPT !.text = n] \in Received(t)
  <2>1. [d EXCEPT !.text = n] = [t EXCEPT !.text = n]
    BY <1>6, <1>7, <1>11 DEF w
  <2> QED BY <1>11, <2>1 DEF Received
<1> HIDE DEF d
<1> QED BY <1>9, <1>10, <1>11 DEF w

\* ... after it has passed all checks but the one of the packet's length.
LEMMA TlvAccepted ==
  ASSUME NEW t \in Tlv, t.type # "unsupported", NEW at \in Nat,
         t.type = "description" => Written(t) <= DescriptionSize,
         NEW w, w = EncodedTlv(t, at),
         head + TlvHeaderSize + w.length <= packet.length
  PROVE  TlvFits(w)
<1>1. /\ t.text \in Nat /\ t.type \in TlvType
      /\ t.type = "error" => t.text <= ErrorTextSize
      /\ t.type = "time_offset" => t.text <= NameSize
  BY TlvParts, Zenon
<1>2. /\ w.type = t.type /\ w.length = TlvSize(t) /\ w.text = Written(t)
      /\ t.type # "description" => w.text = t.text
  BY DEF EncodedTlv, Written
<1>3. /\ Padding(t.text) \in Nat /\ Padding(Written(t)) \in Nat
      /\ Written(t) \in Nat
  BY <1>1, TlvSizes, WrittenType
<1>4. CASE t.type \in {"description", "time"}
  <2>1. ManagementFits(w)
    BY <1>1, <1>2, <1>3, <1>4, TlvSizes DEF ManagementFits
  <2> QED BY <1>2, <1>4, <2>1 DEF TlvFits
<1>5. CASE t.type = "error"
  <2>1. ErrorStatusFits(w)
    BY <1>1, <1>2, <1>3, <1>5, TlvSizes DEF ErrorStatusFits
  <2> QED BY <1>2, <1>5, <2>1 DEF TlvFits
<1>6. CASE t.type \notin {"description", "time", "error"}
  <2>1. CASE t.type = "time_offset"
    <3>1. w.length = 16 + t.text + Padding(t.text)
      BY <1>1, <1>2, <2>1, TlvSizes
    <3>2. 15 + 1 + w.text <= w.length
      BY <1>1, <1>2, <1>3, <2>1, <3>1
    <3>3. w.text <= NameSize
      BY <1>1, <1>2, <2>1
    <3> QED BY <1>2, <2>1, <3>2, <3>3 DEF TlvFits
  <2>2. CASE t.type = "authentication"
    <3>1. 6 <= w.length
      BY <1>1, <1>2, <2>2, TlvSizes
    <3> QED BY <1>2, <2>2, <3>1 DEF TlvFits
  <2>3. CASE t.type = "request"
    <3>1. 6 <= w.length
      BY <1>1, <1>2, <2>3, TlvSizes
    <3> QED BY <1>2, <2>3, <3>1 DEF TlvFits
  <2>4. CASE t.type = "grant"
    <3>1. 8 <= w.length
      BY <1>1, <1>2, <2>4, TlvSizes
    <3> QED BY <1>2, <2>4, <3>1 DEF TlvFits
  <2>5. CASE t.type \in {"cancel", "acknowledge"}
    <3>1. 2 <= w.length
      BY <1>1, <1>2, <2>5, TlvSizes
    <3> QED BY <1>2, <2>5, <3>1 DEF TlvFits
  <2> QED BY <1>1, <1>6, <2>1, <2>2, <2>3, <2>4, <2>5 DEF TlvType
<1> QED BY <1>4, <1>5, <1>6

\* The padding aligns the packet.
LEMMA PadAligns ==
  ASSUME head \in Nat
  PROVE  /\ EncodedTlv(Pad, head) \in WireTlv
         /\ TlvSize(Pad) = Pad.text
         /\ (head + TlvHeaderSize + TlvSize(Pad) + NetworkOverhead) % Alignment
              = 0
<1> DEFINE n == (-(head + NetworkOverhead + TlvHeaderSize)) % Alignment
<1>1. n \in 0..15 /\ (head + 4 + n + 42) % 16 = 0
  BY DEF NetworkOverhead, TlvHeaderSize, Alignment
<1> HIDE DEF n
<1>2. Pad = [type |-> "pad", asked |-> 0, flags |-> 0, text |-> n]
  BY DEF Pad, n
<1>3. TlvSize(Pad) = n
  BY <1>1, <1>2, TlvSizes
<1>4. TypeByte(Pad) = 0
  BY <1>2 DEF TypeByte
<1>5. EncodedTlv(Pad, head) \in WireTlv
  <2>1. Written(Pad) = n
    BY <1>2 DEF Written
  <2> QED BY <1>1, <1>2, <1>3, <1>4, <2>1 DEF EncodedTlv, WireTlv
<1> QED BY <1>1, <1>2, <1>3, <1>5 DEF NetworkOverhead, TlvHeaderSize, Alignment

\* What is decoded from a TLV has the parts of one.
LEMMA DecodedTlvType ==
  ASSUME NEW w \in WireTlv
  PROVE  \A found \in Decodings(w) : found \in FoundTlv /\ found.type = w.type
<1>1. DecodedTlv(w) \in FoundTlv /\ DecodedTlv(w).type = w.type
  BY DEF WireTlv, DecodedTlv, FoundTlv
<1>2. w.text \in Int /\ ErrorTextSize \in Int
  BY CodecAssumption DEF WireTlv
<1> HIDE DEF FoundTlv
<1>3. \A n \in Int : /\ [DecodedTlv(w) EXCEPT !.text = n] \in FoundTlv
                     /\ [DecodedTlv(w) EXCEPT !.text = n].type = w.type
  BY <1>1 DEF FoundTlv
<1>4. DecodedTlv(w).text \in Int
  BY <1>1 DEF FoundTlv
<1> SUFFICES ASSUME NEW found \in Decodings(w)
             PROVE  found \in FoundTlv /\ found.type = w.type
  OBVIOUS
<1>5. PICK n : /\ found = [DecodedTlv(w) EXCEPT !.text = n]
               /\ n \in IF w.type = "error" /\ ~decoded.clean
                           THEN w.text..ErrorTextSize ELSE {DecodedTlv(w).text}
  BY DEF Decodings
<1>6. n \in Int
  BY <1>2, <1>4, <1>5
<1> QED BY <1>3, <1>5, <1>6

\* A TLV ends behind its start.
LEMMA AfterType ==
  ASSUME NEW w \in WireTlv
  PROVE  w.at \in Nat /\ After(w) \in Nat /\ w.at < After(w)
<1>1. w.at \in Nat /\ w.length \in Nat
  BY DEF WireTlv
<1> QED BY <1>1 DEF After, TlvHeaderSize

-----------------------------------------------------------------------------
(* The encoder. *)

\* The payloads have sizes.
LEMMA PayloadSizeType ==
  ASSUME NEW type \in DOMAIN PayloadSize
  PROVE  PayloadSize[type] \in Nat /\ type \in MessageType
BY DEF PayloadSize, MessageType

LEMMA InitInvariant == Init => IInv
<1> SUFFICES ASSUME Init PROVE IInv
  OBVIOUS
<1>1. TypeOK
  <2>1. message.type \in MessageType /\ message.time \in Time
          /\ message.tlvs = <<>>
    BY DEF Init
  <2>2. message \in [type : MessageType, time : Time, tlvs : Seq(Tlv)]
    <3>1. <<>> \in Seq(Tlv)
      OBVIOUS
    <3>2. {<<>>} \subseteq Seq(Tlv)
      BY <3>1
    <3> QED BY <3>2, Zenon DEF Init
  <2>3. MaxTlv \in Nat
    BY CodecAssumption
  <2> QED BY <2>1, <2>2, <2>3 DEF Init, TypeOK, NoPacket, NotDecoded, MessageType
<1> QED BY <1>1 DEF Init, IInv, PacketAligned, OwnMessagesDecode, Layout,
                    Progress, Sent, NoPacket

\* Nothing is said of a message that is being built or was refused.
LEMMA AddTlvStep == IInv /\ AddTlv => IInv'
<1> SUFFICES ASSUME IInv, AddTlv PROVE IInv'
  OBVIOUS
<1>1. TypeOK'
  <2>1. PICK t \in Tlv : message' = [message EXCEPT !.tlvs = Append(@, t)]
    BY DEF AddTlv
  <2>2. /\ message \in [type : MessageType, time : Time, tlvs : Seq(Tlv)]
        /\ MaxTlv \in Nat /\ Len(message.tlvs) < MaxTlv
    BY CodecAssumption DEF IInv, TypeOK, AddTlv
  <2>3. /\ message' \in [type : MessageType, time : Time, tlvs : Seq(Tlv)]
        /\ Len(message'.tlvs) <= MaxTlv
    <3>1. /\ Append(message.tlvs, t) \in Seq(Tlv)
          /\ Len(Append(message.tlvs, t)) = Len(message.tlvs) + 1
          /\ Len(message.tlvs) \in Nat
      BY <2>2
    <3>2. message' = [type |-> message.type, time |-> message.time,
                      tlvs |-> Append(message.tlvs, t)]
      BY <2>1, <2>2
    <3> QED BY <2>2, <3>1, <3>2
  <2> QED BY <2>3 DEF IInv, TypeOK, AddTlv
<1> QED BY <1>1 DEF AddTlv, IInv, PacketAligned, OwnMessagesDecode, Layout,
                    Progress, Sent

\* What is left of a message the encoder gives up.
LEMMA RefuseStep ==
  ASSUME IInv, NEW length \in Nat, Refuse(length),
         length > 0 => head \in {room - 1, room}
  PROVE  IInv'
<1>1. /\ pc' = "refused" /\ packet' = [packet EXCEPT !.length = length]
      /\ UNCHANGED <<message, room, head, decoded>>
  BY DEF Refuse
<1>2. packet \in [type : MessageType,
                  timestamp : [high : Nat, low : Nat, nanoseconds : Nat],
                  tlvs : Seq(WireTlv), length : Nat]
  BY DEF IInv, TypeOK
<1>3. /\ packet' \in [type : MessageType,
                      timestamp : [high : Nat, low : Nat, nanoseconds : Nat],
                      tlvs : Seq(WireTlv), length : Nat]
      /\ packet'.length = length
  BY <1>1, <1>2
<1>4. TypeOK'
  BY <1>1, <1>3 DEF IInv, TypeOK
<1> QED BY <1>1, <1>3, <1>4 DEF IInv, PacketAligned, OwnMessagesDecode, Layout,
                                Progress, Sent

\* The type of a TLV that overruns the buffer.
LEMMA OverrunType ==
  ASSUME head \in Nat, room \in Nat, NEW t, t.type \in TlvType \cup {"pad"}
  PROVE  /\ Overrun(t) \in Nat
         /\ Overrun(t) > 0 => head \in {room - 1, room}
<1>1. TypeNumber[t.type] \in Nat
  BY DEF TlvType, TypeNumber
<1>2. /\ TypeNumber[t.type] % Byte \in Nat
      /\ TypeNumber[t.type] \div Byte \in Nat
  BY <1>1, DivMod DEF Byte
<1>3. (TypeNumber[t.type] % Byte) * Byte + TypeNumber[t.type] \div Byte \in Nat
  BY <1>2 DEF Byte
<1>4. CASE head = room
  BY <1>3, <1>4 DEF Overrun
<1>5. CASE head + 1 = room
  <2>1. head # room /\ head = room - 1
    BY <1>5
  <2> QED BY <1>2, <1>5, <2>1 DEF Overrun
<1>6. CASE head # room /\ head + 1 # room
  BY <1>6 DEF Overrun
<1> QED BY <1>4, <1>5, <1>6

\* The encoder gives up at a TLV.
LEMMA RefuseTlvStep ==
  ASSUME IInv, NEW t, t.type \in TlvType \cup {"pad"}, Refuse(Overrun(t))
  PROVE  IInv'
<1>1. head \in Nat /\ room \in Nat
  BY CodecAssumption DEF IInv, TypeOK
<1>2. Overrun(t) \in Nat /\ (Overrun(t) > 0 => head \in {room - 1, room})
  BY <1>1, OverrunType
<1> QED BY <1>2, RefuseStep

LEMMA EncodedTimestampType ==
  ASSUME NEW t \in Time
  PROVE  EncodedTimestamp(t) \in [high : Nat, low : Nat, nanoseconds : Nat]
BY TimestampRoundTrip, Zenon

LEMMA EncodeHeaderStep == IInv /\ EncodeHeader => IInv'
<1> SUFFICES ASSUME IInv, EncodeHeader PROVE IInv'
  OBVIOUS
<1>1. CASE Refuse(0)
  BY <1>1, RefuseStep
<1>2. CASE ~Refuse(0)
  <2>1. /\ pc = "build" /\ pc' = "encode"
        /\ message.type \in DOMAIN PayloadSize
        /\ head' = HeaderSize + PayloadSize[message.type]
        /\ packet' = [NoPacket EXCEPT
             !.type = message.type,
             !.timestamp = IF message.type \in Timed
                             THEN EncodedTimestamp(message.time) ELSE @]
        /\ UNCHANGED <<message, room, decoded>>
    BY <1>2 DEF EncodeHeader
  <2>2. message.time \in Time
    BY DEF IInv, TypeOK
  <2>3. EncodedTimestamp(message.time) \in
          [high : Nat, low : Nat, nanoseconds : Nat]
    BY <2>2, EncodedTimestampType
  <2>4. /\ packet'.type = message.type
        /\ packet'.timestamp = IF message.type \in Timed
                                 THEN EncodedTimestamp(message.time)
                                 ELSE NoPacket.timestamp
        /\ packet'.tlvs = <<>>
        /\ packet'.length = 0
        /\ packet' = [type |-> packet'.type, timestamp |-> packet'.timestamp,
                      tlvs |-> packet'.tlvs, length |-> packet'.length]
    BY <2>1 DEF NoPacket
  <2>5. PayloadSize[message.type] \in Nat /\ message.type \in MessageType
    BY <2>1, PayloadSizeType
  <2>6. packet' \in [type : MessageType,
                     timestamp : [high : Nat, low : Nat, nanoseconds : Nat],
                     tlvs : Seq(WireTlv), length : Nat]
    <3>1. NoPacket.timestamp \in [high : Nat, low : Nat, nanoseconds : Nat]
      BY DEF NoPacket
    <3>2. packet'.timestamp \in [high : Nat, low : Nat, nanoseconds : Nat]
      BY <2>3, <2>4, <3>1
    <3>3. <<>> \in Seq(WireTlv) /\ 0 \in Nat
      OBVIOUS
    <3> HIDE DEF NoPacket
    <3> QED BY <2>4, <2>5, <3>2, <3>3
  <2>7. head' \in Nat
    BY <2>1, <2>5 DEF HeaderSize
  <2>8. TypeOK'
    BY <2>1, <2>6, <2>7 DEF IInv, TypeOK
  <2>9. Layout'
    <3>1. End' = Start'
      BY <2>1 DEF End, Start
    <3> QED BY <2>1, <2>4, <3>1 DEF Layout
  <2>10. Progress'
    BY <2>1, <2>4, <2>8 DEF Progress, TypeOK, Sent
  <2>11. PacketAligned'
    BY <2>1, <2>4 DEF PacketAligned, Sent
  <2> QED BY <2>1, <2>8, <2>9, <2>10, <2>11 DEF IInv, OwnMessagesDecode
<1> QED BY <1>1, <1>2

\* Another TLV behind those there are.  Both the TLVs of the message and the
\* padding go through ptp_encode_tlv.
LEMMA EncodeStep ==
  ASSUME IInv, pc = "encode", NEW t, NEW onward,
         EncodedTlv(t, head) \in WireTlv, Encodable(t), EncodeTlv(t, onward),
         \/ /\ onward = "encode"
            /\ Len(packet.tlvs) < Len(message.tlvs)
            /\ t = message.tlvs[Len(packet.tlvs) + 1]
         \/ /\ onward = "sent"
            /\ Len(packet.tlvs) = Len(message.tlvs)
            /\ t = Pad
  PROVE  /\ TypeOK' /\ Layout' /\ Progress'
         /\ packet'.length = IF onward = "sent" THEN head' ELSE 0
<1> DEFINE n == Len(packet.tlvs)
           length == IF onward = "sent" THEN head' ELSE 0
           w == EncodedTlv(t, head)
<1>1. /\ head \in Nat /\ n \in Nat /\ packet.tlvs \in Seq(WireTlv)
      /\ packet \in [type : MessageType,
                     timestamp : [high : Nat, low : Nat, nanoseconds : Nat],
                     tlvs : Seq(WireTlv), length : Nat]
      /\ message.tlvs \in Seq(Tlv)
  BY DEF IInv, TypeOK
<1>2. /\ w.type = t.type /\ w.at = head /\ w.length = TlvSize(t)
      /\ w.length \in Nat /\ w \in WireTlv
  BY DEF EncodedTlv, WireTlv
<1>3. /\ pc' = onward
      /\ head' = head + TlvHeaderSize + TlvSize(t)
      /\ packet' = [packet EXCEPT !.tlvs = Append(@, w), !.length = length]
      /\ UNCHANGED <<message, room, decoded>>
  BY DEF EncodeTlv
<1>4. head' \in Nat /\ head' = After(w) /\ head < head'
  BY <1>1, <1>2, <1>3 DEF TlvHeaderSize, After
<1> HIDE DEF w
<1>5. /\ packet'.tlvs = Append(packet.tlvs, w) /\ packet'.length = length
      /\ packet'.type = packet.type /\ packet'.timestamp = packet.timestamp
      /\ packet' \in [type : MessageType,
                      timestamp : [high : Nat, low : Nat, nanoseconds : Nat],
                      tlvs : Seq(WireTlv), length : Nat]
  <2>1. packet' = [packet EXCEPT !.tlvs = Append(@, w), !.length = length]
    BY <1>3
  <2>2. Append(packet.tlvs, w) \in Seq(WireTlv)
    BY <1>1, <1>2
  <2>3. length \in Nat
    BY <1>4
  <2> HIDE DEF length
  <2> QED BY <1>1, <2>1, <2>2, <2>3
<1>6. /\ Len(packet'.tlvs) = n + 1
      /\ packet'.tlvs[n + 1] = w
      /\ \A i \in 1..n : packet'.tlvs[i] = packet.tlvs[i]
  BY <1>1, <1>2, <1>5
<1>7. TypeOK'
  BY <1>3, <1>4, <1>5 DEF IInv, TypeOK
<1>8. End = head /\ End' = head' /\ Start' = Start
  BY <1>3, <1>5 DEF End, Start
<1>9. /\ message.type \in DOMAIN PayloadSize
      /\ packet.type = message.type
      /\ message.type \in Timed =>
           packet.timestamp = EncodedTimestamp(message.time)
      /\ head = IF packet.tlvs = <<>> THEN Start ELSE After(packet.tlvs[n])
      /\ \A i \in 1..n : InPlace(i) /\ FromMessage(i)
  BY <1>8 DEF IInv, Layout
<1>10. \A i \in 1..n : /\ packet.tlvs[i].at \in Nat
                       /\ After(packet.tlvs[i]) \in Nat
                       /\ packet.tlvs[i].at < After(packet.tlvs[i])
                       /\ After(packet.tlvs[i]) <= head
  <2> SUFFICES ASSUME NEW i \in 1..n
               PROVE  /\ packet.tlvs[i].at \in Nat
                      /\ After(packet.tlvs[i]) \in Nat
                      /\ packet.tlvs[i].at < After(packet.tlvs[i])
                      /\ After(packet.tlvs[i]) <= head
    OBVIOUS
  <2>1. packet.tlvs[i] \in WireTlv
    BY <1>1
  <2>2. After(packet.tlvs[i]) <= head
    BY <1>8, <1>9 DEF InPlace
  <2>3. /\ packet.tlvs[i].at \in Nat
        /\ After(packet.tlvs[i]) \in Nat
        /\ packet.tlvs[i].at < After(packet.tlvs[i])
    BY <2>1, AfterType, Zenon
  <2> QED BY <2>2, <2>3
<1>11. \A i \in 1..n : InPlace(i)'
  <2> SUFFICES ASSUME NEW i \in 1..n PROVE InPlace(i)'
    OBVIOUS
  <2>1. /\ packet'.tlvs[i] = packet.tlvs[i]
        /\ \A j \in 1..(i - 1) : packet'.tlvs[j] = packet.tlvs[j]
        /\ i # 1 => packet'.tlvs[i - 1] = packet.tlvs[i - 1]
    BY <1>1, <1>6
  <2>2. InPlace(i)
    BY <1>9
  <2>3. After(packet.tlvs[i]) <= head'
    BY <1>1, <1>4, <1>10
  <2>4. packet'.tlvs[i].at = IF i = 1 THEN Start'
                                      ELSE After(packet'.tlvs[i - 1])
    BY <1>8, <2>1, <2>2 DEF InPlace
  <2>5. \A j \in 1..(i - 1) : packet'.tlvs[j].at < packet'.tlvs[i].at
    BY <2>1, <2>2 DEF InPlace
  <2>6. After(packet'.tlvs[i]) <= End'
    BY <1>8, <2>1, <2>3
  <2> QED BY <2>4, <2>5, <2>6 DEF InPlace, After
<1>12. \A i : i = n + 1 => InPlace(i)'
  <2> SUFFICES ASSUME NEW i, i = n + 1 PROVE InPlace(i)'
    OBVIOUS
  <2>1. i - 1 = n /\ packet'.tlvs[i] = w
    BY <1>1, <1>6
  <2>2. w.at = IF i = 1 THEN Start' ELSE After(packet'.tlvs[i - 1])
    <3>1. CASE n = 0
      BY <1>1, <1>2, <1>8, <1>9, <3>1
    <3>2. CASE n # 0
      <4>1. packet.tlvs # <<>> /\ n \in 1..n
        BY <1>1, <3>2
      <4>2. packet'.tlvs[i - 1] = packet.tlvs[n]
        BY <1>6, <2>1, <4>1
      <4> QED BY <1>1, <1>2, <1>9, <2>1, <3>2, <4>1, <4>2
    <3> QED BY <3>1, <3>2
  <2>3. \A j \in 1..(i - 1) : packet'.tlvs[j].at < w.at
    <3> SUFFICES ASSUME NEW j \in 1..(i - 1)
                 PROVE  packet'.tlvs[j].at < w.at
      OBVIOUS
    <3>1. j \in 1..n /\ packet'.tlvs[j] = packet.tlvs[j]
      BY <1>6, <2>1
    <3>2. /\ packet.tlvs[j].at \in Nat /\ After(packet.tlvs[j]) \in Nat
          /\ packet.tlvs[j].at < After(packet.tlvs[j])
          /\ After(packet.tlvs[j]) <= head
      BY <1>10, <3>1
    <3> QED BY <1>1, <1>2, <3>1, <3>2
  <2>4. After(w) <= End'
    BY <1>4, <1>8
  <2> QED BY <2>1, <2>2, <2>3, <2>4 DEF InPlace, After
<1>13. \A i \in 1..n : FromMessage(i)'
  BY <1>3, <1>6, <1>9 DEF FromMessage
<1>14. \A i : i = n + 1 => FromMessage(i)'
  <2> SUFFICES ASSUME NEW i, i = n + 1 PROVE FromMessage(i)'
    OBVIOUS
  <2>1. /\ t.type # "unsupported"
        /\ t.type = "description" => Written(t) <= DescriptionSize
    BY DEF Encodable
  <2>2. CASE onward = "encode"
    <3>1. i <= Len(message.tlvs) /\ t = message.tlvs[i]
      BY <1>1, <2>2
    <3>2. w = EncodedTlv(message.tlvs[i], w.at)
      BY <1>2, <3>1 DEF w
    <3> QED BY <1>3, <1>6, <2>1, <3>1, <3>2 DEF FromMessage
  <2>3. CASE onward = "sent"
    <3>1. ~(i <= Len(message.tlvs)) /\ t.type = "pad"
      BY <1>1, <2>3 DEF Pad
    <3> QED BY <1>2, <1>3, <1>6, <3>1 DEF FromMessage
  <2> QED BY <2>2, <2>3
<1>15. Layout'
  <2>1. \A i \in 1..Len(packet'.tlvs) : InPlace(i)' /\ FromMessage(i)'
    BY <1>1, <1>6, <1>11, <1>12, <1>13, <1>14
  <2>2. /\ packet'.tlvs # <<>>
        /\ End' = After(packet'.tlvs[Len(packet'.tlvs)])
    BY <1>1, <1>4, <1>6, <1>8
  <2> QED BY <1>3, <1>5, <1>9, <2>1, <2>2 DEF Layout, After
<1>16. Progress'
  BY <1>1, <1>3, <1>6 DEF Progress, Sent
<1> QED BY <1>5, <1>7, <1>15, <1>16

LEMMA EncodeNextStep == IInv /\ EncodeNext => IInv'
<1> SUFFICES ASSUME IInv, EncodeNext PROVE IInv'
  OBVIOUS
<1> DEFINE next == Len(packet.tlvs) + 1
           t == message.tlvs[next]
<1>1. /\ pc = "encode" /\ next <= Len(message.tlvs)
      /\ EncodeTlv(t, "encode")
  BY DEF EncodeNext
<1>2. /\ head \in Nat /\ Len(packet.tlvs) \in Nat
      /\ message.tlvs \in Seq(Tlv)
  BY DEF IInv, TypeOK
<1>3. t \in Tlv
  BY <1>1, <1>2
<1>4. CASE Refuse(Overrun(t))
  <2>1. t.type \in TlvType \cup {"pad"}
    BY <1>3, TlvParts, Zenon
  <2> HIDE DEF t
  <2> QED BY <1>4, <2>1, RefuseTlvStep
<1>5. CASE ~Refuse(Overrun(t))
  <2>1. Encodable(t) /\ pc' = "encode"
    BY <1>1, <1>5 DEF EncodeTlv
  <2>2. t.type # "unsupported"
    BY <2>1 DEF Encodable
  <2>3. EncodedTlv(t, head) \in WireTlv
    BY <1>2, <1>3, <2>2, EncodedTlvType
  <2>4. Len(packet.tlvs) < Len(message.tlvs)
    BY <1>1, <1>2
  <2>5. TypeOK' /\ Layout' /\ Progress' /\ packet'.length = 0
    BY <1>1, <2>1, <2>3, <2>4, EncodeStep
  <2> QED BY <2>1, <2>5 DEF IInv, PacketAligned, OwnMessagesDecode, Sent
<1> QED BY <1>4, <1>5

LEMMA EncodePadStep == IInv /\ EncodePad => IInv'
<1> SUFFICES ASSUME IInv, EncodePad PROVE IInv'
  OBVIOUS
<1>1. /\ pc = "encode" /\ Len(packet.tlvs) = Len(message.tlvs)
      /\ EncodeTlv(Pad, "sent")
  BY DEF EncodePad
<1>2. CASE Refuse(Overrun(Pad))
  <2>1. Pad.type \in TlvType \cup {"pad"}
    BY DEF Pad
  <2> QED BY <1>2, <2>1, RefuseTlvStep
<1>3. CASE ~Refuse(Overrun(Pad))
  <2>1. /\ Encodable(Pad) /\ pc' = "sent"
        /\ head' = head + TlvHeaderSize + TlvSize(Pad)
        /\ room' = room
    BY <1>1, <1>3 DEF EncodeTlv
  <2>2. head \in Nat
    BY DEF IInv, TypeOK
  <2>3. /\ EncodedTlv(Pad, head) \in WireTlv
        /\ (head' + NetworkOverhead) % Alignment = 0
    BY <2>1, <2>2, PadAligns
  <2>4. TypeOK' /\ Layout' /\ Progress' /\ packet'.length = head'
    BY <1>1, <2>1, <2>3, EncodeStep
  <2>5. packet'.length <= room'
    BY <2>1, <2>4 DEF Encodable
  <2> QED BY <2>1, <2>3, <2>4, <2>5 DEF IInv, PacketAligned, OwnMessagesDecode,
                                        Sent
<1> QED BY <1>2, <1>3

-----------------------------------------------------------------------------
(* The decoder. *)

\* A TLV of a complete packet lies within it, and starts where no other does.
LEMMA TlvsApart ==
  ASSUME IInv, pc \in Sent, NEW i \in 1..Len(packet.tlvs)
  PROVE  /\ packet.tlvs[i] \in WireTlv
         /\ packet.tlvs[i].at < After(packet.tlvs[i])
         /\ After(packet.tlvs[i]) <= packet.length
         /\ \A j \in 1..Len(packet.tlvs) :
              packet.tlvs[j].at = packet.tlvs[i].at => j = i
<1>1. /\ packet.tlvs \in Seq(WireTlv) /\ packet.length \in Nat
      /\ \A j \in 1..Len(packet.tlvs) : InPlace(j)
  BY DEF IInv, TypeOK, Layout
<1>2. End = packet.length
  BY DEF End, Sent
<1>3. \A j \in 1..Len(packet.tlvs) : /\ packet.tlvs[j] \in WireTlv
                                     /\ packet.tlvs[j].at \in Nat
                                     /\ packet.tlvs[j].length \in Nat
  <2>1. \A j \in 1..Len(packet.tlvs) : packet.tlvs[j] \in WireTlv
    BY <1>1
  <2> QED BY <2>1 DEF WireTlv
<1>4. packet.tlvs[i].at < After(packet.tlvs[i])
  BY <1>3 DEF After, TlvHeaderSize
<1>5. After(packet.tlvs[i]) <= packet.length
  BY <1>1, <1>2 DEF InPlace
<1>6. \A j \in 1..Len(packet.tlvs) :
        packet.tlvs[j].at = packet.tlvs[i].at => j = i
  <2> SUFFICES ASSUME NEW j \in 1..Len(packet.tlvs), j # i
               PROVE  packet.tlvs[j].at # packet.tlvs[i].at
    OBVIOUS
  <2>1. CASE j < i
    <3>1. packet.tlvs[j].at < packet.tlvs[i].at
      BY <1>1, <2>1 DEF InPlace
    <3> QED BY <1>3, <3>1
  <2>2. CASE i < j
    <3>1. packet.tlvs[i].at < packet.tlvs[j].at
      BY <1>1, <2>2 DEF InPlace
    <3> QED BY <1>3, <3>1
  <2> QED BY <2>1, <2>2
<1> QED BY <1>3, <1>4, <1>5, <1>6

\* The decoder accepts the TLV it is at.
LEMMA OwnTlvFits ==
  ASSUME IInv, pc \in Sent, NEW i \in 1..Len(packet.tlvs),
         packet.tlvs[i].at = head
  PROVE  TlvFits(packet.tlvs[i])
<1> DEFINE w == packet.tlvs[i]
<1>1. w \in WireTlv /\ After(w) <= packet.length
  BY TlvsApart
<1>2. w.at \in Nat /\ w.length \in Nat
  BY <1>1 DEF WireTlv
<1>3. head + TlvHeaderSize + w.length <= packet.length
  BY <1>1 DEF After
<1>4. FromMessage(i) /\ message.tlvs \in Seq(Tlv) /\ i \in Nat
  BY DEF IInv, TypeOK, Layout
<1>5. CASE i <= Len(message.tlvs)
  <2> DEFINE t == message.tlvs[i]
  <2>1. /\ t \in Tlv /\ t.type # "unsupported"
        /\ t.type = "description" => Written(t) <= DescriptionSize
        /\ w = EncodedTlv(t, w.at)
    BY <1>4, <1>5 DEF FromMessage
  <2> HIDE DEF t, w
  <2> QED BY <1>2, <1>3, <2>1, TlvAccepted DEF w
<1>6. CASE ~(i <= Len(message.tlvs))
  <2>1. w.type = "pad"
    BY <1>4, <1>6 DEF FromMessage
  <2> HIDE DEF w
  <2>2. TlvFits(w)
    BY <1>3, <2>1 DEF TlvFits
  <2> QED BY <2>2 DEF w
<1> QED BY <1>5, <1>6

\* The first TLV, or the padding, starts behind the payload.
LEMMA DecodeHeaderStep == IInv /\ DecodeHeader => IInv'
<1> SUFFICES ASSUME IInv, DecodeHeader PROVE IInv'
  OBVIOUS
<1>1. /\ pc = "sent" /\ UNCHANGED <<message, room, packet>>
      /\ \/ ~PayloadPresent(packet.type)
         \/ /\ PayloadPresent(packet.type)
            /\ pc' = "decode"
            /\ head' = HeaderSize + PayloadSize[packet.type]
            /\ \E clean \in BOOLEAN :
                 decoded' = [type |-> packet.type,
                             time |-> DecodedTimestamp(packet.timestamp),
                             clean |-> clean, tlvs |-> <<>>]
  BY DEF DecodeHeader
<1>2. /\ Len(packet.tlvs) = Len(message.tlvs) + 1
      /\ Len(message.tlvs) \in Nat
  BY <1>1 DEF IInv, Progress, Sent, TypeOK
<1>3. 1 \in 1..Len(packet.tlvs)
  BY <1>2
<1>4. /\ packet.tlvs[1].at = Start
      /\ message.type \in DOMAIN PayloadSize /\ packet.type = message.type
  BY <1>1, <1>3 DEF IInv, Layout, InPlace, Sent
<1>5. PayloadSize[message.type] \in Nat /\ message.type \in MessageType
  BY <1>4, PayloadSizeType
<1>6. Start \in Nat /\ Start <= packet.length
  <2>1. /\ packet.tlvs[1] \in WireTlv
        /\ packet.tlvs[1].at < After(packet.tlvs[1])
        /\ After(packet.tlvs[1]) <= packet.length
    BY <1>1, <1>3, TlvsApart DEF Sent
  <2>2. packet.tlvs[1].at \in Nat /\ packet.tlvs[1].length \in Nat
    BY <2>1 DEF WireTlv
  <2>3. packet.length \in Nat
    BY DEF IInv, TypeOK
  <2> QED BY <1>4, <2>1, <2>2, <2>3 DEF After, TlvHeaderSize
<1>7. PayloadPresent(packet.type)
  BY <1>4, <1>6 DEF PayloadPresent, Start
<1>8. /\ pc' = "decode" /\ head' = Start
      /\ \E clean \in BOOLEAN :
           decoded' = [type |-> packet.type,
                       time |-> DecodedTimestamp(packet.timestamp),
                       clean |-> clean, tlvs |-> <<>>]
  BY <1>1, <1>4, <1>7 DEF Start
<1>9. DecodedTimestamp(packet.timestamp) \in Int
  <2>1. packet.timestamp \in [high : Nat, low : Nat, nanoseconds : Nat]
    BY DEF IInv, TypeOK
  <2>2. LowRange \in Nat /\ Second \in Nat
    BY CodecAssumption
  <2> QED BY <2>1, <2>2 DEF DecodedTimestamp
<1>10. TypeOK'
  <2>1. <<>> \in Seq(FoundTlv) /\ Len(<<>>) = 0
    OBVIOUS
  <2>2. decoded' \in [type : MessageType, time : Int, clean : BOOLEAN,
                      tlvs : Seq(FoundTlv)]
    BY <1>4, <1>5, <1>8, <1>9, <2>1
  <2>3. Len(decoded'.tlvs) <= MaxTlv
    <3>1. MaxTlv \in Nat
      BY CodecAssumption
    <3> QED BY <1>8, <3>1
  <2> QED BY <1>1, <1>6, <1>8, <2>2, <2>3 DEF IInv, TypeOK
<1>11. Layout'
  BY <1>1, <1>8 DEF IInv, Layout, Sent, End, Start, After, InPlace, FromMessage
<1>12. Progress'
  BY <1>1, <1>2, <1>3, <1>4, <1>8 DEF Progress, Sent
<1>13. PacketAligned'
  BY <1>1, <1>8 DEF IInv, PacketAligned, Sent
<1> QED BY <1>8, <1>10, <1>11, <1>12, <1>13 DEF IInv, OwnMessagesDecode

\* The decoder goes from one TLV to the one behind it.
LEMMA DecodeTlvStep == IInv /\ DecodeTlv => IInv'
<1> SUFFICES ASSUME IInv, DecodeTlv PROVE IInv'
  OBVIOUS
<1> DEFINE n == Len(packet.tlvs)
           k == Len(decoded.tlvs)
           v == packet.tlvs[k + 1]
<1>1. /\ pc = "decode" /\ head < packet.length /\ k # MaxTlv
      /\ UNCHANGED <<message, room, packet>>
  <2>1. head \in Nat /\ packet.length \in Nat
    BY DEF IInv, TypeOK
  <2> QED BY <2>1 DEF DecodeTlv, DecodeDone
<1>2. /\ k <= n /\ n \in Nat /\ k \in Nat
      /\ n = Len(message.tlvs) + 1
      /\ head = IF k = n THEN packet.length ELSE v.at
      /\ decoded.type = message.type
      /\ decoded.time = DecodedTimestamp(packet.timestamp)
      /\ \A i \in 1..k : decoded.tlvs[i] \in Decodings(packet.tlvs[i])
  BY <1>1 DEF IInv, Progress, Sent, TypeOK
<1>3. k # n /\ k + 1 \in 1..n /\ v.at = head
  <2>1. packet.length \in Nat
    BY DEF IInv, TypeOK
  <2> QED BY <1>1, <1>2, <2>1
<1>4. /\ v \in WireTlv /\ TlvFits(v)
      /\ After(v) <= packet.length
      /\ \A j \in 1..n : packet.tlvs[j].at = head => j = k + 1
  BY <1>1, <1>3, TlvsApart, OwnTlvFits DEF Sent
<1>5. ToSet(packet.tlvs) = {packet.tlvs[i] : i \in 1..n}
  <2>1. packet.tlvs \in Seq(WireTlv)
    BY DEF IInv, TypeOK
  <2> QED BY <2>1 DEF ToSet
<1>6. /\ pc' = pc /\ head' = Behind(v)
      /\ \E found \in Decodings(v) :
           decoded' = [decoded EXCEPT !.tlvs = Append(@, found)]
  <2>1. \A w \in ToSet(packet.tlvs) : w.at = head => w = v
    BY <1>4, <1>5
  <2>2. v \in ToSet(packet.tlvs)
    BY <1>3, <1>5
  <2> QED BY <1>3, <1>4, <2>1, <2>2 DEF DecodeTlv
<1>7. head' = After(v)
  BY <1>3, <1>6 DEF Behind, After
<1>8. head' \in Nat
  <2>1. v.at \in Nat /\ v.length \in Nat
    BY <1>4 DEF WireTlv
  <2> QED BY <1>7, <2>1 DEF After, TlvHeaderSize
<1> PICK found \in Decodings(v) :
           decoded' = [decoded EXCEPT !.tlvs = Append(@, found)]
  BY <1>6
<1>9. /\ decoded' \in [type : MessageType, time : Int, clean : BOOLEAN,
                       tlvs : Seq(FoundTlv)]
      /\ decoded'.type = decoded.type /\ decoded'.time = decoded.time
      /\ decoded'.clean = decoded.clean
      /\ decoded'.tlvs = Append(decoded.tlvs, found)
  <2>1. found \in FoundTlv
    BY <1>4, DecodedTlvType
  <2>2. decoded \in [type : MessageType, time : Int, clean : BOOLEAN,
                     tlvs : Seq(FoundTlv)]
    BY DEF IInv, TypeOK
  <2>3. Append(decoded.tlvs, found) \in Seq(FoundTlv)
    BY <2>1, <2>2
  <2> HIDE DEF v
  <2> QED BY <2>2, <2>3
<1>10. /\ Len(decoded'.tlvs) = k + 1
       /\ decoded'.tlvs[k + 1] = found
       /\ \A i \in 1..k : decoded'.tlvs[i] = decoded.tlvs[i]
  <2>1. decoded.tlvs \in Seq(FoundTlv)
    BY DEF IInv, TypeOK
  <2> QED BY <1>9, <2>1
<1>11. TypeOK'
  <2>1. MaxTlv \in Nat /\ k <= MaxTlv
    BY CodecAssumption DEF IInv, TypeOK
  <2>2. Len(decoded'.tlvs) <= MaxTlv
    BY <1>1, <1>2, <1>10, <2>1
  <2> QED BY <1>1, <1>6, <1>8, <1>9, <2>2 DEF IInv, TypeOK
<1>12. Layout'
  BY <1>1, <1>6 DEF IInv, Layout, Sent, End, Start, After, InPlace, FromMessage
<1>13. head' = IF k + 1 = n THEN packet.length ELSE packet.tlvs[k + 2].at
  <2>1. CASE k + 1 = n
    <3>1. packet.length = After(packet.tlvs[n])
      BY <1>1, <1>2 DEF IInv, Layout, Sent, End
    <3> QED BY <1>7, <2>1, <3>1
  <2>2. CASE k + 1 # n
    <3>1. k + 2 \in 1..n /\ k + 2 # 1 /\ (k + 2) - 1 = k + 1
      BY <1>2, <1>3, <2>2
    <3>2. InPlace(k + 2)
      BY <1>1, <3>1 DEF IInv, Layout, Sent
    <3> QED BY <1>7, <2>2, <3>1, <3>2 DEF InPlace
  <2> QED BY <2>1, <2>2
<1>14. Progress'
  <2>1. \A i \in 1..(k + 1) : decoded'.tlvs[i] \in Decodings(packet.tlvs[i])
    BY <1>2, <1>10
  <2>2. (k + 1) + 1 = k + 2
    BY <1>2
  <2>3. \A w : Decodings(w)' = Decodings(w)
    BY <1>9 DEF Decodings, DecodedTlv
  <2>4. \A i \in 1..(k + 1) : decoded'.tlvs[i] \in Decodings(packet.tlvs[i])'
    BY <1>1, <2>1, <2>3
  <2> QED BY <1>1, <1>2, <1>3, <1>6, <1>9, <1>10, <1>13, <2>4, <2>2
          DEF Progress, Sent
<1>15. PacketAligned'
  BY <1>1, <1>6 DEF IInv, PacketAligned
<1> QED BY <1>1, <1>6, <1>11, <1>12, <1>14, <1>15 DEF IInv, OwnMessagesDecode

\* The decoder stops behind the last TLV or when it has found as many as it
\* keeps.
LEMMA DecodeEndsStep == IInv /\ DecodeEnds => IInv'
<1> SUFFICES ASSUME IInv, DecodeEnds PROVE IInv'
  OBVIOUS
<1>1. /\ pc = "decode" /\ DecodeDone /\ pc' = "decoded"
      /\ UNCHANGED <<message, room, head, packet, decoded>>
  BY DEF DecodeEnds
<1>2. TypeOK'
  BY <1>1 DEF IInv, TypeOK
<1>3. Layout'
  BY <1>1 DEF IInv, Layout, Sent, End, Start, After, InPlace, FromMessage
<1>4. Len(decoded.tlvs) = Len(packet.tlvs) \/ Len(decoded.tlvs) = MaxTlv
  <2> SUFFICES ASSUME Len(decoded.tlvs) # Len(packet.tlvs)
               PROVE  Len(decoded.tlvs) = MaxTlv
    OBVIOUS
  <2> DEFINE i == Len(decoded.tlvs) + 1
  <2>1. /\ i \in 1..Len(packet.tlvs) /\ head = packet.tlvs[i].at
        /\ packet.length \in Nat
    BY <1>1 DEF IInv, Progress, TypeOK
  <2>2. /\ packet.tlvs[i] \in WireTlv
        /\ packet.tlvs[i].at < After(packet.tlvs[i])
        /\ After(packet.tlvs[i]) <= packet.length
    BY <1>1, <2>1, TlvsApart DEF Sent
  <2>3. packet.tlvs[i].at \in Nat /\ After(packet.tlvs[i]) \in Nat
    BY <2>2, AfterType, Zenon
  <2>4. head < packet.length
    BY <2>1, <2>2, <2>3
  <2> QED BY <1>1, <2>1, <2>3, <2>4 DEF DecodeDone
<1>5. Progress'
  BY <1>1, <1>4 DEF IInv, Progress, Sent, Decodings, DecodedTlv
<1> QED BY <1>1, <1>2, <1>3, <1>5 DEF IInv, PacketAligned, OwnMessagesDecode,
                                      Sent

LEMMA Stutter == IInv /\ UNCHANGED vars => IInv'
<1> SUFFICES ASSUME IInv, UNCHANGED vars PROVE IInv'
  OBVIOUS
<1> USE DEF vars
<1>1. TypeOK'
  BY DEF IInv, TypeOK
<1>2. Layout'
  BY DEF IInv, Layout, End, Start, After, InPlace, FromMessage
<1>3. Progress'
  BY DEF IInv, Progress, Decodings, DecodedTlv
<1> QED BY <1>1, <1>2, <1>3 DEF IInv, PacketAligned, OwnMessagesDecode

\* What the decoder has found at the end is what the encoder was given.
LEMMA DecodedIsEncoded == IInv => RoundTrip
<1> SUFFICES ASSUME IInv, pc = "decoded"
             PROVE  /\ decoded.type = message.type
                    /\ message.type \in Timed => decoded.time = message.time
                    /\ Len(decoded.tlvs) \in {Len(message.tlvs),
                                              Len(message.tlvs) + 1}
                    /\ \A i \in 1..Len(message.tlvs) :
                         decoded.tlvs[i] \in Received(message.tlvs[i])
                    /\ \A i \in (Len(message.tlvs) + 1)..Len(decoded.tlvs) :
                         decoded.tlvs[i].type = "pad"
  BY DEF RoundTrip
<1> DEFINE m == Len(message.tlvs)
           n == Len(packet.tlvs)
           k == Len(decoded.tlvs)
<1>1. /\ m \in Nat /\ n = m + 1 /\ k \in Nat /\ k <= n
      /\ decoded.type = message.type
      /\ decoded.time = DecodedTimestamp(packet.timestamp)
      /\ \A i \in 1..k : decoded.tlvs[i] \in Decodings(packet.tlvs[i])
      /\ k = n \/ k = MaxTlv
      /\ m <= MaxTlv /\ message.time \in Time /\ message.tlvs \in Seq(Tlv)
  BY DEF IInv, Progress, Sent, TypeOK
<1>2. MaxTlv \in Nat
  BY CodecAssumption
<1>3. k \in {m, m + 1}
  BY <1>1, <1>2
<1>4. ASSUME message.type \in Timed PROVE decoded.time = message.time
  <2>1. packet.timestamp = EncodedTimestamp(message.time)
    BY <1>4 DEF IInv, Layout, Sent
  <2> QED BY <1>1, <2>1, TimestampRoundTrip
<1>5. \A i \in 1..n : packet.tlvs[i] \in WireTlv /\ FromMessage(i)
  BY DEF IInv, TypeOK, Layout, Sent
<1>6. ASSUME NEW i \in 1..m
      PROVE  decoded.tlvs[i] \in Received(message.tlvs[i])
  <2> DEFINE t == message.tlvs[i]
             at == packet.tlvs[i].at
  <2>1. i \in 1..n /\ i \in 1..k /\ i <= m
    BY <1>1, <1>3
  <2>2. at \in Nat
    BY <1>5, <2>1 DEF WireTlv
  <2>3. t \in Tlv
    BY <1>1
  <2>4. t.type # "unsupported" /\ packet.tlvs[i] = EncodedTlv(t, at)
    BY <1>5, <2>1 DEF FromMessage
  <2>5. Decodings(packet.tlvs[i]) \subseteq Received(t)
    BY <2>2, <2>3, <2>4, TlvRoundTrip
  <2> QED BY <1>1, <2>1, <2>5
<1>7. ASSUME NEW i \in (m + 1)..k
      PROVE  decoded.tlvs[i].type = "pad"
  <2>1. i \in 1..n /\ i \in 1..k /\ ~(i <= m)
    BY <1>1
  <2>2. packet.tlvs[i].type = "pad"
    BY <1>5, <2>1 DEF FromMessage
  <2>3. decoded.tlvs[i] \in Decodings(packet.tlvs[i])
    BY <1>1, <2>1
  <2>4. packet.tlvs[i] \in WireTlv
    BY <1>5, <2>1
  <2> QED BY <2>2, <2>3, <2>4, DecodedTlvType
<1> QED BY <1>1, <1>3, <1>4, <1>6, <1>7

-----------------------------------------------------------------------------
(* Sizes. *)

\* What EncodedSize chooses exists: a list of sizes has its partial sums.
LEMMA PartialSums ==
  ASSUME NEW n \in Nat, NEW size
  PROVE  \E f : f = [k \in 0..n |-> IF k = 0 THEN 0
                                    ELSE f[k - 1] + TlvHeaderSize + size[k]]
<1> DEFINE Sums(m, f) ==
             f = [k \in 0..m |-> IF k = 0 THEN 0
                                 ELSE f[k - 1] + TlvHeaderSize + size[k]]
           Missing == {m \in 0..n : ~ \E f : Sums(m, f)}
<1>1. ASSUME Missing # {} PROVE FALSE
  <2>1. PICK m \in Missing : \A y \in Missing : m <= y
    <3>1. Missing \subseteq Nat
      OBVIOUS
    <3> HIDE DEF Missing
    <3> QED BY <1>1, <3>1, LeastNumber
  <2>2. m # 0
    <3>1. Sums(0, [k \in 0..0 |-> 0])
      OBVIOUS
    <3> QED BY <2>1, <3>1
  <2>3. \E f : Sums(m - 1, f)
    <3>1. m \in 0..n /\ m - 1 \in 0..n
      BY <2>1, <2>2
    <3>2. m - 1 \notin Missing
      <4> HIDE DEF Missing
      <4> QED BY <2>1, <3>1
    <3> HIDE DEF Sums
    <3> QED BY <3>1, <3>2
  <2>4. PICK f : Sums(m - 1, f)
    BY <2>3
  <2> DEFINE g == [k \in 0..m |-> IF k = m
                                  THEN f[m - 1] + TlvHeaderSize + size[m]
                                  ELSE f[k]]
  <2>5. m \in 0..n
    BY <2>1
  <2>6. ASSUME NEW k \in 0..m
        PROVE  g[k] = IF k = 0 THEN 0
                      ELSE g[k - 1] + TlvHeaderSize + size[k]
    <3>1. CASE k = m
      <4>1. g[m - 1] = f[m - 1]
        BY <2>2, <2>5
      <4>2. g[m] = f[m - 1] + TlvHeaderSize + size[m]
        BY <2>5
      <4> HIDE DEF g
      <4> QED BY <2>2, <3>1, <4>1, <4>2
    <3>2. CASE k # m
      <4>1. k \in 0..(m - 1) /\ g[k] = f[k]
        BY <2>5, <3>2
      <4>2. k # 0 => g[k - 1] = f[k - 1]
        BY <2>5, <3>2
      <4>3. f[k] = IF k = 0 THEN 0 ELSE f[k - 1] + TlvHeaderSize + size[k]
        BY <2>4, <4>1
      <4> HIDE DEF g
      <4> QED BY <4>1, <4>2, <4>3
    <3> QED BY <3>1, <3>2
  <2>7. g = [k \in 0..m |-> g[k]]
    OBVIOUS
  <2>8. Sums(m, g)
    <3> HIDE DEF g
    <3> QED BY <2>6, <2>7
  <2> HIDE DEF g
  <2> QED BY <2>1, <2>8
<1> QED BY <1>1

\* EncodedSize is the sum it is defined to be.
LEMMA EncodedSizes ==
  ASSUME NEW tlvs \in Seq(Tlv)
  PROVE  /\ EncodedSize(tlvs)[0] = 0
         /\ \A k \in 1..Len(tlvs) :
              EncodedSize(tlvs)[k] =
                EncodedSize(tlvs)[k - 1] + TlvHeaderSize + TlvSize(tlvs[k])
<1> DEFINE n == Len(tlvs)
           size == [k \in 1..n |-> TlvSize(tlvs[k])]
           Step(f) == [k \in 0..n |-> IF k = 0 THEN 0
                         ELSE f[k - 1] + TlvHeaderSize + TlvSize(tlvs[k])]
<1>1. n \in Nat
  OBVIOUS
<1>2. \E f : f = Step(f)
  <2> HIDE DEF n, size
  <2>1. PICK f : f = [k \in 0..n |-> IF k = 0 THEN 0
                         ELSE f[k - 1] + TlvHeaderSize + size[k]]
    BY <1>1, PartialSums
  <2>2. \A k \in 0..n : k # 0 => size[k] = TlvSize(tlvs[k])
    BY <1>1 DEF size
  <2>3. f = Step(f)
    BY <2>1, <2>2
  <2> HIDE DEF Step
  <2> QED BY <2>3
<1>3. EncodedSize(tlvs) = CHOOSE f : f = Step(f)
  BY DEF EncodedSize
<1>4. EncodedSize(tlvs) = Step(EncodedSize(tlvs))
  <2> HIDE DEF Step
  <2> QED BY <1>2, <1>3
<1> HIDE DEF n
<1> QED BY <1>1, <1>4 DEF n

\* More TLVs are not shorter.
LEMMA EncodedSizesGrow ==
  ASSUME NEW tlvs \in Seq(Tlv), NEW n \in 0..Len(tlvs),
         \A k \in 1..n : tlvs[k].type # "unsupported"
  PROVE  \A k \in 0..n :
           /\ EncodedSize(tlvs)[k] \in Nat
           /\ EncodedSize(tlvs)[k] <= EncodedSize(tlvs)[n]
<1> DEFINE size == EncodedSize(tlvs)
           Wrong == {k \in 0..n : size[k] \notin Nat}
           Less == {j \in 0..n : n - j \in 0..n /\ size[n] < size[n - j]}
<1>1. /\ n \in Nat /\ size[0] = 0
      /\ \A k \in 1..n : size[k] = size[k - 1] + TlvHeaderSize + TlvSize(tlvs[k])
  <2>1. n \in Nat
    OBVIOUS
  <2> QED BY <2>1, EncodedSizes
<1>2. \A k \in 1..n : TlvSize(tlvs[k]) \in Nat
  <2>1. \A k \in 1..n : tlvs[k] \in Tlv
    OBVIOUS
  <2> QED BY <2>1, TlvSizeType
<1> HIDE DEF size
<1>3. \A k \in 0..n : size[k] \in Nat
  <2> SUFFICES ASSUME Wrong # {} PROVE FALSE
    OBVIOUS
  <2>1. PICK k \in Wrong : \A y \in Wrong : k <= y
    <3>1. Wrong \subseteq Nat
      BY <1>1
    <3> HIDE DEF Wrong
    <3> QED BY <3>1, LeastNumber
  <2>2. k # 0
    BY <1>1, <2>1
  <2>3. k - 1 \in 0..n /\ k - 1 \notin Wrong /\ k \in 1..n
    BY <1>1, <2>1, <2>2
  <2>4. size[k - 1] \in Nat /\ TlvSize(tlvs[k]) \in Nat
    BY <1>2, <2>3
  <2>5. size[k] \in Nat
    BY <1>1, <2>3, <2>4 DEF TlvHeaderSize
  <2> QED BY <2>1, <2>5
<1>4. \A k \in 0..n : size[k] <= size[n]
  <2>1. ASSUME Less # {} PROVE FALSE
    <3>1. PICK j \in Less : \A y \in Less : j <= y
      <4>1. Less \subseteq Nat
        BY <1>1
      <4> HIDE DEF Less
      <4> QED BY <2>1, <4>1, LeastNumber
    <3>2. j # 0
      BY <1>1, <1>3, <3>1
    <3>3. /\ j - 1 \in 0..n /\ j - 1 \notin Less
          /\ n - (j - 1) \in 1..n /\ n - j \in 0..n
          /\ (n - (j - 1)) - 1 = n - j
      <4>1. j - 1 \notin Less
        <5> HIDE DEF Less
        <5>1. j \in Nat /\ ~(j <= j - 1)
          BY <1>1, <3>1 DEF Less
        <5> QED BY <3>1, <5>1
      <4> QED BY <1>1, <3>1, <3>2, <4>1
    <3> DEFINE k == n - (j - 1)
    <3>4. /\ size[k] = size[k - 1] + TlvHeaderSize + TlvSize(tlvs[k])
          /\ TlvSize(tlvs[k]) \in Nat
      BY <1>1, <1>2, <3>3
    <3>5. size[n - j] <= size[k]
      BY <1>3, <3>3, <3>4 DEF TlvHeaderSize
    <3>6. size[k] <= size[n]
      BY <1>1, <1>3, <3>3
    <3>7. size[n] < size[n - j]
      BY <3>1
    <3> QED BY <1>1, <1>3, <3>3, <3>5, <3>6, <3>7
  <2>2. ASSUME NEW k \in 0..n PROVE size[k] <= size[n]
    <3>1. n - k \in 0..n /\ n - (n - k) = k
      BY <1>1
    <3>2. n - k \notin Less
      BY <2>1
    <3> QED BY <1>1, <1>3, <3>1, <3>2
  <2> QED BY <2>2
<1> QED BY <1>3, <1>4 DEF size

\* Where the first TLVs do not fit, the whole message does not.
LEMMA PrefixTooLong ==
  ASSUME IInv, message.type \in DOMAIN PayloadSize,
         \A i \in 1..Len(message.tlvs) : message.tlvs[i].type # "unsupported",
         NEW k \in 0..Len(message.tlvs), Unpadded(k) > room, NEW n \in Nat
  PROVE  Unpadded(Len(message.tlvs)) + TlvHeaderSize + n > room
<1> DEFINE size == EncodedSize(message.tlvs)
           last == Len(message.tlvs)
<1>1. /\ message.tlvs \in Seq(Tlv) /\ last \in Nat /\ room \in Nat
      /\ PayloadSize[message.type] \in Nat
  BY CodecAssumption, PayloadSizeType DEF IInv, TypeOK
<1>2. /\ size[k] \in Nat /\ size[last] \in Nat /\ size[k] <= size[last]
  BY <1>1, EncodedSizesGrow
<1> HIDE DEF size, last
<1>3. Start + size[k] > room
  BY DEF Unpadded, size
<1>4. Start + size[last] + TlvHeaderSize + n > room
  BY <1>1, <1>2, <1>3 DEF Start, HeaderSize, TlvHeaderSize
<1> QED BY <1>4 DEF Unpadded, size, last

\* The padding is the only one of its length or less that aligns.
LEMMA PadIsLeast ==
  ASSUME head \in Nat, NEW n \in 0..(Alignment - 1),
         (head + TlvHeaderSize + n + NetworkOverhead) % Alignment = 0
  PROVE  n = TlvSize(Pad)
<1>1. TlvSize(Pad) = Pad.text
  BY PadAligns
<1>2. Pad.text = (-(head + 46)) % 16
  BY DEF Pad, NetworkOverhead, TlvHeaderSize, Alignment
<1>3. (head + 46 + n) % 16 = 0 /\ n \in 0..15
  BY DEF NetworkOverhead, TlvHeaderSize, Alignment
<1> QED BY <1>1, <1>2, <1>3

\* Whether a message can be encoded depends on nothing but it and the buffer.
LEMMA UnencodableStays ==
  ASSUME UNCHANGED <<message, room>>
  PROVE  Unencodable' <=> Unencodable
BY DEF Unencodable, Unpadded, Start

\* A message that is refused in front of its first TLV, or at one of them.
LEMMA RefusedEarly ==
  ASSUME IInv, message.type \in DOMAIN PayloadSize,
         NEW k \in 0..Len(message.tlvs), Unpadded(k) > room
  PROVE  Unencodable
<1>1. CASE \E i \in 1..Len(message.tlvs) : message.tlvs[i].type = "unsupported"
  BY <1>1, Zenon DEF Unencodable
<1>2. CASE \A i \in 1..Len(message.tlvs) : message.tlvs[i].type # "unsupported"
  <2>1. \A n \in 0..(Alignment - 1) :
          Unpadded(Len(message.tlvs)) + TlvHeaderSize + n > room
    <3> SUFFICES ASSUME NEW n \in 0..(Alignment - 1)
                 PROVE  Unpadded(Len(message.tlvs)) + TlvHeaderSize + n > room
      OBVIOUS
    <3>1. n \in Nat
      BY DEF Alignment
    <3> QED BY <1>2, <3>1, PrefixTooLong
  <2> QED BY <2>1 DEF Unencodable
<1> QED BY <1>1, <1>2

LEMMA EncodeHeaderSizes == IInv /\ EncodeHeader => SizesAddUp'
<1> SUFFICES ASSUME IInv, EncodeHeader PROVE SizesAddUp'
  OBVIOUS
<1>1. message.tlvs \in Seq(Tlv) /\ room \in Nat
  BY CodecAssumption DEF IInv, TypeOK
<1>2. EncodedSize(message.tlvs)[0] = 0
  BY <1>1, EncodedSizes
<1>3. message.type \in DOMAIN PayloadSize => Start \in Nat /\ Unpadded(0) = Start
  BY <1>2, PayloadSizeType DEF Unpadded, Start, HeaderSize
<1>4. UNCHANGED <<message, room>>
  BY DEF EncodeHeader, Refuse
<1>5. CASE Refuse(0) /\ ~(message.type \in DOMAIN PayloadSize /\ Start <= room)
  <2>1. Unencodable
    <3>1. CASE message.type \notin DOMAIN PayloadSize
      <4>1. message.type = "unsupported"
        BY <3>1 DEF IInv, TypeOK, MessageType, PayloadSize
      <4> QED BY <4>1 DEF Unencodable
    <3>2. CASE message.type \in DOMAIN PayloadSize
      <4>1. Unpadded(0) > room /\ 0 \in 0..Len(message.tlvs)
        BY <1>1, <1>3, <1>5, <3>2
      <4> QED BY <3>2, <4>1, RefusedEarly
    <3> QED BY <3>1, <3>2
  <2>2. pc' = "refused"
    BY <1>5 DEF Refuse
  <2> QED BY <1>4, <2>1, <2>2, UnencodableStays
          DEF SizesAddUp, Summed, RefusedForAReason
<1>6. CASE /\ message.type \in DOMAIN PayloadSize
           /\ pc' = "encode" /\ head' = Start /\ packet'.tlvs = <<>>
  <2>1. Unpadded(0)' = Unpadded(0)
    BY <1>4 DEF Unpadded, Start
  <2>2. \A k : k = Len(packet'.tlvs) => k = 0
    BY <1>6
  <2>3. Unpadded(Len(packet.tlvs))' = Start
    BY <1>3, <1>4, <1>6, <2>2 DEF Unpadded, Start
  <2> QED BY <1>6, <2>3 DEF SizesAddUp, Summed, RefusedForAReason
<1>7. \/ Refuse(0) /\ ~(message.type \in DOMAIN PayloadSize /\ Start <= room)
      \/ /\ message.type \in DOMAIN PayloadSize
         /\ pc' = "encode" /\ head' = Start /\ packet'.tlvs = <<>>
  BY DEF EncodeHeader, Start, NoPacket
<1> QED BY <1>5, <1>6, <1>7

LEMMA EncodeNextSizes == IInv /\ SizesAddUp /\ EncodeNext => SizesAddUp'
<1> SUFFICES ASSUME IInv, SizesAddUp, EncodeNext PROVE SizesAddUp'
  OBVIOUS
<1> DEFINE next == Len(packet.tlvs) + 1
           t == message.tlvs[next]
<1>1. /\ pc = "encode" /\ next \in 1..Len(message.tlvs)
      /\ EncodeTlv(t, "encode")
      /\ Len(packet.tlvs) \in Nat /\ head \in Nat /\ room \in Nat
      /\ message.tlvs \in Seq(Tlv) /\ packet.tlvs \in Seq(WireTlv)
      /\ message.type \in DOMAIN PayloadSize
  <2>1. Len(packet.tlvs) \in Nat /\ Len(message.tlvs) \in Nat
    BY DEF IInv, TypeOK
  <2> QED BY <2>1, CodecAssumption DEF EncodeNext, IInv, TypeOK, Layout
<1>2. UNCHANGED <<message, room>>
  BY <1>1 DEF EncodeTlv, Refuse
<1>3. head = Unpadded(next - 1)
  BY <1>1 DEF SizesAddUp, Summed
<1>4. t.type # "unsupported" =>
        Unpadded(next) = head + TlvHeaderSize + TlvSize(t)
  <2> SUFFICES ASSUME t.type # "unsupported"
               PROVE  Unpadded(next) = head + TlvHeaderSize + TlvSize(t)
    OBVIOUS
  <2>1. EncodedSize(message.tlvs)[next] =
          EncodedSize(message.tlvs)[next - 1] + TlvHeaderSize + TlvSize(t)
    BY <1>1, EncodedSizes
  <2>2. TlvSize(t) \in Nat /\ Start \in Nat
    BY <1>1, TlvSizeType, PayloadSizeType DEF Start, HeaderSize
  <2>3. EncodedSize(message.tlvs)[next - 1] \in Nat
    <3>1. \A i \in 1..(next - 1) : message.tlvs[i].type # "unsupported"
      <4> SUFFICES ASSUME NEW i \in 1..(next - 1)
                   PROVE  message.tlvs[i].type # "unsupported"
        OBVIOUS
      <4>1. i \in 1..Len(packet.tlvs) /\ i <= Len(message.tlvs)
        BY <1>1
      <4> QED BY <1>1, <4>1 DEF IInv, Layout, FromMessage
    <3>2. next - 1 \in 0..Len(message.tlvs) /\ next - 1 \in 0..(next - 1)
      BY <1>1
    <3> QED BY <1>1, <3>1, <3>2, EncodedSizesGrow
  <2> HIDE DEF t, next
  <2> QED BY <1>3, <2>1, <2>2, <2>3 DEF Unpadded, TlvHeaderSize
<1>5. CASE Refuse(Overrun(t)) /\ ~Encodable(t)
  <2>1. Unencodable
    <3>1. CASE t.type = "unsupported"
      BY <1>1, <3>1, Zenon DEF Unencodable
    <3>2. CASE t.type = "description" /\ ~(Written(t) <= DescriptionSize)
      <4>1. Written(t) > DescriptionSize
        BY <1>1, <3>2, TlvParts, WrittenType, CodecAssumption
      <4> QED BY <1>1, <3>2, <4>1, Zenon DEF Unencodable
    <3>3. CASE /\ t.type # "unsupported"
               /\ ~(head + TlvHeaderSize + TlvSize(t) <= room)
      <4>1. TlvSize(t) \in Nat
        BY <1>1, <3>3, TlvSizeType
      <4>2. Unpadded(next) > room
        BY <1>1, <1>4, <3>3, <4>1 DEF TlvHeaderSize
      <4> QED BY <1>1, <4>2, RefusedEarly
    <3> QED BY <1>5, <3>1, <3>2, <3>3 DEF Encodable
  <2>2. pc' = "refused"
    BY <1>5 DEF Refuse
  <2> QED BY <1>2, <2>1, <2>2, UnencodableStays
          DEF SizesAddUp, Summed, RefusedForAReason
<1>6. CASE /\ Encodable(t) /\ pc' = "encode"
           /\ head' = head + TlvHeaderSize + TlvSize(t)
           /\ packet' = [packet EXCEPT !.tlvs = Append(@, EncodedTlv(t, head)),
                                       !.length = 0]
  <2>1. Len(packet'.tlvs) = next
    <3>1. packet'.tlvs = Append(packet.tlvs, EncodedTlv(t, head))
      BY <1>6 DEF IInv, TypeOK
    <3> QED BY <1>1, <3>1
  <2>2. Unpadded(Len(packet.tlvs))' = Unpadded(next)
    BY <1>2, <2>1 DEF Unpadded, Start
  <2>3. t.type # "unsupported"
    BY <1>6 DEF Encodable
  <2> QED BY <1>4, <1>6, <2>2, <2>3 DEF SizesAddUp, Summed, RefusedForAReason
<1> QED BY <1>1, <1>5, <1>6 DEF EncodeTlv

LEMMA EncodePadSizes == IInv /\ SizesAddUp /\ EncodePad => SizesAddUp'
<1> SUFFICES ASSUME IInv, SizesAddUp, EncodePad PROVE SizesAddUp'
  OBVIOUS
<1>1. /\ pc = "encode" /\ Len(packet.tlvs) = Len(message.tlvs)
      /\ EncodeTlv(Pad, "sent") /\ head \in Nat /\ room \in Nat
  BY CodecAssumption DEF EncodePad, IInv, TypeOK
<1>2. UNCHANGED <<message, room>>
  BY <1>1 DEF EncodeTlv, Refuse
<1>3. head = Unpadded(Len(message.tlvs))
  BY <1>1 DEF SizesAddUp, Summed
<1>4. CASE Refuse(Overrun(Pad)) /\ ~Encodable(Pad)
  <2>1. TlvSize(Pad) \in Nat /\ head + TlvHeaderSize + TlvSize(Pad) > room
    <3>1. TlvSize(Pad) \in Nat
      BY <1>1, PadAligns DEF WireTlv, EncodedTlv
    <3>2. Pad.type = "pad"
      BY DEF Pad
    <3>3. ~(head + TlvHeaderSize + TlvSize(Pad) <= room)
      <4> HIDE DEF Pad
      <4> QED BY <1>4, <3>2 DEF Encodable
    <3> QED BY <1>1, <3>1, <3>3 DEF TlvHeaderSize
  <2>2. ASSUME NEW n \in 0..(Alignment - 1),
               (head + TlvHeaderSize + n + NetworkOverhead) % Alignment = 0
        PROVE  head + TlvHeaderSize + n > room
    BY <1>1, <2>1, <2>2, PadIsLeast
  <2>3. Unencodable
    BY <1>3, <2>2 DEF Unencodable
  <2>4. pc' = "refused"
    BY <1>4 DEF Refuse
  <2> QED BY <1>2, <2>3, <2>4, UnencodableStays
          DEF SizesAddUp, Summed, RefusedForAReason
<1>5. CASE pc' = "sent"
  BY <1>5 DEF SizesAddUp, Summed, RefusedForAReason
<1> QED BY <1>1, <1>4, <1>5 DEF EncodeTlv

\* A refused message stays what it was.
LEMMA CodecStillSizes == SizesAddUp /\ UNCHANGED vars => SizesAddUp'
<1> SUFFICES ASSUME SizesAddUp, UNCHANGED vars PROVE SizesAddUp'
  OBVIOUS
<1>1. UNCHANGED <<pc, message, room, head, packet>>
  BY DEF vars
<1>2. Unencodable' <=> Unencodable
  BY <1>1, UnencodableStays
<1>3. Summed'
  BY <1>1 DEF SizesAddUp, Summed, Unpadded, Start
<1> QED BY <1>1, <1>2, <1>3 DEF SizesAddUp, RefusedForAReason

\* No message is encoded, and none is refused, by the other actions.
LEMMA OtherSizes ==
  ASSUME AddTlv \/ DecodeHeader \/ DecodeTlv \/ DecodeEnds
  PROVE  SizesAddUp'
<1>1. pc' \notin {"encode", "refused"}
  BY DEF AddTlv, DecodeHeader, DecodeTlv, DecodeEnds
<1> QED BY <1>1 DEF SizesAddUp, Summed, RefusedForAReason

-----------------------------------------------------------------------------
(* The theorems. *)

\* IInv holds in every reachable state.
THEOREM Invariant == Spec => []IInv
<1>1. IInv /\ [Next]_vars => IInv'
  BY AddTlvStep, EncodeHeaderStep, EncodeNextStep, EncodePadStep,
     DecodeHeaderStep, DecodeTlvStep, DecodeEndsStep, Stutter DEF Next
<1> QED BY InitInvariant, <1>1, PTL DEF Spec

\* The state has its types, for every choice of the constants.
THEOREM TypeCorrect == Spec => []TypeOK
<1>1. IInv => TypeOK
  BY DEF IInv
<1> QED BY Invariant, <1>1, PTL

\* Every packet ptp_encode_message makes is padded to a multiple of 16 bytes,
\* network headers included, and fits into the buffer it was made for; and what it
\* gives up has a length only if a TLV's type was stored behind the buffer.
THEOREM Aligned == Spec => []PacketAligned
<1>1. IInv => PacketAligned
  BY DEF IInv
<1> QED BY Invariant, <1>1, PTL

\* ptp_decode_message refuses nothing that ptp_encode_message made.
THEOREM OwnDecode == Spec => []OwnMessagesDecode
<1>1. IInv => OwnMessagesDecode
  BY DEF IInv
<1> QED BY Invariant, <1>1, PTL

\* ptp_decode_message gives back what ptp_encode_message was given, timestamps
\* to the nanosecond and TLVs in their order, with the padding behind them if
\* there is room for it.  For texts of any size: a description comes back with its
\* length modulo 256, and an error text may go on in a structure that was used.
THEOREM DecodesToTheSame == Spec => []RoundTrip
BY Invariant, DecodedIsEncoded, PTL

\* ptp_encode_message refuses no message that fits.
THEOREM RefusesForAReason == Spec => []RefusedForAReason
<1>1. Init => SizesAddUp
  BY DEF Init, SizesAddUp, Summed, RefusedForAReason
<1>2. IInv /\ SizesAddUp /\ [Next]_vars => SizesAddUp'
  BY EncodeHeaderSizes, EncodeNextSizes, EncodePadSizes, CodecStillSizes,
     OtherSizes DEF Next
<1>3. SizesAddUp => RefusedForAReason
  BY DEF SizesAddUp
<1> QED BY Invariant, <1>1, <1>2, <1>3, PTL DEF Spec

-----------------------------------------------------------------------------
(* Authentication. *)

\* The first of some numbers.
LEMMA MinIsFirst ==
  ASSUME NEW S, S \subseteq Nat, S # {}
  PROVE  Min(S) \in S /\ \A x \in S : Min(S) <= x
BY LeastNumber DEF Min

-----------------------------------------------------------------------------
(* Values. *)

\* Everything a value is computed from stays as it is.
LEMMA SignedByUnchanged ==
  ASSUME UNCHANGED <<packet, decoded, icvs>>, NEW policy, NEW secret,
         SignedBy(policy, secret)
  PROVE  SignedBy(policy, secret)'
BY DEF SignedBy, IsAuth, IcvOf

\* A value is added behind those that are there, and does not change them.
LEMMA SignStep ==
  ASSUME NEW policy, NEW secret, Sign(policy, secret),
         icvs \in Seq(ToSet(icvs)), decoded.tlvs \in Seq(FoundTlv)
  PROVE  /\ icvs' \in Seq(ToSet(icvs'))
         /\ Len(icvs') <= Len(decoded.tlvs)
         /\ SignedBy(policy, secret) => SignedBy(policy, secret)'
<1> DEFINE n == Len(icvs)
           v == NextIcv(policy, secret)
<1>1. /\ n < Len(decoded.tlvs) /\ icvs' = Append(icvs, v)
      /\ UNCHANGED <<packet, decoded>>
  BY DEF Sign, vars
<1>2. n \in Nat /\ Len(decoded.tlvs) \in Nat
  OBVIOUS
<1> HIDE DEF v
<1>3. /\ icvs' \in Seq(ToSet(icvs) \cup {v})
      /\ Len(icvs') = n + 1 /\ DOMAIN icvs' = 1..(n + 1)
      /\ icvs'[n + 1] = v
      /\ \A i \in 1..n : icvs'[i] = icvs[i]
  BY <1>1, <1>2
<1>4. icvs' \in Seq(ToSet(icvs'))
  <2>1. ToSet(icvs') = {icvs'[i] : i \in 1..(n + 1)}
    BY <1>3 DEF ToSet
  <2>2. \A i \in 1..(n + 1) : icvs'[i] \in ToSet(icvs')
    BY <2>1
  <2> QED BY <1>2, <1>3, <2>2
<1>5. Len(icvs') <= Len(decoded.tlvs)
  BY <1>1, <1>2, <1>3
<1>6. ASSUME SignedBy(policy, secret)
      PROVE  SignedBy(policy, secret)'
  <2> SUFFICES ASSUME NEW j \in 1..(n + 1), IsAuth(j)
               PROVE  icvs'[j] = IcvOf(policy, secret, j,
                                       SubSeq(icvs', 1, j - 1))
    BY <1>1, <1>3 DEF SignedBy, IsAuth, IcvOf
  <2>1. SubSeq(icvs', 1, j - 1) = SubSeq(icvs, 1, j - 1)
    <3>1. j - 1 \in 0..n
      BY <1>2
    <3> QED BY <1>2, <1>3, <3>1
  <2>2. CASE j = n + 1
    <3>1. j - 1 = n /\ SubSeq(icvs, 1, n) = icvs
      BY <1>2, <2>2
    <3>2. SubSeq(icvs', 1, j - 1) = icvs
      BY <2>1, <3>1
    <3>3. v = IcvOf(policy, secret, j, icvs)
      BY <2>2 DEF v, NextIcv
    <3>4. icvs'[j] = v
      BY <1>3, <2>2
    <3> QED BY <3>2, <3>3, <3>4, Zenon
  <2>3. CASE j # n + 1
    <3>1. j \in 1..n /\ DOMAIN icvs = 1..n
      BY <1>2, <2>3
    <3>2. icvs[j] = IcvOf(policy, secret, j, SubSeq(icvs, 1, j - 1))
      BY <1>6, <3>1 DEF SignedBy
    <3> QED BY <1>3, <2>1, <3>1, <3>2
  <2> QED BY <2>2, <2>3
<1> QED BY <1>4, <1>5, <1>6

\* Whose values the server accepts, where they have their full length.
LEMMA AcceptedIfEntitled ==
  ASSUME AuthIInv, stage = "handle", entry.policy # "unpopulated",
         NEW j \in DOMAIN decoded.tlvs, IsAuth(j), Conclusive(j),
         NEW accepted \in BOOLEAN, IcvAccepted(j, accepted)
  PROVE  /\ accepted => Entitled
         /\ Entitled => accepted \/ Mark \in Looks(j)
<1>1. /\ client \in [policy : DOMAIN IcvSize, secret : {"right", "wrong"}]
      /\ entry.policy \in ServerPolicy
      /\ decoded.tlvs \in Seq(FoundTlv) /\ icvs \in Seq(ToSet(icvs))
      /\ Len(icvs) = Len(decoded.tlvs)
  BY DEF AuthIInv, AuthTypeOK, TypeOK
<1>2. icvs[j] = IcvOf(client.policy, client.secret, j, SubSeq(icvs, 1, j - 1))
  <2>1. j \in DOMAIN icvs
    BY <1>1
  <2> QED BY <2>1 DEF AuthIInv, Signatures, SignedBy
<1>3. DOMAIN IcvSize = {"hmac", "plain"}
  BY DEF IcvSize
<1>4. CASE entry.policy = "none"
  <2>1. accepted
    BY <1>1, <1>3, <1>4 DEF IcvAccepted
  <2>2. Entitled
    BY <1>4 DEF Entitled
  <2> QED BY <2>1, <2>2
<1>5. CASE entry.policy # "none" /\ client.policy # entry.policy
  <2>1. ~accepted /\ ~Entitled
    BY <1>5 DEF IcvAccepted, Entitled
  <2> QED BY <2>1
<1>6. CASE entry.policy # "none" /\ client.policy = entry.policy
  <2>1. Entitled <=> client.secret = "right"
    <3>1. client = [policy |-> client.policy, secret |-> client.secret]
      BY <1>1
    <3> QED BY <1>6, <3>1 DEF Entitled
  <2>2. Same(j) <=> client.secret = "right"
    <3>1. Same(j) <=>
            IcvOf(client.policy, client.secret, j, SubSeq(icvs, 1, j - 1)) =
            IcvOf(client.policy, "right", j, SubSeq(icvs, 1, j - 1))
      BY <1>2, <1>6 DEF Same
    <3>2. \A secret : IcvOf(client.policy, secret, j, SubSeq(icvs, 1, j - 1)).secret
                        = secret
      BY <1>1, <1>3 DEF IcvOf, Icv
    <3>3. CASE client.secret = "right"
      BY <3>1, <3>3
    <3>4. CASE client.secret # "right"
      BY <3>1, <3>2, <3>4
    <3> QED BY <3>3, <3>4
  <2>3. /\ IcvLength(j) \in Int
        /\ HmacSize \in Nat /\ DigestSize \in Nat /\ PlainSize \in Nat
        /\ entry.policy \in {"hmac", "plain"}
    <3>1. decoded.tlvs[j] \in FoundTlv
      BY <1>1
    <3>2. HmacSize \in Nat /\ DigestSize \in Nat /\ PlainSize \in Nat
      <4>1. TextLength \subseteq Nat /\ {HmacSize, PlainSize} \subseteq TextLength
        BY CodecAssumption, AuthenticationAssumption
      <4> QED BY <4>1, AuthenticationAssumption
    <3> QED BY <1>1, <1>3, <1>6, <3>1, <3>2 DEF IcvLength, FoundTlv
  <2>4. /\ ~(IcvLength(j) < IcvSize[entry.policy])
        /\ entry.policy = "hmac" => ~(IcvLength(j) > DigestSize)
    BY <1>6, <2>3 DEF Conclusive, IcvSize
  <2>5. accepted \in Verdicts(j)
    BY <1>6, <2>3 DEF IcvAccepted
  <2>6. IF accepted THEN Same(j) ELSE ~Same(j) \/ Touched(j)
    BY ONLY <2>4, <2>5, accepted \in BOOLEAN, Zenon DEF Verdicts
  <2> QED BY <2>1, <2>2, <2>6 DEF Touched
<1> QED BY <1>4, <1>5, <1>6

-----------------------------------------------------------------------------
(* Answers. *)

\* An answer is a TLV if its parts go together.
LEMMA AnswerIsTlv ==
  ASSUME NEW type \in TlvType, NEW text \in TextLength \cup {0},
         NEW flags \in 0..3,
         text # 0 => type \in {"description", "error", "authentication"},
         type = "error" => text <= ErrorTextSize,
         flags # 0 => type = "grant"
  PROVE  Answer(type, text, flags) \in Tlv
<1> DEFINE t == Answer(type, text, flags)
<1>1. t \in [type : TlvType, text : TextLength \cup {0}, asked : {0, 11},
             flags : 0..3]
  BY DEF Answer
<1>2. t.type = type /\ t.text = text /\ t.asked = 0 /\ t.flags = flags
  BY DEF Answer
<1>3. type = "time_offset" => text <= NameSize
  BY CodecAssumption
<1> HIDE DEF t
<1>4. t.type \notin Unicast \ {"request"} => t.flags = 0
  BY <1>2 DEF Unicast
<1> QED BY <1>1, <1>2, <1>3, <1>4 DEF Tlv, t

\* The answer to a request for the description fits, or is cut.
LEMMA DescriptionIsTlv ==
  ASSUME AuthTypeOK, NEW allowed \in BOOLEAN
  PROVE  /\ DescriptionAnswer(allowed) \in Tlv
         /\ DescriptionAnswer(allowed).type # "authentication"
<1>1. /\ DescriptionSize \in TextLength /\ DeniedText \in TextLength
      /\ DeniedText <= ErrorTextSize
  BY AuthenticationAssumption
<1> DEFINE text == IF entry.description < DescriptionSize
                     THEN entry.description ELSE DescriptionSize
<1>2. text \in TextLength \cup {0}
  BY <1>1 DEF AuthTypeOK
<1> HIDE DEF text
<1>3. /\ Answer("description", text, 0) \in Tlv
      /\ Answer("error", DeniedText, 0) \in Tlv
  BY <1>1, <1>2, AnswerIsTlv DEF TlvType
<1>4. DescriptionAnswer(allowed) = IF allowed
                                     THEN Answer("description", text, 0)
                                     ELSE Answer("error", DeniedText, 0)
  BY DEF DescriptionAnswer, text
<1> QED BY <1>3, <1>4 DEF Answer

\* What ptp_security_add_auth_tlv adds.
LEMMA AuthAddedType ==
  ASSUME NEW type
  PROVE  /\ AuthAdded(type) \in Seq(Tlv)
         /\ Len(AuthAdded(type)) \in {0, 1}
         /\ Len(AuthAdded(type)) = 1 => Len(reply) < MaxTlv
<1>1. Answer("authentication", HmacSize, 0) \in Tlv
  BY AuthenticationAssumption, AnswerIsTlv DEF TlvType
<1> QED BY <1>1 DEF AuthAdded

-----------------------------------------------------------------------------
(* Steps. *)

LEMMA AuthInitInvariant == AuthInit => AuthIInv
<1> SUFFICES ASSUME AuthInit PROVE AuthIInv
  OBVIOUS
<1>1. IInv
  BY InitInvariant DEF AuthInit
<1>2. AuthTypeOK
  <2>1. client \in [policy : DOMAIN IcvSize, secret : {"right", "wrong"}]
    BY DEF AuthInit, IcvSize
  <2>2. entry \in [policy : ServerPolicy, description : TextLength \cup {0}]
    BY DEF AuthInit, ServerPolicy
  <2>3. /\ <<>> \in Seq(ToSet(icvs)) /\ <<>> \in Seq(Tlv) /\ <<>> \in Seq(BOOLEAN)
        /\ Len(<<>>) = 0 /\ Len(decoded.tlvs) = 0
        /\ MaxTlv \in Nat
    BY CodecAssumption DEF AuthInit, Init, NotDecoded
  <2> QED BY <1>1, <2>1, <2>2, <2>3 DEF AuthInit, AuthTypeOK, IInv
<1> QED BY <1>1, <1>2 DEF AuthInit, AuthIInv, Signatures, Stages, MarksDeserved,
                          AuthenticationDecides, Answered

\* While a message is encoded or decoded nobody signs or handles it.
LEMMA CodeStep ==
  ASSUME AuthIInv, UNCHANGED authVars, IInv', pc # "decoded",
         message'.type = message.type,
         stage = "reply" => message' = message
  PROVE  AuthIInv'
<1>1. icvs = <<>> /\ stage \notin {"sign", "handle"}
  BY DEF AuthIInv, Signatures, Stages
<1>2. UNCHANGED <<stage, client, entry, icvs, authenticated, served, reply>>
  BY DEF authVars
<1>3. AuthTypeOK'
  <2>1. decoded'.tlvs \in Seq(FoundTlv)
    BY DEF IInv, TypeOK
  <2>2. Len(icvs') <= Len(decoded'.tlvs)
    BY <1>1, <1>2, <2>1
  <2>3. icvs' \in Seq(ToSet(icvs'))
    BY <1>1, <1>2
  <2> QED BY <1>1, <1>2, <2>2, <2>3 DEF AuthIInv, AuthTypeOK, IInv
<1>4. Signatures'
  BY <1>1, <1>2 DEF Signatures, SignedBy
<1>5. Stages'
  BY <1>1, <1>2 DEF AuthIInv, Stages
<1>6. Answered'
  BY <1>2 DEF AuthIInv, Answered, AuthAdded
<1> QED BY <1>1, <1>2, <1>3, <1>4, <1>5, <1>6
        DEF AuthIInv, MarksDeserved, AuthenticationDecides

\* The steps of MessageCodec, of the client and of the server.
LEMMA CodecSteps ==
  ASSUME AuthIInv,
         \/ BuildRequest
         \/ Code(EncodeHeader) \/ Code(EncodeNext) \/ Code(EncodePad)
         \/ Code(DecodeHeader) \/ Code(DecodeTlv) \/ Code(DecodeEnds)
  PROVE  AuthIInv'
<1>1. IInv
  BY DEF AuthIInv
<1>2. CASE BuildRequest
  <2>1. AddTlv /\ stage = "request" /\ UNCHANGED authVars
    BY <1>2 DEF BuildRequest, Code
  <2>2. IInv'
    BY <1>1, <2>1, AddTlvStep
  <2>3. message'.type = message.type
    BY <1>1, <2>1 DEF AddTlv, IInv, TypeOK
  <2>4. pc # "decoded"
    BY <2>1 DEF AddTlv
  <2> QED BY <2>1, <2>2, <2>3, <2>4, CodeStep
<1>3. CASE Code(EncodeHeader)
  <2>1. EncodeHeader /\ UNCHANGED authVars
    BY <1>3 DEF Code
  <2>2. pc # "decoded" /\ message' = message
    BY <2>1 DEF EncodeHeader, Refuse
  <2> QED BY <1>1, <2>1, <2>2, EncodeHeaderStep, CodeStep
<1>4. CASE Code(EncodeNext)
  <2>1. EncodeNext /\ UNCHANGED authVars
    BY <1>4 DEF Code
  <2>2. pc # "decoded" /\ message' = message
    BY <2>1 DEF EncodeNext, EncodeTlv, Refuse
  <2> QED BY <1>1, <2>1, <2>2, EncodeNextStep, CodeStep
<1>5. CASE Code(EncodePad)
  <2>1. EncodePad /\ UNCHANGED authVars
    BY <1>5 DEF Code
  <2>2. pc # "decoded" /\ message' = message
    BY <2>1 DEF EncodePad, EncodeTlv, Refuse
  <2> QED BY <1>1, <2>1, <2>2, EncodePadStep, CodeStep
<1>6. CASE Code(DecodeHeader)
  <2>1. DecodeHeader /\ UNCHANGED authVars
    BY <1>6 DEF Code
  <2>2. pc # "decoded" /\ message' = message
    BY <2>1 DEF DecodeHeader
  <2> QED BY <1>1, <2>1, <2>2, DecodeHeaderStep, CodeStep
<1>7. CASE Code(DecodeTlv)
  <2>1. DecodeTlv /\ UNCHANGED authVars
    BY <1>7 DEF Code
  <2>2. pc # "decoded" /\ message' = message
    BY <2>1 DEF DecodeTlv
  <2> QED BY <1>1, <2>1, <2>2, DecodeTlvStep, CodeStep
<1>8. CASE Code(DecodeEnds)
  <2>1. DecodeEnds /\ UNCHANGED authVars
    BY <1>8 DEF Code
  <2>2. pc # "decoded" /\ message' = message
    BY <2>1 DEF DecodeEnds
  <2> QED BY <1>1, <2>1, <2>2, DecodeEndsStep, CodeStep
<1> QED BY <1>2, <1>3, <1>4, <1>5, <1>6, <1>7, <1>8

\* Encoder and decoder rest while TLVs are signed and handled.
LEMMA CodecRests ==
  ASSUME AuthIInv, UNCHANGED vars
  PROVE  IInv' /\ TypeOK'
<1>1. IInv'
  BY Stutter DEF AuthIInv
<1> QED BY <1>1 DEF IInv

LEMMA FinalizeRequestStep == AuthIInv /\ FinalizeRequest => AuthIInv'
<1> SUFFICES ASSUME AuthIInv, FinalizeRequest PROVE AuthIInv'
  OBVIOUS
<1>1. /\ stage = "request" /\ pc = "decoded" /\ stage' = "sign"
      /\ message.type \in {"management", "signaling"}
      /\ client' \in [policy : DOMAIN IcvSize, secret : {"right", "wrong"}]
      /\ entry' \in Entry
      /\ UNCHANGED <<vars, icvs, authenticated, served, reply>>
  BY DEF FinalizeRequest
<1>2. /\ UNCHANGED <<pc, message, decoded, packet>>
      /\ icvs = <<>> /\ authenticated = {} /\ served = <<>> /\ reply = <<>>
  BY <1>1 DEF vars, AuthIInv, Stages
<1>3. AuthTypeOK'
  <2>1. entry' \in [policy : ServerPolicy, description : TextLength \cup {0}]
    BY <1>1, AuthenticationAssumption
  <2> QED BY <1>1, <1>2, <2>1, CodecRests DEF AuthIInv, AuthTypeOK
<1>4. Signatures'
  BY <1>1, <1>2 DEF Signatures, SignedBy
<1>5. Stages'
  BY <1>1, <1>2 DEF Stages, Guarded
<1>6. Answered'
  BY <1>1, <1>2 DEF Answered
<1> QED BY <1>1, <1>3, <1>4, <1>5, <1>6, CodecRests
        DEF AuthIInv, MarksDeserved, AuthenticationDecides

\* A turn of the client's loop, and of the server's.
LEMMA SignSteps == AuthIInv /\ (SignRequest \/ SignReply) => AuthIInv'
<1> SUFFICES ASSUME AuthIInv, SignRequest \/ SignReply PROVE AuthIInv'
  OBVIOUS
<1>1. /\ icvs \in Seq(ToSet(icvs)) /\ decoded.tlvs \in Seq(FoundTlv)
  BY DEF AuthIInv, AuthTypeOK, TypeOK
<1>2. /\ pc = "decoded" /\ stage \in {"sign", "reply"}
      /\ UNCHANGED <<vars, stage, client, entry, authenticated, served, reply>>
  BY DEF SignRequest, SignReply, Sign
<1>3. UNCHANGED <<pc, message, decoded, packet>>
  BY <1>2 DEF vars
<1>4. icvs' \in Seq(ToSet(icvs')) /\ Len(icvs') <= Len(decoded.tlvs)
  BY <1>1, SignStep DEF SignRequest, SignReply
<1>5. AuthTypeOK'
  BY <1>2, <1>3, <1>4, CodecRests DEF AuthIInv, AuthTypeOK
<1>6. Signatures'
  <2>1. CASE stage = "sign"
    <3>1. Sign(client.policy, client.secret)
      BY <2>1 DEF SignRequest, SignReply
    <3>2. SignedBy(client.policy, client.secret)
      BY <2>1 DEF AuthIInv, Signatures
    <3>3. \A p, s : Sign(p, s) /\ SignedBy(p, s) => SignedBy(p, s)'
      BY <1>1, SignStep
    <3>4. \A p, s : p = client.policy /\ s = client.secret
                      => SignedBy(p, s)'
      BY <3>1, <3>2, <3>3
    <3>5. SignedBy(client.policy, client.secret)'
      BY <1>2, <3>4
    <3> QED BY <1>2, <1>3, <2>1, <3>5 DEF Signatures
  <2>2. CASE stage = "reply"
    <3>1. Sign(entry.policy, "right")
      BY <2>2 DEF SignRequest, SignReply
    <3>2. SignedBy(entry.policy, "right")
      BY <2>2 DEF AuthIInv, Signatures
    <3>3. \A p, s : Sign(p, s) /\ SignedBy(p, s) => SignedBy(p, s)'
      BY <1>1, SignStep
    <3>4. \A p, s : p = entry.policy /\ s = "right" => SignedBy(p, s)'
      BY <3>1, <3>2, <3>3
    <3>5. SignedBy(entry.policy, "right")'
      BY <1>2, <3>4
    <3> QED BY <1>2, <1>3, <2>2, <3>5 DEF Signatures
  <2> QED BY <1>2, <2>1, <2>2
<1>7. Stages'
  BY <1>2, <1>3 DEF AuthIInv, Stages
<1>8. Answered'
  BY <1>2, <1>3 DEF AuthIInv, Answered, AuthAdded
<1> QED BY <1>2, <1>5, <1>6, <1>7, <1>8, CodecRests
        DEF AuthIInv, MarksDeserved, AuthenticationDecides

LEMMA ReceiveStep == AuthIInv /\ Receive => AuthIInv'
<1> SUFFICES ASSUME AuthIInv, Receive PROVE AuthIInv'
  OBVIOUS
<1>1. /\ stage = "sign" /\ Len(icvs) = Len(decoded.tlvs) /\ stage' = "handle"
      /\ UNCHANGED <<vars, client, entry, icvs, authenticated, served, reply>>
  BY DEF Receive
<1>2. /\ UNCHANGED <<pc, message, decoded, packet>>
      /\ authenticated = {} /\ served = <<>> /\ reply = <<>> /\ pc = "decoded"
  BY <1>1 DEF vars, AuthIInv, Stages
<1>3. AuthTypeOK'
  BY <1>1, <1>2, CodecRests DEF AuthIInv, AuthTypeOK
<1>4. Signatures'
  <2>1. SignedBy(client.policy, client.secret)
    BY <1>1 DEF AuthIInv, Signatures
  <2>2. SignedBy(client.policy, client.secret)'
    BY <1>1, <1>2, <2>1 DEF SignedBy, IsAuth, IcvOf
  <2> QED BY <1>1, <1>2, <2>2 DEF Signatures
<1>5. Stages'
  BY <1>1, <1>2 DEF AuthIInv, Stages
<1>6. MarksDeserved' /\ AuthenticationDecides'
  BY <1>1, <1>2 DEF MarksDeserved, AuthenticationDecides
<1>7. Answered'
  BY <1>1, <1>2 DEF Answered
<1> QED BY <1>1, <1>3, <1>4, <1>5, <1>6, <1>7, CodecRests DEF AuthIInv

\* The places ptp_security_check_auth looks for are numbers.
LEMMA NextAuthType ==
  ASSUME AuthIInv, NEW i
  PROVE  /\ NextAuth(i) \subseteq Nat
         /\ NextAuth(i) # {} =>
              /\ Min(NextAuth(i)) \in DOMAIN decoded.tlvs
              /\ Min(NextAuth(i)) > i /\ IsAuth(Min(NextAuth(i)))
              /\ \A j \in NextAuth(i) : Min(NextAuth(i)) <= j
<1>1. decoded.tlvs \in Seq(FoundTlv)
  BY DEF AuthIInv, AuthTypeOK, TypeOK
<1>2. NextAuth(i) \subseteq Nat
  BY <1>1 DEF NextAuth
<1>3. NextAuth(i) # {} =>
        /\ Min(NextAuth(i)) \in NextAuth(i)
        /\ \A j \in NextAuth(i) : Min(NextAuth(i)) <= j
  BY <1>2, MinIsFirst
<1> QED BY <1>2, <1>3 DEF NextAuth

\* What a value decides about a TLV it decides about all between the two.
LEMMA DecidedTogether ==
  ASSUME AuthIInv, NEW i \in Nat, NEW k \in Nat, k > i, NextAuth(i) # {},
         k <= Min(NextAuth(i)), ~IsAuth(k), Decided(k)
  PROVE  Decided(i)
<1> DEFINE m == Min(NextAuth(i))
<1>1. /\ m \in DOMAIN decoded.tlvs /\ IsAuth(m) /\ m \in Nat
      /\ \A j \in NextAuth(i) : m <= j
  <2>1. NextAuth(i) \subseteq Nat /\ m \in NextAuth(i)
    BY NextAuthType, MinIsFirst
  <2> QED BY <2>1, NextAuthType
<1>2. k < m
  <2>1. k # m
    BY <1>1
  <2> QED BY <1>1, <2>1
<1>3. decoded.tlvs \in Seq(FoundTlv)
  BY DEF AuthIInv, AuthTypeOK, TypeOK
<1>4. \A j \in DOMAIN decoded.tlvs : IsAuth(j) => (j > i <=> j > k)
  <2> SUFFICES ASSUME NEW j \in DOMAIN decoded.tlvs, IsAuth(j)
               PROVE  j > i <=> j > k
    OBVIOUS
  <2>1. j \in Nat /\ (j > i => j \in NextAuth(i))
    BY <1>3 DEF NextAuth
  <2> HIDE DEF m
  <2> QED BY <1>1, <1>2, <2>1
<1>5. NextAuth(k) = NextAuth(i)
  BY <1>4 DEF NextAuth
<1> QED BY <1>5 DEF Decided

\* A TLV is allowed to whoever the check decides it for, and marked TLVs are not
\* checked again.
LEMMA CheckDecides ==
  ASSUME AuthIInv, stage = "handle", NEW i \in DOMAIN decoded.tlvs,
         i = Len(served) + 1, ~IsAuth(i),
         NEW allowed \in BOOLEAN, CheckAuth(i, allowed)
  PROVE  /\ Decided(i) =>
              /\ allowed => Entitled
              /\ Entitled => allowed \/ Mark \in Looks(Min(NextAuth(i)))
         /\ authenticated' \subseteq 0..MaxTlv
         /\ \A k \in authenticated' :
              k > i /\ ~IsAuth(k) /\ Decided(k) => Entitled
<1>1. /\ decoded.tlvs \in Seq(FoundTlv) /\ Len(decoded.tlvs) <= MaxTlv
      /\ MaxTlv \in Nat /\ served \in Seq(BOOLEAN)
      /\ authenticated \subseteq 0..MaxTlv
  BY CodecAssumption DEF AuthIInv, AuthTypeOK, TypeOK
<1>2. DOMAIN decoded.tlvs = 1..Len(decoded.tlvs)
  BY <1>1
<1>3. \A k \in authenticated : k >= i /\ ~IsAuth(k) /\ Decided(k) => Entitled
  <2>1. \A k \in authenticated : k >= i => k > Len(served)
    BY <1>1
  <2> QED BY <2>1 DEF AuthIInv, MarksDeserved
<1>4. \A k \in authenticated : k > i => k >= i
  BY <1>1, <1>2
<1>5. CASE i \in authenticated
  <2>1. allowed /\ authenticated' = authenticated
    BY <1>5 DEF CheckAuth
  <2>2. i >= i
    BY <1>2
  <2> QED BY <1>1, <1>3, <1>4, <1>5, <2>1, <2>2
<1>6. CASE i \notin authenticated /\ entry.policy = "unpopulated"
  <2>1. ~allowed /\ authenticated' = authenticated
    BY <1>6 DEF CheckAuth
  <2>2. ~Entitled
    BY <1>6 DEF Entitled, AuthIInv, AuthTypeOK, IcvSize
  <2> QED BY <1>1, <1>3, <1>4, <2>1, <2>2
<1>7. CASE i \notin authenticated /\ entry.policy # "unpopulated"
  <2>1. /\ NextAuth(i) # {} => IcvAccepted(Min(NextAuth(i)), allowed)
        /\ authenticated' =
             IF ~allowed THEN authenticated
             ELSE authenticated \cup
                    0..(IF NextAuth(i) # {} THEN Min(NextAuth(i))
                                            ELSE Len(decoded.tlvs))
    BY <1>7 DEF CheckAuth
  <2>2. Decided(i) =>
          /\ allowed => Entitled
          /\ Entitled => allowed \/ Mark \in Looks(Min(NextAuth(i)))
    <3> SUFFICES ASSUME Decided(i)
                 PROVE  /\ allowed => Entitled
                        /\ Entitled => allowed \/ Mark \in Looks(Min(NextAuth(i)))
      OBVIOUS
    <3> DEFINE j == Min(NextAuth(i))
    <3>1. /\ j \in DOMAIN decoded.tlvs /\ IsAuth(j) /\ Conclusive(j)
          /\ IcvAccepted(j, allowed)
      BY <2>1, NextAuthType DEF Decided
    <3> HIDE DEF j
    <3>2. (allowed => Entitled) /\ (Entitled => allowed \/ Mark \in Looks(j))
      BY <1>7, <3>1, AcceptedIfEntitled
    <3> QED BY <3>2 DEF j
  <2>3. PICK m \in 0..MaxTlv :
          /\ authenticated' = IF ~allowed THEN authenticated
                                          ELSE authenticated \cup 0..m
          /\ NextAuth(i) # {} => m = Min(NextAuth(i))
    <3>1. NextAuth(i) # {} => Min(NextAuth(i)) \in 0..MaxTlv
      BY <1>1, <1>2, NextAuthType
    <3>2. Len(decoded.tlvs) \in 0..MaxTlv
      BY <1>1
    <3> QED BY <2>1, <3>1, <3>2
  <2>4. authenticated' \subseteq 0..MaxTlv
    BY <1>1, <2>3
  <2>5. ASSUME NEW k \in authenticated', k > i, ~IsAuth(k), Decided(k)
        PROVE  Entitled
    <3>1. CASE k \in authenticated
      <4>1. k >= i
        BY <1>4, <2>5, <3>1
      <4> QED BY <1>3, <2>5, <3>1, <4>1
    <3>2. CASE k \notin authenticated
      <4>1. allowed /\ k \in 0..m
        BY <2>3, <3>2
      <4>2. i \in Nat /\ k \in Nat /\ k <= m
        BY <1>2, <2>3, <4>1
      <4>3. NextAuth(k) \subseteq NextAuth(i)
        <5>1. \A j \in DOMAIN decoded.tlvs : j > k => j > i
          BY <1>1, <1>2, <2>5, <4>2
        <5> QED BY <5>1 DEF NextAuth
      <4>4. NextAuth(i) # {}
        BY <2>5, <4>3 DEF Decided
      <4>5. Decided(i)
        BY <2>3, <2>5, <4>2, <4>4, DecidedTogether
      <4> QED BY <2>2, <4>1, <4>5
    <3> QED BY <3>1, <3>2
  <2> QED BY <2>2, <2>4, <2>5
<1> QED BY <1>5, <1>6, <1>7

\* One more TLV is handled, and answered or not.
LEMMA HandledStep ==
  ASSUME AuthIInv, Handling, NEW allowed \in BOOLEAN, NEW answers \in Seq(Tlv),
         Handled(allowed, answers), Len(answers) <= 1,
         \A k \in DOMAIN answers : answers[k].type # "authentication",
         authenticated' \subseteq 0..MaxTlv,
         \A k \in authenticated' :
           k > Len(served) + 1 /\ ~IsAuth(k) /\ Decided(k) => Entitled,
         decoded.tlvs[Len(served) + 1].type = Guarded[decoded.type]
           /\ Decided(Len(served) + 1) =>
             /\ allowed => Entitled
             /\ Entitled => allowed \/ Mark \in Looks(Min(NextAuth(Len(served) + 1)))
  PROVE  AuthIInv'
<1> DEFINE n == Len(served)
<1>1. /\ stage = "handle" /\ n < Len(decoded.tlvs)
      /\ served' = Append(served, allowed) /\ reply' = reply \o answers
      /\ UNCHANGED <<vars, stage, client, entry, icvs>>
  BY DEF Handling, Handled
<1>2. UNCHANGED <<pc, message, decoded, packet>>
  BY <1>1 DEF vars
<1>3. /\ served \in Seq(BOOLEAN) /\ reply \in Seq(Tlv) /\ Len(reply) <= n
      /\ Len(decoded.tlvs) <= MaxTlv /\ Len(decoded.tlvs) \in Nat
      /\ MaxTlv \in Nat /\ n \in Nat
  BY CodecAssumption DEF AuthIInv, AuthTypeOK, TypeOK
<1>4. /\ served' \in Seq(BOOLEAN) /\ Len(served') = n + 1
      /\ DOMAIN served' = 1..(n + 1) /\ served'[n + 1] = allowed
      /\ \A k \in 1..n : served'[k] = served[k]
  BY <1>1, <1>3
<1>5. /\ reply' \in Seq(Tlv) /\ Len(reply') <= n + 1
      /\ \A k \in DOMAIN reply' : reply'[k].type # "authentication"
  <2>1. /\ reply' \in Seq(Tlv) /\ Len(reply') = Len(reply) + Len(answers)
        /\ \A k \in 1..Len(reply') :
             reply'[k] = IF k <= Len(reply) THEN reply[k]
                                            ELSE answers[k - Len(reply)]
    BY <1>1, <1>3
  <2>2. \A k \in 1..Len(reply) : reply[k].type # "authentication"
    BY <1>3 DEF AuthIInv, Answered
  <2>3. ASSUME NEW k \in 1..Len(reply')
        PROVE  reply'[k].type # "authentication"
    <3>1. CASE k <= Len(reply)
      BY <1>3, <2>1, <2>2, <3>1
    <3>2. CASE ~(k <= Len(reply))
      <4>1. k - Len(reply) \in DOMAIN answers
        BY <1>3, <2>1, <3>2
      <4> QED BY <2>1, <3>2, <4>1
    <3> QED BY <3>1, <3>2
  <2> QED BY <1>3, <2>1, <2>3
<1>6. AuthTypeOK'
  <2>1. Len(served') <= MaxTlv /\ Len(reply') <= Len(served')
    BY <1>1, <1>3, <1>4, <1>5
  <2> QED BY <1>1, <1>2, <1>4, <1>5, <2>1, CodecRests
          DEF AuthIInv, AuthTypeOK
<1>7. Signatures'
  <2>1. SignedBy(client.policy, client.secret)
    BY <1>1 DEF AuthIInv, Signatures
  <2>2. SignedBy(client.policy, client.secret)'
    BY <1>1, <1>2, <2>1 DEF SignedBy, IsAuth, IcvOf
  <2> QED BY <1>1, <1>2, <2>2 DEF AuthIInv, Signatures
<1>8. Stages'
  BY <1>1, <1>2 DEF AuthIInv, Stages
<1>9. /\ \A k : (IsAuth(k)' <=> IsAuth(k)) /\ NextAuth(k)' = NextAuth(k)
      /\ \A k : (Decided(k)' <=> Decided(k)) /\ Looks(k)' = Looks(k)
      /\ Entitled' <=> Entitled
  BY <1>1, <1>2 DEF Decided, Conclusive, NextAuth, IsAuth, Looks, IcvLength, Entitled
<1>10. MarksDeserved'
  <2>1. ASSUME NEW k \in authenticated', k > Len(served'), ~IsAuth(k), Decided(k)
        PROVE  Entitled
    BY <1>4, <2>1
  <2> QED BY <1>9, <2>1 DEF MarksDeserved
<1>11. AuthenticationDecides'
  <2> DEFINE Right(k, s) ==
        decoded.tlvs[k].type = Guarded[decoded.type] /\ Decided(k) =>
          /\ s => Entitled
          /\ Entitled => s \/ Mark \in Looks(Min(NextAuth(k)))
  <2>1. ASSUME NEW k \in 1..(n + 1)
        PROVE  Right(k, served'[k])
    <3>1. CASE k = n + 1
      <4>1. Right(n + 1, allowed)
        OBVIOUS
      <4>2. served'[k] = allowed
        BY <1>4, <3>1
      <4> HIDE DEF Right
      <4> QED BY <3>1, <4>1, <4>2
    <3>2. CASE k # n + 1
      <4>1. k \in 1..n /\ DOMAIN served = 1..n
        BY <1>3, <3>2
      <4>2. Right(k, served[k])
        BY <1>1, <4>1 DEF AuthIInv, AuthenticationDecides
      <4>3. served'[k] = served[k]
        BY <1>4, <4>1, Zenon
      <4> HIDE DEF Right
      <4> QED BY <4>2, <4>3, Zenon
    <3> QED BY <3>1, <3>2
  <2>2. \A k \in DOMAIN served' :
          (decoded.tlvs[k].type = Guarded[decoded.type] /\ Decided(k)
           => /\ served[k] => Entitled
              /\ Entitled => served[k] \/ Mark \in Looks(Min(NextAuth(k))))'
    <3> SUFFICES ASSUME NEW k \in DOMAIN served',
                        decoded.tlvs[k].type = Guarded[decoded.type], Decided(k)
                 PROVE  /\ served'[k] => Entitled
                        /\ Entitled => served'[k] \/ Mark \in Looks(Min(NextAuth(k)))
      BY <1>2, <1>9
    <3>1. k \in 1..(n + 1)
      BY <1>4
    <3> QED BY <2>1, <3>1
  <2> QED BY <2>2 DEF AuthenticationDecides
<1>12. Answered'
  BY <1>1, <1>5 DEF Answered
<1> QED BY <1>1, <1>6, <1>7, <1>8, <1>10, <1>11, <1>12, CodecRests DEF AuthIInv

\* The server's handlers.
LEMMA HandleSteps == AuthIInv /\ (HandleGuarded \/ HandleOpen) => AuthIInv'
<1> SUFFICES ASSUME AuthIInv, HandleGuarded \/ HandleOpen PROVE AuthIInv'
  OBVIOUS
<1> DEFINE i == Len(served) + 1
<1>1. /\ Handling /\ stage = "handle" /\ decoded.tlvs \in Seq(FoundTlv)
      /\ i \in DOMAIN decoded.tlvs
      /\ served \in Seq(BOOLEAN) /\ authenticated \subseteq 0..MaxTlv
  <2>1. Handling
    BY DEF HandleGuarded, HandleOpen
  <2>2. /\ decoded.tlvs \in Seq(FoundTlv)
        /\ served \in Seq(BOOLEAN) /\ authenticated \subseteq 0..MaxTlv
    BY DEF AuthIInv, AuthTypeOK, TypeOK
  <2>3. /\ stage = "handle" /\ Len(served) < Len(decoded.tlvs)
    BY <2>1 DEF Handling
  <2>4. i \in DOMAIN decoded.tlvs
    BY <2>2, <2>3
  <2> QED BY <2>1, <2>2, <2>3, <2>4
<1>2. CASE HandleGuarded
  <2>1. PICK allowed \in BOOLEAN :
          /\ CheckAuth(i, allowed)
          /\ Handled(allowed,
               IF decoded.type = "management" THEN <<DescriptionAnswer(allowed)>>
               ELSE IF allowed THEN <<Answer("grant", 0, 1)>> ELSE <<>>)
    BY <1>2 DEF HandleGuarded
  <2> DEFINE answers ==
        IF decoded.type = "management" THEN <<DescriptionAnswer(allowed)>>
        ELSE IF allowed THEN <<Answer("grant", 0, 1)>> ELSE <<>>
  <2>2. /\ answers \in Seq(Tlv) /\ Len(answers) <= 1
        /\ \A k \in DOMAIN answers : answers[k].type # "authentication"
    <3>1. /\ DescriptionAnswer(allowed) \in Tlv
          /\ DescriptionAnswer(allowed).type # "authentication"
      BY DescriptionIsTlv DEF AuthIInv
    <3>2. /\ Answer("grant", 0, 1) \in Tlv
          /\ Answer("grant", 0, 1).type # "authentication"
      <4>1. "grant" \in TlvType /\ 0 \in TextLength \cup {0} /\ 1 \in 0..3
        BY DEF TlvType
      <4>2. Answer("grant", 0, 1) \in Tlv
        BY <4>1, AnswerIsTlv
      <4> QED BY <4>2 DEF Answer
    <3>3. \A t \in Tlv : t.type # "authentication" =>
            /\ <<t>> \in Seq(Tlv) /\ Len(<<t>>) = 1
            /\ \A k \in DOMAIN <<t>> : <<t>>[k].type # "authentication"
      OBVIOUS
    <3> QED BY <3>1, <3>2, <3>3
  <2> HIDE DEF answers
  <2>3. Handled(allowed, answers)
    BY <2>1 DEF answers
  <2>4. ~IsAuth(i)
    <3>1. decoded.tlvs[i].type = Guarded[decoded.type]
      BY <1>2 DEF HandleGuarded
    <3>2. decoded.type \in DOMAIN Guarded
      BY <1>1 DEF AuthIInv, Stages, IInv, Progress
    <3> QED BY <3>1, <3>2 DEF IsAuth, Guarded
  <2>5. /\ Decided(i) =>
             /\ allowed => Entitled
             /\ Entitled => allowed \/ Mark \in Looks(Min(NextAuth(i)))
        /\ authenticated' \subseteq 0..MaxTlv
        /\ \A k \in authenticated' :
             k > i /\ ~IsAuth(k) /\ Decided(k) => Entitled
    BY <1>1, <2>1, <2>4, CheckDecides
  <2> QED BY <1>1, <2>2, <2>3, <2>5, HandledStep
<1>3. CASE HandleOpen
  <2> DEFINE time == decoded.type = "management" /\ decoded.tlvs[i].type = "time"
             answers == IF time THEN <<Answer("time", 0, 0)>> ELSE <<>>
  <2>1. /\ decoded.tlvs[i].type # Guarded[decoded.type]
        /\ Handled(TRUE, answers) /\ authenticated' = authenticated
    BY <1>3 DEF HandleOpen
  <2>2. /\ answers \in Seq(Tlv) /\ Len(answers) <= 1
        /\ \A k \in DOMAIN answers : answers[k].type # "authentication"
    <3>1. /\ Answer("time", 0, 0) \in Tlv
          /\ Answer("time", 0, 0).type # "authentication"
      BY AnswerIsTlv DEF TlvType, Answer
    <3>2. \A t \in Tlv : t.type # "authentication" =>
            /\ <<t>> \in Seq(Tlv) /\ Len(<<t>>) = 1
            /\ \A k \in DOMAIN <<t>> : <<t>>[k].type # "authentication"
      OBVIOUS
    <3> QED BY <3>1, <3>2
  <2> HIDE DEF answers
  <2>3. \A k \in authenticated' :
          k > i /\ ~IsAuth(k) /\ Decided(k) => Entitled
    <3>1. \A k \in authenticated : k > i => k > Len(served)
      BY <1>1
    <3> QED BY <1>1, <2>1, <3>1 DEF AuthIInv, MarksDeserved
  <2> QED BY <1>1, <2>1, <2>2, <2>3, HandledStep
<1> QED BY <1>2, <1>3

\* The reply is built like any message.
LEMMA FinishReplyStep == AuthIInv /\ FinishReply => AuthIInv'
<1> SUFFICES ASSUME AuthIInv, FinishReply PROVE AuthIInv'
  OBVIOUS
<1> DEFINE added == AuthAdded(decoded.type)
<1>1. /\ stage = "handle" /\ Len(served) = Len(decoded.tlvs)
      /\ stage' = "reply"
      /\ message' = [message EXCEPT !.tlvs = reply \o added]
      /\ pc' = "build" /\ head' = 0 /\ packet' = NoPacket
      /\ decoded' = NotDecoded
      /\ icvs' = <<>>
      /\ UNCHANGED <<room, client, entry, authenticated, served, reply>>
  BY DEF FinishReply
<1>2. /\ reply \in Seq(Tlv) /\ Len(reply) <= Len(served)
      /\ Len(decoded.tlvs) <= MaxTlv /\ Len(decoded.tlvs) \in Nat
      /\ MaxTlv \in Nat /\ pc = "decoded" /\ decoded.type = message.type
      /\ message \in [type : MessageType, time : Time, tlvs : Seq(Tlv)]
  BY <1>1, CodecAssumption DEF AuthIInv, AuthTypeOK, TypeOK, Stages, IInv, Progress
<1>3. /\ added \in Seq(Tlv) /\ Len(added) \in {0, 1}
      /\ Len(added) = 1 => Len(reply) < MaxTlv
  BY AuthAddedType
<1> HIDE DEF added
<1>4. /\ message' \in [type : MessageType, time : Time, tlvs : Seq(Tlv)]
      /\ message'.type = message.type
      /\ message'.tlvs = reply \o added
      /\ Len(message'.tlvs) <= MaxTlv
  <2>1. /\ reply \o added \in Seq(Tlv)
        /\ Len(reply \o added) = Len(reply) + Len(added)
        /\ Len(reply) \in Nat
    BY <1>2, <1>3
  <2>2. Len(reply \o added) <= MaxTlv
    <3>1. Len(reply) <= MaxTlv
      BY <1>1, <1>2, <2>1
    <3>2. CASE Len(added) = 0
      BY <2>1, <3>1, <3>2
    <3>3. CASE Len(added) = 1
      BY <1>2, <1>3, <2>1, <3>3
    <3> QED BY <1>3, <3>2, <3>3
  <2>3. message' = [type |-> message.type, time |-> message.time,
                    tlvs |-> reply \o added]
    BY <1>1, <1>2
  <2> QED BY <1>2, <2>1, <2>2, <2>3
<1>5. TypeOK'
  <2>1. packet' \in [type : MessageType,
                     timestamp : [high : Nat, low : Nat, nanoseconds : Nat],
                     tlvs : Seq(WireTlv), length : Nat]
    BY <1>1 DEF NoPacket, MessageType
  <2>2. decoded' \in [type : MessageType, time : Int, clean : BOOLEAN,
                      tlvs : Seq(FoundTlv)]
    BY <1>1 DEF MessageType, NotDecoded
  <2>3. Len(decoded'.tlvs) <= MaxTlv
    BY <1>1, <1>2 DEF NotDecoded
  <2> QED BY <1>1, <1>4, <2>1, <2>2, <2>3 DEF AuthIInv, IInv, TypeOK
<1>6. IInv'
  BY <1>1, <1>5 DEF IInv, PacketAligned, OwnMessagesDecode, Layout, Progress, Sent,
                    NoPacket
<1>7. AuthTypeOK'
  <2>1. icvs' \in Seq(ToSet(icvs')) /\ Len(icvs') <= Len(decoded'.tlvs)
    BY <1>1 DEF NotDecoded
  <2> QED BY <1>1, <1>5, <2>1 DEF AuthIInv, AuthTypeOK
<1>8. Signatures'
  BY <1>1 DEF Signatures, SignedBy
<1>9. Stages'
  BY <1>1, <1>4 DEF AuthIInv, Stages
<1>10. Answered'
  <2>1. AuthAdded(message.type)' = added
    BY <1>1, <1>2, <1>4 DEF AuthAdded, added
  <2> QED BY <1>1, <1>4, <2>1 DEF AuthIInv, Answered
<1> QED BY <1>1, <1>6, <1>7, <1>8, <1>9, <1>10
        DEF AuthIInv, MarksDeserved, AuthenticationDecides

LEMMA AuthStutter == AuthIInv /\ UNCHANGED allVars => AuthIInv'
<1> SUFFICES ASSUME AuthIInv, UNCHANGED allVars PROVE AuthIInv'
  OBVIOUS
<1>1. /\ UNCHANGED <<vars, stage, client, entry, icvs, authenticated, served, reply>>
      /\ UNCHANGED <<pc, message, decoded, packet>>
  BY DEF allVars, authVars, vars
<1>2. AuthTypeOK'
  BY <1>1, CodecRests DEF AuthIInv, AuthTypeOK
<1>3. Signatures' /\ Stages' /\ Answered'
  BY <1>1 DEF AuthIInv, Signatures, SignedBy, IsAuth, IcvOf, Stages, Answered,
              AuthAdded
<1>4. MarksDeserved' /\ AuthenticationDecides'
  <2>1. /\ \A k : (IsAuth(k)' <=> IsAuth(k)) /\ NextAuth(k)' = NextAuth(k)
        /\ \A k : (Decided(k)' <=> Decided(k)) /\ Looks(k)' = Looks(k)
        /\ Entitled' <=> Entitled
    BY <1>1 DEF Decided, Conclusive, NextAuth, IsAuth, Looks, IcvLength, Entitled
  <2> QED BY <1>1, <2>1 DEF AuthIInv, MarksDeserved, AuthenticationDecides
<1> QED BY <1>1, <1>2, <1>3, <1>4, CodecRests DEF AuthIInv

-----------------------------------------------------------------------------
(* The theorems. *)

\* AuthIInv holds in every reachable state.
THEOREM AuthInvariant == AuthSpec => []AuthIInv
<1>1. AuthIInv /\ [AuthNext]_allVars => AuthIInv'
  BY CodecSteps, FinalizeRequestStep, SignSteps, ReceiveStep, HandleSteps,
     FinishReplyStep, AuthStutter DEF AuthNext
<1> QED BY AuthInitInvariant, <1>1, PTL DEF AuthSpec

\* The state has its types, for every choice of the constants.
THEOREM AuthTypeCorrect == AuthSpec => []AuthTypeOK
<1>1. AuthIInv => AuthTypeOK
  BY DEF AuthIInv
<1> QED BY AuthInvariant, <1>1, PTL

\* Encoder and decoder go on in the steps of a request and a reply.
LEMMA AuthSizes == AuthIInv /\ SizesAddUp /\ [AuthNext]_allVars => SizesAddUp'
<1> SUFFICES ASSUME AuthIInv, SizesAddUp, [AuthNext]_allVars PROVE SizesAddUp'
  OBVIOUS
<1>1. IInv
  BY DEF AuthIInv
<1>2. CASE UNCHANGED vars
  BY <1>2, CodecStillSizes
<1>3. CASE AddTlv \/ DecodeHeader \/ DecodeTlv \/ DecodeEnds
  BY <1>3, OtherSizes
<1>4. CASE EncodeHeader \/ EncodeNext \/ EncodePad
  BY <1>1, <1>4, EncodeHeaderSizes, EncodeNextSizes, EncodePadSizes
<1>5. CASE FinishReply
  <2>1. pc' = "build"
    BY <1>5 DEF FinishReply
  <2> QED BY <2>1 DEF SizesAddUp, Summed, RefusedForAReason
<1>6. CASE SignRequest \/ SignReply
  BY <1>2, <1>6 DEF SignRequest, SignReply, Sign
<1>7. CASE HandleGuarded \/ HandleOpen
  BY <1>2, <1>7 DEF HandleGuarded, HandleOpen, Handled
<1>8. CASE FinalizeRequest \/ Receive \/ UNCHANGED allVars
  BY <1>2, <1>8 DEF FinalizeRequest, Receive, allVars
<1> QED BY <1>3, <1>4, <1>5, <1>6, <1>7, <1>8 DEF AuthNext, Code, BuildRequest

\* No request and no reply is refused that fits.
THEOREM RequestsAndRepliesRefusedForAReason == AuthSpec => []RefusedForAReason
<1>1. AuthInit => SizesAddUp
  BY DEF AuthInit, Init, SizesAddUp, Summed, RefusedForAReason
<1>2. SizesAddUp => RefusedForAReason
  BY DEF SizesAddUp
<1> QED BY AuthInvariant, AuthSizes, <1>1, <1>2, PTL DEF AuthSpec

\* Requests and the replies made from them are aligned and decode to what was
\* encoded (as far as RoundTrip says), for clients and for the server.
THEOREM RequestsAndRepliesDecode ==
  AuthSpec => [](PacketAligned /\ OwnMessagesDecode /\ RoundTrip)
<1>1. AuthIInv => PacketAligned /\ OwnMessagesDecode
  BY DEF AuthIInv, IInv
<1>2. AuthIInv => RoundTrip
  BY DecodedIsEncoded DEF AuthIInv
<1> QED BY AuthInvariant, <1>1, <1>2, PTL

\* However many TLVs a request has, of which kinds and in which order, and however
\* long its values are: where the value that decides has its full length, what
\* ptp_security_check_auth lets through is what the policy and secret of the clock
\* allow; and the client is refused only if an earlier check wrote into what it signed.
THEOREM AuthenticationDecidesHolds == AuthSpec => []AuthenticationDecides
<1>1. AuthIInv => AuthenticationDecides
  BY DEF AuthIInv
<1> QED BY AuthInvariant, <1>1, PTL

\* A signed answer verifies, whatever the request was.
THEOREM RepliesVerifyHolds == AuthSpec => []RepliesVerify
<1>1. AuthIInv => RepliesVerify
  <2> SUFFICES ASSUME AuthIInv, stage = "reply", pc = "decoded",
                      Len(icvs) = Len(decoded.tlvs),
                      message.type = "management", entry.policy = "hmac"
               PROVE  \/ Verifies
                      \/ /\ Len(reply) = MaxTlv
                         /\ \A i \in DOMAIN decoded.tlvs : ~IsAuth(i)
    BY DEF RepliesVerify
  <2> DEFINE n == Len(reply)
             m == Len(message.tlvs)
             k == Len(decoded.tlvs)
             added == AuthAdded(message.type)
  <2>1. /\ reply \in Seq(Tlv) /\ n \in Nat /\ n <= MaxTlv /\ MaxTlv \in Nat
        /\ decoded.tlvs \in Seq(FoundTlv) /\ k \in Nat /\ k <= MaxTlv
        /\ icvs \in Seq(ToSet(icvs))
        /\ message.tlvs \in Seq(Tlv) /\ m \in Nat
    <3>1. n <= Len(served) /\ Len(served) <= MaxTlv /\ served \in Seq(BOOLEAN)
      BY DEF AuthIInv, AuthTypeOK
    <3> QED BY <3>1, CodecAssumption DEF AuthIInv, AuthTypeOK, TypeOK
  <2>2. /\ k \in {m, m + 1}
        /\ \A i \in 1..m : decoded.tlvs[i] \in Received(message.tlvs[i])
        /\ \A i \in (m + 1)..k : decoded.tlvs[i].type = "pad"
    BY DecodedIsEncoded DEF AuthIInv, RoundTrip
  <2>3. /\ message.tlvs = reply \o added
        /\ \A i \in 1..n : reply[i].type # "authentication"
    BY <2>1 DEF AuthIInv, Answered
  <2>4. /\ n <= m
        /\ \A i \in 1..n : message.tlvs[i] = reply[i]
    <3>1. added \in Seq(Tlv)
      BY AuthAddedType
    <3> HIDE DEF added
    <3> QED BY <2>1, <2>3, <3>1
  <2>5. \A i \in 1..m : decoded.tlvs[i].type = message.tlvs[i].type
    <3>1. \A t \in Tlv : \A d \in Received(t) : d.type = t.type
      BY DEF Received, Tlv
    <3>2. \A i \in 1..m : message.tlvs[i] \in Tlv
      BY <2>1
    <3> QED BY <2>2, <3>1, <3>2
  <2>6. ASSUME NEW i \in 1..n PROVE ~IsAuth(i)
    <3>1. i \in 1..m
      BY <2>1, <2>4
    <3>2. decoded.tlvs[i].type = reply[i].type
      BY <2>4, <2>5, <3>1
    <3> QED BY <2>3, <3>2 DEF IsAuth
  <2>7. CASE n < MaxTlv
    <3>1. added = <<Answer("authentication", HmacSize, 0)>>
      <4>1. entry.policy \in {"none", "hmac"}
        OBVIOUS
      <4> QED BY <2>7, <4>1, Zenon DEF AuthAdded
    <3>2. m = n + 1 /\ message.tlvs[m] = Answer("authentication", HmacSize, 0)
      <4>1. \A t \in Tlv : message.tlvs = reply \o <<t>> =>
              m = n + 1 /\ message.tlvs[n + 1] = t
        BY <2>1
      <4>2. Answer("authentication", HmacSize, 0) \in Tlv
        BY AuthenticationAssumption, AnswerIsTlv DEF TlvType
      <4>3. message.tlvs = reply \o <<Answer("authentication", HmacSize, 0)>>
        BY <2>3, <3>1
      <4> HIDE DEF m, n
      <4> QED BY <4>1, <4>2, <4>3
    <3>3. m \in 1..m /\ m \in DOMAIN decoded.tlvs /\ m \in DOMAIN icvs
      BY <2>1, <2>2, <3>2
    <3>4. IsAuth(m) /\ decoded.tlvs[m].text = HmacSize
      <4>1. \A t : t.type = "authentication" => Received(t) = {t}
        BY DEF Received
      <4>2. /\ Answer("authentication", HmacSize, 0).type = "authentication"
            /\ Answer("authentication", HmacSize, 0).text = HmacSize
        BY DEF Answer
      <4>3. decoded.tlvs[m] \in Received(message.tlvs[m])
        BY <2>2, <3>3
      <4>4. decoded.tlvs[m] = Answer("authentication", HmacSize, 0)
        BY <3>2, <4>1, <4>2, <4>3
      <4> QED BY <4>2, <4>4 DEF IsAuth
    <3>5. icvs[m] = IcvOf("hmac", "right", m, SubSeq(icvs, 1, m - 1))
      BY <3>3, <3>4 DEF AuthIInv, Signatures, SignedBy
    <3>6. \A i \in 1..(m - 1) : ~IsAuth(i)
      BY <2>1, <2>6, <3>2
    <3> QED BY <3>3, <3>4, <3>5, <3>6 DEF Verifies
  <2>8. CASE ~(n < MaxTlv)
    <3>1. n = MaxTlv /\ m = n /\ k = m
      <4>1. added = <<>>
        BY <2>8 DEF AuthAdded
      <4> QED BY <2>1, <2>2, <2>3, <2>8, <4>1
    <3> QED BY <2>1, <2>6, <3>1
  <2> QED BY <2>7, <2>8
<1> QED BY AuthInvariant, <1>1, PTL
=============================================================================
