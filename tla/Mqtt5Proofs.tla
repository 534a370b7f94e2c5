---------------------------- MODULE Mqtt5Proofs ----------------------------
(***************************************************************************)
(* Three theorems about the client of MQTT 5, for every configuration and  *)
(* any number of calls, connections and messages: a publication of QoS 2   *)
(* is published once, the counter that stops the application counts what   *)
(* is under way, and the types.                                            *)
(*                                                                         *)
(* Both directions of the model are bytes, so the proof begins with the    *)
(* codec: what the client builds, the broker takes apart into messages of  *)
(* the same type, quality of service and identifier, and the other way     *)
(* round (Carries, FromBroker).  The loop over the properties of CONNACK   *)
(* is recursive; only the types of what it finds are needed, and they are  *)
(* shown round by round.  Then the outbox, the stream of what is meant and *)
(* the answers are sequences that grow and shrink (Grown, Shrunk, Emb,     *)
(* Swapped), and the invariant IInv is preserved by every action.  The     *)
(* types add what is acknowledged and counted (Kept5), and that the parser *)
(* of a PUBLISH never leaves the properties that were sent (Spans).        *)
(***************************************************************************)
EXTENDS Mqtt5Client, MqttMsgProofs

---------------------------------------------------------------------------
\* What messages are made of.

\* The buffers have their lengths.
LEMMA OutLengthIs == OutLength \in Nat /\ 16 <= OutLength /\ OutLength <= MaxRemaining
BY Mqtt5MsgAssumption, SMTT(60) DEF MaxRemaining
LEMMA InLengthType == InLength \in Nat /\ InLength <= MaxRemaining
BY Mqtt5ClientAssumption, SMTT(60) DEF MaxRemaining

\* A string has two bytes of length in front.
LEMMA String5 ==
    ASSUME NEW s \in Seq(Nat)
    PROVE  String(s) \in Seq(Nat) /\ Len(String(s)) = 2 + Len(s)
<1>1. Word(Len(s)) \in Seq(Nat) /\ Len(Word(Len(s))) = 2
  BY Word5
<1>2. <<>> \o Word(Len(s)) = Word(Len(s))
  BY <1>1, ConcatEmptySeq, Zenon
<1>3. String(s) = Word(Len(s)) \o s
  BY <1>2, Zenon DEF String, append_string
<1> QED
  BY <1>1, <1>3, Concat5

\* The property values of a fixed width are numbers.
LEMMA BigEndian5 ==
    ASSUME NEW n \in Nat, NEW k \in {1, 2, 4}
    PROVE  BigEndian(n, k) \in Seq(Nat)
<1>1. 256^0 = 1 /\ 256^1 = 256 /\ 256^2 = 65536 /\ 256^3 = 16777216
  BY SMT
<1>2. ASSUME NEW i \in 1..k PROVE (n \div (256 ^ (k - i))) % 256 \in Nat
  <2> DEFINE j == k - i
  <2>1. j \in {0, 1, 2, 3}
    OBVIOUS
  <2> HIDE DEF j
  <2>2. 256 ^ j \in {1, 256, 65536, 16777216}
    <3>1. CASE j = 0
      BY <1>1, <3>1, SMT
    <3>2. CASE j = 1
      BY <1>1, <3>2, SMT
    <3>3. CASE j = 2
      BY <1>1, <3>3, SMT
    <3>4. CASE j = 3
      BY <1>1, <3>4, SMT
    <3> QED
      BY <2>1, <3>1, <3>2, <3>3, <3>4, SMT
  <2> DEFINE w == 256 ^ j
  <2> HIDE DEF w
  <2>3. w \in {1, 256, 65536, 16777216}
    BY <2>2 DEF w
  <2>4. (n \div w) % 256 \in Nat
    BY <2>3
  <2> QED
    BY <2>4 DEF w, j
<1> QED
  BY <1>2 DEF BigEndian

\* The properties that a message of the client or of the broker may have.
PropertyNames ==
    {"payload_format_indicator", "message_expiry_interval", "content_type",
     "response_topic", "correlation_data", "subscribe_identifier",
     "session_expiry_interval", "assigned_client_identifier", "server_keep_alive",
     "request_problem_info", "will_delay_interval", "request_resp_info", "resp_info",
     "server_reference", "reason_string", "receive_maximum", "topic_alias_maximum",
     "topic_alias", "maximum_qos", "retain_available", "user_property",
     "maximum_packet_size", "wildcard_subscr_available", "subscr_identifier_available",
     "shared_subscr_available"}

\* A property has an identifier.
LEMMA PropertyIds ==
    ASSUME NEW name \in PropertyNames
    PROVE  MQTT5_PROPERTY[name] \in Nat
BY DEF PropertyNames, MQTT5_PROPERTY

\* A property of one, two or four bytes.
LEMMA Number5 ==
    ASSUME NEW name \in PropertyNames, NEW k \in {1, 2, 4}, NEW n \in Nat
    PROVE  NumberProperty(name, k, n) \in Seq(Nat)
<1>1. <<MQTT5_PROPERTY[name]>> \in Seq(Nat) /\ <<>> \in Seq(Nat)
  BY PropertyIds
<1>2. BigEndian(n, k) \in Seq(Nat)
  BY BigEndian5
<1>3. <<MQTT5_PROPERTY[name]>> \o BigEndian(n, k) \in Seq(Nat)
  BY <1>1, <1>2
<1> QED
  BY <1>1, <1>3 DEF NumberProperty

\* A property that is a flag.
LEMMA Flag5 ==
    ASSUME NEW name \in PropertyNames, NEW flag
    PROVE  /\ FlagProperty(name, flag) \in Seq(Nat)
           /\ OffProperty(name, flag) \in Seq(Nat)
BY PropertyIds DEF FlagProperty, OffProperty

\* A property whose number takes as many bytes as it needs.
LEMMA Variable5 ==
    ASSUME NEW name \in PropertyNames, NEW n \in Nat
    PROVE  VariableProperty(name, n) \in Seq(Nat)
<1>1. <<MQTT5_PROPERTY[name]>> \in Seq(Nat) /\ <<>> \in Seq(Nat)
  BY PropertyIds
<1>2. EncodedLens(n) \in Seq(Nat)
  BY EncodedLensType, Wide
<1>3. <<MQTT5_PROPERTY[name]>> \o EncodedLens(n) \in Seq(Nat)
  BY <1>1, <1>2
<1> QED
  BY <1>1, <1>3 DEF VariableProperty

\* A property that is a string.
LEMMA StringProperty5 ==
    ASSUME NEW name \in PropertyNames, NEW s \in Seq(Nat)
    PROVE  StringProperty(name, s) \in Seq(Nat)
<1>1. <<MQTT5_PROPERTY[name]>> \in Seq(Nat) /\ <<>> \in Seq(Nat)
  BY PropertyIds
<1>2. String(s) \in Seq(Nat)
  BY String5
<1>3. <<MQTT5_PROPERTY[name]>> \o String(s) \in Seq(Nat)
  BY <1>1, <1>2
<1> QED
  BY <1>1, <1>3 DEF StringProperty

\* The user properties.
LEMMA UserProperties5 ==
    ASSUME NEW list \in Seq(esp_mqtt5_user_property_item_t)
    PROVE  UserProperties(list) \in Seq(Nat)
<1> DEFINE e(i) == <<MQTT5_PROPERTY.user_property>>
                     \o String(list[i].key) \o String(list[i].value)
           s == [i \in DOMAIN list |-> e(i)]
<1>1. ASSUME NEW i \in DOMAIN list PROVE e(i) \in Seq(Nat)
  <2>1. list[i].key \in Seq(Nat) /\ list[i].value \in Seq(Nat)
    <3>1. list[i] \in esp_mqtt5_user_property_item_t
      OBVIOUS
    <3>2. list[i].key \in Seq(Byte) /\ list[i].value \in Seq(Byte)
      BY <3>1 DEF esp_mqtt5_user_property_item_t
    <3> QED
      BY <3>2, Wide, Zenon
  <2>2. String(list[i].key) \in Seq(Nat) /\ String(list[i].value) \in Seq(Nat)
    BY <2>1, String5
  <2>3. MQTT5_PROPERTY.user_property \in Nat
    BY DEF MQTT5_PROPERTY
  <2> QED
    BY <2>2, <2>3
<1> HIDE DEF e
<1>2. DOMAIN list = 1..Len(list) /\ Len(list) \in Nat
  OBVIOUS
<1>3. s \in Seq(Seq(Nat))
  BY <1>1, <1>2
<1> HIDE DEF s
<1>4. FlattenSeq(s) \in Seq(Nat)
  BY <1>3, Flatten5
<1> QED
  BY <1>4 DEF UserProperties, s, e

\* A block of properties with its length in front, in the client and in the
\* broker.
LEMMA Block5 ==
    ASSUME NEW p \in Seq(Nat)
    PROVE  /\ update_property_len_value(p) \in Seq(Nat)
           /\ Block(p) \in Seq(Nat)
<1>1. EncodedLens(Len(p)) \in Seq(Nat)
  BY EncodedLensType, Wide
<1> QED
  BY <1>1 DEF update_property_len_value, Block

---------------------------------------------------------------------------
\* A message and its frame.

\* The broker finds the end of the first message, whatever follows.
LEMMA Framing5 ==
    ASSUME NEW g, NEW b, NEW body, Wire(g, b, body), Len(body) <= MaxRemaining,
           NEW t \in Seq(Nat)
    PROVE  /\ HasMessage(g \o t)
           /\ FirstMessage(g \o t) = g
           /\ AfterFirst(g \o t) = t
<1>1. /\ FixedHeaderLen(g \o t) = LenBytes(Len(body)) + 1
      /\ mqtt_get_total_length(g \o t) = Len(g)
  BY WireHeader
<1>2. g \in Seq(Nat) /\ Len(g) = 1 + LenBytes(Len(body)) + Len(body) /\ Len(body) \in Nat
  BY DEF Wire
<1>3. LenBytes(Len(body)) \in 1..4
  BY <1>2, LenBytesType
<1>4. Len(g \o t) = Len(g) + Len(t) /\ Len(t) \in Nat /\ Len(g) \in Nat
  BY <1>2, Joined5, Zenon DEF Joins5
<1>5. HasMessage(g \o t)
  BY <1>1, <1>2, <1>3, <1>4 DEF HasMessage
<1>6. FirstMessage(g \o t) = g
  BY <1>1, <1>2, Cuts5, Zenon DEF FirstMessage
<1>7. AfterFirst(g \o t) = t
  BY <1>1, <1>2, Cuts5, Zenon DEF AfterFirst
<1> QED
  BY <1>5, <1>6, <1>7

\* The body begins after the length.
LEMMA BodyStart5 ==
    ASSUME NEW g, NEW b, NEW body, Wire(g, b, body)
    PROVE  BodyStart(g, Len(g)) = 1 + LenBytes(Len(body))
<1> DEFINE n == Len(body)
           L == LenBytes(n)
           last == {i \in 0..3 : 1 + i < Len(g) /\ g[1 + i + 1] < 128}
<1>1. n \in Nat /\ L \in 1..4 /\ Len(g) = 1 + L + n
  BY LenBytesType DEF Wire
<1>2. \A k \in 1..L : /\ g[1 + k] \in Nat
                      /\ k < L => g[1 + k] >= 128
                      /\ k = L => g[1 + k] < 128
  <2> TAKE k \in 1..L
  <2>1. g[1 + k] = EncodedLens(n)[k]
    BY DEF Wire
  <2>2. EncodedLens(n)[k] \in Byte
    BY <1>1, DigitsType
  <2>3. /\ k < L => EncodedLens(n)[k] >= 128
        /\ k = L => EncodedLens(n)[k] < 128
    BY <1>1, DigitsType
  <2>4. Byte \subseteq Nat
    BY DEF Byte
  <2> QED
    BY <2>1, <2>2, <2>3, <2>4, Zenon
<1> HIDE DEF L, n
<1>3. L - 1 \in last
  BY <1>1, <1>2
<1>4. \A i \in last : L - 1 <= i
  <2> TAKE i \in last
  <2>1. i \in 0..3 /\ g[1 + i + 1] < 128
    OBVIOUS
  <2>2. SUFFICES ASSUME i < L - 1 PROVE FALSE
    BY <1>1, <2>1
  <2>3. i + 1 \in 1..L /\ i + 1 < L /\ 1 + i + 1 = 1 + (i + 1)
    BY <1>1, <2>1, <2>2
  <2>4. g[1 + (i + 1)] \in Nat /\ g[1 + (i + 1)] >= 128
    BY <1>2, <2>3
  <2> QED
    BY <2>1, <2>3, <2>4
<1>5. last \in SUBSET Nat
  OBVIOUS
<1> HIDE DEF last
<1>6. Min(last) = L - 1
  BY <1>3, <1>4, <1>5, MinIs
<1>7. VariableLenBytes(g, 1, Len(g)) = L
  <2>1. VariableLenBytes(g, 1, Len(g)) = Min(last) + 1
    BY <1>3, Zenon DEF VariableLenBytes, last
  <2> QED
    BY <1>1, <1>6, <2>1
<1>8. BodyStart(g, Len(g)) = 1 + L
  BY <1>7 DEF BodyStart, get_variable_len, VariableLen
<1> QED
  BY <1>8 DEF L, n

---------------------------------------------------------------------------
\* What the broker reads.

\* The messages that begin with an identifier.
Numbered == {"PUBACK", "PUBREC", "PUBREL", "PUBCOMP", "SUBSCRIBE", "UNSUBSCRIBE"}

\* What is read of a message, and what it means: the same type, quality of
\* service and identifier.
Heads(m, r) ==
    /\ m.type = r.type
    /\ r.type = "PUBLISH" => m.qos = r.qos /\ m.id = r.id
    /\ r.type \in Numbered => m.id = r.id

\* g is a message that the broker reads as r.
Carries(g, r) ==
    /\ \E b, body : Wire(g, b, body) /\ Len(body) <= MaxRemaining
    /\ \A topics : Heads(Reading(g, topics), r)

\* The message types have four bits.
LEMMA Codes ==
    /\ CONNECT \in 0..15 /\ PUBLISH \in 0..15 /\ SUBSCRIBE \in 0..15
    /\ UNSUBSCRIBE \in 0..15 /\ DISCONNECT \in 0..15 /\ CONNACK \in 0..15
    /\ SUBACK \in 0..15 /\ UNSUBACK \in 0..15
    /\ 0 \in 0..15 /\ 2 \in 0..15
BY DEF CONNECT, PUBLISH, SUBSCRIBE, UNSUBSCRIBE, DISCONNECT, CONNACK, SUBACK, UNSUBACK

\* The type of a message of the client decides how it is read.
ReadsSo(g, type, at) == \A topics : Reading(g, topics) = ReadingAt(g, type, at, topics)

\* The broker reads the type and the flags of a message, and where its body
\* begins.
LEMMA ReadsTypeAt ==
    ASSUME NEW g, NEW type \in 0..15, NEW flags \in 0..15, NEW body,
           Wire(g, 16 * type + flags, body)
    PROVE  ReadsSo(g, type, 1 + LenBytes(Len(body)))
<1>1. g[1] = 16 * type + flags
  BY DEF Wire
<1>2. mqtt_get_type(g) = type
  BY <1>1, FirstByte5
<1>3. BodyStart(g, Len(g)) = 1 + LenBytes(Len(body))
  BY BodyStart5
<1> QED
  BY <1>2, <1>3 DEF Reading, ReadsSo

\* What the broker makes of CONNECT.
LEMMA ReadsConnect ==
    ASSUME NEW g, NEW body, Wire(g, 16 * CONNECT + 0, body), Len(body) <= MaxRemaining,
           NEW r, r.type = "CONNECT"
    PROVE  Carries(g, r)
<1>1. ASSUME NEW topics PROVE Reading(g, topics).type = "CONNECT"
  <2>9. ReadsSo(g, CONNECT, 1 + LenBytes(Len(body)))
    BY ReadsTypeAt, Codes, Zenon
  <2>1. Reading(g, topics) = ReadingAt(g, CONNECT, 1 + LenBytes(Len(body)), topics)
    BY <2>9, Zenon DEF ReadsSo
  <2>2. ReadingAt(g, CONNECT, 1 + LenBytes(Len(body)), topics).type = "CONNECT"
    BY Zenon DEF ReadingAt, ReadConnect, ReadConnectId, ReadConnectWill, ReadConnectAt
  <2> QED
    BY <2>1, <2>2, Zenon
<1> QED
  BY <1>1 DEF Carries, Heads, Numbered

\* ... of DISCONNECT,
LEMMA ReadsDisconnect ==
    ASSUME NEW g, NEW body, Wire(g, 16 * DISCONNECT + 0, body), Len(body) <= MaxRemaining,
           NEW r, r.type = "DISCONNECT"
    PROVE  Carries(g, r)
<1>1. ASSUME NEW topics PROVE Reading(g, topics).type = "DISCONNECT"
  <2>9. ReadsSo(g, DISCONNECT, 1 + LenBytes(Len(body)))
    BY ReadsTypeAt, Codes, Zenon
  <2>1. Reading(g, topics) = ReadingAt(g, DISCONNECT, 1 + LenBytes(Len(body)), topics)
    BY <2>9, Zenon DEF ReadsSo
  <2>2. ReadingAt(g, DISCONNECT, 1 + LenBytes(Len(body)), topics)
          = ReadDisconnect(g, 1 + LenBytes(Len(body)))
    BY DEF ReadingAt, CONNECT, PUBLISH, SUBSCRIBE, UNSUBSCRIBE, DISCONNECT
  <2>3. ReadDisconnect(g, 1 + LenBytes(Len(body))).type = "DISCONNECT"
    BY Zenon DEF ReadDisconnect, ReadDisconnectAt
  <2> QED
    BY <2>1, <2>2, <2>3, Zenon
<1> QED
  BY <1>1 DEF Carries, Heads, Numbered

\* The identifier in front of a body.
LEMMA IdInFront ==
    ASSUME NEW g, NEW b, NEW id \in Nat, NEW rest \in Seq(Nat),
           Wire(g, b, Word(id) \o rest)
    PROVE  WordAt(g, 1 + LenBytes(Len(Word(id) \o rest))) = id
<1> DEFINE body == Word(id) \o rest
           w == Word(id)
           h == 1 + LenBytes(Len(body))
<1>1. w \in Seq(Nat) /\ Len(w) = 2 /\ 256 * w[1] + w[2] = id
  BY Word5
<1>2. Joins5(body, w, rest)
  BY <1>1, Joined5
<1>3. Wire(g, b, body)
  OBVIOUS
<1>8. Len(body) \in Nat
  BY <1>2, Zenon DEF Joins5
<1>4. h \in Nat
  <2>1. LenBytes(Len(body)) \in 1..4
    BY <1>8, LenBytesType
  <2> QED
    BY <2>1
<1>9. \A j \in 1..Len(body) : g[h + j] = body[j]
  BY <1>3, Zenon DEF Wire
<1> HIDE DEF body, w, h
<1>5. body[1] = w[1] /\ body[2] = w[2] /\ Len(body) >= 2
  BY <1>1, <1>2 DEF Joins5
<1>6. g[h + 1] = body[1] /\ g[h + 2] = body[2]
  BY <1>5, <1>8, <1>9
<1>7. WordAt(g, h) = id
  BY <1>1, <1>5, <1>6 DEF WordAt
<1> QED
  BY <1>7 DEF h, body

\* The types of the answers of the client.
AckCode == [PUBACK |-> 4, PUBREC |-> 5, PUBREL |-> 6, PUBCOMP |-> 7]

\* The names of the answers and their types.
LEMMA AckName ==
    ASSUME NEW name \in DOMAIN AckCode
    PROVE  /\ AckTypes[name] = AckCode[name] /\ AckCode[name] \in {4, 5, 6, 7}
           /\ (CHOOSE n \in DOMAIN AckTypes : AckTypes[n] = AckCode[name]) = name
<1>1. DOMAIN AckTypes = {"PUBACK", "PUBREC", "PUBREL", "PUBCOMP"}
  BY DEF AckTypes
<1>2. DOMAIN AckCode = {"PUBACK", "PUBREC", "PUBREL", "PUBCOMP"}
  BY DEF AckCode
<1>3. /\ AckTypes["PUBACK"] = 4 /\ AckTypes["PUBREC"] = 5
      /\ AckTypes["PUBREL"] = 6 /\ AckTypes["PUBCOMP"] = 7
  BY DEF AckTypes, PUBACK, PUBREC, PUBREL, PUBCOMP
<1>4. /\ AckCode["PUBACK"] = 4 /\ AckCode["PUBREC"] = 5
      /\ AckCode["PUBREL"] = 6 /\ AckCode["PUBCOMP"] = 7
  BY DEF AckCode
<1>5. \A n \in DOMAIN AckTypes : AckTypes[n] = AckCode[name] <=> n = name
  BY <1>1, <1>2, <1>3, <1>4
<1> QED
  BY <1>1, <1>2, <1>3, <1>4, <1>5

\* ... of PUBACK, PUBREC, PUBREL and PUBCOMP,
LEMMA ReadsAck5 ==
    ASSUME NEW g, NEW name \in DOMAIN AckCode, NEW flags \in 0..15, NEW id \in Nat,
           NEW rest \in Seq(Nat), Wire(g, 16 * AckCode[name] + flags, Word(id) \o rest),
           Len(Word(id) \o rest) <= MaxRemaining,
           NEW r, r.type = name, r.id = id
    PROVE  Carries(g, r)
<1> DEFINE h == 1 + LenBytes(Len(Word(id) \o rest))
           type == AckCode[name]
<1>1. WordAt(g, h) = id
  BY IdInFront
<1>2. type \in {4, 5, 6, 7} /\ (CHOOSE n \in DOMAIN AckTypes : AckTypes[n] = type) = name
  BY AckName
<1> HIDE DEF h
<1>3. ASSUME NEW topics
      PROVE  Reading(g, topics).type = name /\ Reading(g, topics).id = id
  <2>0. type \in 0..15
    BY <1>2
  <2>9. ReadsSo(g, type, h)
    BY <2>0, ReadsTypeAt, Zenon DEF h
  <2>1. Reading(g, topics) = ReadingAt(g, type, h, topics)
    BY <2>9, Zenon DEF ReadsSo
  <2> HIDE DEF type
  <2>4. ReadingAt(g, type, h, topics)
          = ReadAck(g, h, CHOOSE n \in DOMAIN AckTypes : AckTypes[n] = type)
    BY <1>2 DEF ReadingAt, CONNECT, PUBLISH, SUBSCRIBE, UNSUBSCRIBE, DISCONNECT,
                PUBACK, PUBREC, PUBREL, PUBCOMP
  <2>2. ReadingAt(g, type, h, topics) = ReadAck(g, h, name)
    BY <1>2, <2>4, Zenon
  <2>3. ReadAck(g, h, name).type = name /\ ReadAck(g, h, name).id = WordAt(g, h)
    BY Zenon DEF ReadAck
  <2> QED
    BY <1>1, <2>1, <2>2, <2>3, Zenon
<1>4. name # "PUBLISH"
  BY DEF AckCode
<1> QED
  BY <1>3, <1>4 DEF Carries, Heads

\* ... of SUBSCRIBE,
LEMMA ReadsSubscribe ==
    ASSUME NEW g, NEW id \in Nat, NEW rest \in Seq(Nat),
           Wire(g, 16 * SUBSCRIBE + 2, Word(id) \o rest), Len(Word(id) \o rest) <= MaxRemaining,
           NEW r, r.type = "SUBSCRIBE", r.id = id
    PROVE  Carries(g, r)
<1> DEFINE h == 1 + LenBytes(Len(Word(id) \o rest))
<1>1. WordAt(g, h) = id
  BY IdInFront
<1> HIDE DEF h
<1>3. ASSUME NEW topics
      PROVE  Reading(g, topics).type = "SUBSCRIBE" /\ Reading(g, topics).id = id
  <2>9. ReadsSo(g, SUBSCRIBE, h)
    BY ReadsTypeAt, Codes, Zenon DEF h
  <2>1. Reading(g, topics) = ReadingAt(g, SUBSCRIBE, h, topics)
    BY <2>9, Zenon DEF ReadsSo
  <2>2. ReadingAt(g, SUBSCRIBE, h, topics) = ReadSubscribe(g, h)
    BY DEF ReadingAt, CONNECT, PUBLISH, SUBSCRIBE
  <2>3. ReadSubscribe(g, h).type = "SUBSCRIBE" /\ ReadSubscribe(g, h).id = WordAt(g, h)
    BY Zenon DEF ReadSubscribe, ReadSubscribeFilter, ReadSubscribeAt
  <2> QED
    BY <1>1, <2>1, <2>2, <2>3, Zenon
<1> QED
  BY <1>3 DEF Carries, Heads

\* ... of UNSUBSCRIBE,
LEMMA ReadsUnsubscribe ==
    ASSUME NEW g, NEW id \in Nat, NEW rest \in Seq(Nat),
           Wire(g, 16 * UNSUBSCRIBE + 2, Word(id) \o rest), Len(Word(id) \o rest) <= MaxRemaining,
           NEW r, r.type = "UNSUBSCRIBE", r.id = id
    PROVE  Carries(g, r)
<1> DEFINE h == 1 + LenBytes(Len(Word(id) \o rest))
<1>1. WordAt(g, h) = id
  BY IdInFront
<1> HIDE DEF h
<1>3. ASSUME NEW topics
      PROVE  Reading(g, topics).type = "UNSUBSCRIBE" /\ Reading(g, topics).id = id
  <2>9. ReadsSo(g, UNSUBSCRIBE, h)
    BY ReadsTypeAt, Codes, Zenon DEF h
  <2>1. Reading(g, topics) = ReadingAt(g, UNSUBSCRIBE, h, topics)
    BY <2>9, Zenon DEF ReadsSo
  <2>2. ReadingAt(g, UNSUBSCRIBE, h, topics) = ReadUnsubscribe(g, h)
    BY DEF ReadingAt, CONNECT, PUBLISH, SUBSCRIBE, UNSUBSCRIBE
  <2>3. ReadUnsubscribe(g, h).type = "UNSUBSCRIBE" /\ ReadUnsubscribe(g, h).id = WordAt(g, h)
    BY Zenon DEF ReadUnsubscribe
  <2> QED
    BY <1>1, <2>1, <2>2, <2>3, Zenon
<1> QED
  BY <1>3 DEF Carries, Heads

\* What begins with a topic and, if qos is not 0, an identifier.
TopicAndId(body, topic, qos, id) ==
    /\ topic \in Seq(Nat)
    /\ Len(body) >= 2 + Len(topic) + IdLen(qos)
    /\ 256 * body[1] + body[2] = Len(topic)
    /\ qos > 0 => 256 * body[3 + Len(topic)] + body[4 + Len(topic)] = id

\* ... and of PUBLISH: its quality of service and its identifier.
LEMMA ReadsPublish5 ==
    ASSUME NEW g, NEW flags \in 0..15, NEW body,
           Wire(g, 16 * PUBLISH + flags, body), Len(body) <= MaxRemaining,
           NEW topic, NEW qos \in 0..2, qos = (flags \div 2) % 4,
           NEW id, TopicAndId(body, topic, qos, id),
           NEW r, r.type = "PUBLISH", r.qos = qos, r.id = IF qos > 0 THEN id ELSE 0
    PROVE  Carries(g, r)
<1> DEFINE h == 1 + LenBytes(Len(body))
           T == Len(topic)
<1>1. body \in Seq(Nat) /\ Len(body) \in Nat /\ h \in Nat /\ T \in Nat
  <2>1. body \in Seq(Nat) /\ topic \in Seq(Nat)
    BY DEF Wire, TopicAndId
  <2>2. Len(body) \in Nat /\ T \in Nat
    BY <2>1
  <2>3. LenBytes(Len(body)) \in 1..4
    BY <2>2, LenBytesType
  <2> QED
    BY <2>1, <2>2, <2>3
<1>2. \A j \in 1..Len(body) : g[h + j] = body[j]
  BY DEF Wire
<1>3. Len(body) >= 2 + T /\ (qos > 0 => Len(body) >= 4 + T)
  BY <1>1 DEF TopicAndId, IdLen
<1> HIDE DEF h
<1>4. WordAt(g, h) = T
  <2>1. g[h + 1] = body[1] /\ g[h + 2] = body[2]
    BY <1>1, <1>2, <1>3
  <2> QED
    BY <2>1, Zenon DEF WordAt, TopicAndId
<1>5. StringEnd(g, h) = h + 2 + T
  BY <1>4 DEF StringEnd
<1>6. qos > 0 => WordAt(g, h + 2 + T) = id
  <2> SUFFICES ASSUME qos > 0 PROVE WordAt(g, h + 2 + T) = id
    OBVIOUS
  <2>1. g[h + 2 + T + 1] = body[3 + T] /\ g[h + 2 + T + 2] = body[4 + T]
    <3>1. 3 + T \in 1..Len(body) /\ 4 + T \in 1..Len(body)
      BY <1>1, <1>3
    <3>2. h + 2 + T + 1 = h + (3 + T) /\ h + 2 + T + 2 = h + (4 + T)
      BY <1>1
    <3> QED
      BY <1>2, <3>1, <3>2
  <2> QED
    BY <2>1, Zenon DEF WordAt, TopicAndId
<1>7. mqtt_get_qos(g) = qos
  <2>1. g[1] = 16 * PUBLISH + flags
    BY DEF Wire
  <2>2. \A t \in 0..15 : g[1] = 16 * t + flags => mqtt_get_qos(g) = (flags \div 2) % 4
    BY FirstByte5
  <2>3. PUBLISH \in 0..15
    BY Codes
  <2> QED
    BY <2>1, <2>2, <2>3
<1>8. ASSUME NEW topics
      PROVE  /\ Reading(g, topics).type = "PUBLISH"
             /\ Reading(g, topics).qos = qos
             /\ Reading(g, topics).id = IF qos > 0 THEN id ELSE 0
  <2> DEFINE block == StringEnd(g, h) + (IF qos > 0 THEN 2 ELSE 0)
  <2>9. ReadsSo(g, PUBLISH, h)
    BY ReadsTypeAt, Codes, Zenon DEF h
  <2>1. Reading(g, topics) = ReadingAt(g, PUBLISH, h, topics)
    BY <2>9, Zenon DEF ReadsSo
  <2>2. ReadingAt(g, PUBLISH, h, topics) = ReadPublish(g, h, qos, topics)
    BY <1>7 DEF ReadingAt, CONNECT, PUBLISH
  <2>3. ReadPublish(g, h, qos, topics) = ReadPublishAt(g, h, qos, block, topics)
    BY DEF ReadPublish
  <2>4. qos > 0 => block - 2 = h + 2 + T
    BY <1>1, <1>5
  <2> HIDE DEF block
  <2>5. LET m == ReadPublishAt(g, h, qos, block, topics)
        IN /\ m.type = "PUBLISH" /\ m.qos = qos
           /\ m.id = IF qos > 0 THEN WordAt(g, block - 2) ELSE 0
    BY Zenon DEF ReadPublishAt, PublishRead
  <2>6. qos > 0 => WordAt(g, block - 2) = id
    BY <1>6, <2>4, Zenon
  <2> QED
    BY <2>1, <2>2, <2>3, <2>5, <2>6, Zenon
<1> QED
  BY <1>8 DEF Carries, Heads, Numbered

---------------------------------------------------------------------------
\* What the client builds.

\* The properties that are used are properties.
LEMMA Names ==
    /\ "session_expiry_interval" \in PropertyNames /\ "maximum_packet_size" \in PropertyNames
    /\ "receive_maximum" \in PropertyNames /\ "topic_alias_maximum" \in PropertyNames
    /\ "request_resp_info" \in PropertyNames /\ "request_problem_info" \in PropertyNames
    /\ "will_delay_interval" \in PropertyNames /\ "payload_format_indicator" \in PropertyNames
    /\ "message_expiry_interval" \in PropertyNames /\ "content_type" \in PropertyNames
    /\ "response_topic" \in PropertyNames /\ "correlation_data" \in PropertyNames
    /\ "topic_alias" \in PropertyNames /\ "subscribe_identifier" \in PropertyNames
    /\ "reason_string" \in PropertyNames /\ "retain_available" \in PropertyNames
    /\ "assigned_client_identifier" \in PropertyNames
    /\ "wildcard_subscr_available" \in PropertyNames
    /\ "subscr_identifier_available" \in PropertyNames
    /\ "shared_subscr_available" \in PropertyNames /\ "server_keep_alive" \in PropertyNames
    /\ "resp_info" \in PropertyNames /\ "server_reference" \in PropertyNames
BY DEF PropertyNames

\* A string of the application is one of numbers.
LEMMA Strings5 ==
    ASSUME NEW s \in Seq(Byte)
    PROVE  s \in Seq(Nat) /\ String(s) \in Seq(Nat)
BY Wide, String5

\* The properties of CONNECT.
LEMMA ConnectProperties5 ==
    ASSUME NEW p \in esp_mqtt5_connection_property_storage_t
    PROVE  ConnectProperties(p) \in Seq(Nat)
<1>1. /\ p.session_expiry_interval \in Nat /\ p.maximum_packet_size \in Nat
      /\ p.receive_maximum \in Nat /\ p.topic_alias_maximum \in Nat
      /\ p.user_property \in Seq(esp_mqtt5_user_property_item_t)
  BY DEF esp_mqtt5_connection_property_storage_t
<1>2. 2 \in {1, 2, 4} /\ 4 \in {1, 2, 4}
  OBVIOUS
<1>3. NumberProperty("session_expiry_interval", 4, p.session_expiry_interval) \in Seq(Nat)
  BY <1>1, <1>2, Names, Number5, Zenon
<1>4. NumberProperty("maximum_packet_size", 4, p.maximum_packet_size) \in Seq(Nat)
  BY <1>1, <1>2, Names, Number5, Zenon
<1>5. NumberProperty("receive_maximum", 2, p.receive_maximum) \in Seq(Nat)
  BY <1>1, <1>2, Names, Number5, Zenon
<1>6. NumberProperty("topic_alias_maximum", 2, p.topic_alias_maximum) \in Seq(Nat)
  BY <1>1, <1>2, Names, Number5, Zenon
<1>7. FlagProperty("request_resp_info", p.request_resp_info) \in Seq(Nat)
  BY Names, Flag5, Zenon
<1>8. FlagProperty("request_problem_info", p.request_problem_info) \in Seq(Nat)
  BY Names, Flag5, Zenon
<1>9. UserProperties(p.user_property) \in Seq(Nat)
  BY <1>1, UserProperties5, Zenon
<1> QED
  BY <1>3, <1>4, <1>5, <1>6, <1>7, <1>8, <1>9, Seven5, Zenon DEF ConnectProperties

\* ... of the will.
LEMMA WillProperties5 ==
    ASSUME NEW p \in esp_mqtt5_connection_will_property_storage_t
    PROVE  WillProperties(p) \in Seq(Nat)
<1>1. /\ p.will_delay_interval \in Nat /\ p.message_expiry_interval \in Nat
      /\ p.content_type \in Seq(Byte) /\ p.response_topic \in Seq(Byte)
      /\ p.correlation_data \in Seq(Byte)
      /\ p.user_property \in Seq(esp_mqtt5_user_property_item_t)
  BY DEF esp_mqtt5_connection_will_property_storage_t
<1>2. 2 \in {1, 2, 4} /\ 4 \in {1, 2, 4}
  OBVIOUS
<1>3. NumberProperty("will_delay_interval", 4, p.will_delay_interval) \in Seq(Nat)
  BY <1>1, <1>2, Names, Number5, Zenon
<1>4. FlagProperty("payload_format_indicator", p.payload_format_indicator) \in Seq(Nat)
  BY Names, Flag5, Zenon
<1>5. NumberProperty("message_expiry_interval", 4, p.message_expiry_interval) \in Seq(Nat)
  BY <1>1, <1>2, Names, Number5, Zenon
<1>6. StringProperty("content_type", p.content_type) \in Seq(Nat)
  BY <1>1, Names, Strings5, StringProperty5, Zenon
<1>7. StringProperty("response_topic", p.response_topic) \in Seq(Nat)
  BY <1>1, Names, Strings5, StringProperty5, Zenon
<1>8. StringProperty("correlation_data", p.correlation_data) \in Seq(Nat)
  BY <1>1, Names, Strings5, StringProperty5, Zenon
<1>9. UserProperties(p.user_property) \in Seq(Nat)
  BY <1>1, UserProperties5, Zenon
<1> QED
  BY <1>3, <1>4, <1>5, <1>6, <1>7, <1>8, <1>9, Seven5, Zenon DEF WillProperties

\* The information of a connection, with an identifier from the broker.
Info5 ==
    [client_id : Seq(Nat), keepalive : Nat, clean_session : BOOLEAN,
     will_topic : Seq(Byte), will_message : Seq(Byte), will_qos : 0..2,
     will_retain : BOOLEAN, username : Seq(Byte), password : Seq(Byte)]

\* What Finished builds, if it does not fail.
LEMMA Finished5 ==
    ASSUME NEW type \in 0..15, NEW qos \in 0..1, NEW rest \in Seq(Nat),
           Finished(type, qos, rest) # Failed
    PROVE  /\ Wire(Finished(type, qos, rest), 16 * type + 2 * qos, rest)
           /\ Len(rest) <= MaxRemaining
<1>1. Fits(rest) /\ Finished(type, qos, rest) = fini_message(type, qos, rest)
  BY DEF Finished
<1>2. Len(rest) \in Nat /\ Len(rest) <= MaxRemaining
  <2>1. 5 + Len(rest) <= OutLength
    BY <1>1, Zenon DEF Fits, MQTT5_MAX_FIXED_HEADER_SIZE
  <2>2. Len(rest) \in Nat
    OBVIOUS
  <2>3. OutLength \in Nat /\ OutLength <= MaxRemaining
    BY OutLengthIs, Zenon
  <2>4. \A n \in Nat : 5 + n <= OutLength => n <= MaxRemaining
    BY <2>3 DEF MaxRemaining
  <2> QED
    BY <2>1, <2>2, <2>4, Zenon
<1>3. 16 * type + 2 * qos \in Nat
  OBVIOUS
<1>4. Wire(<<16 * type + 2 * qos>> \o EncodedLens(Len(rest)) \o rest, 16 * type + 2 * qos, rest)
  BY <1>3, WireOf, Zenon
<1> QED
  BY <1>1, <1>2, <1>4 DEF fini_message

\* CONNECT, if it fits the buffer, is read as CONNECT (mqtt5_msg_connect).
LEMMA ConnectCarries ==
    ASSUME NEW i \in Info5, NEW p \in esp_mqtt5_connection_property_storage_t,
           NEW w \in esp_mqtt5_connection_will_property_storage_t, NEW r, r.type = "CONNECT",
           mqtt5_msg_connect(i, p, w) # Failed
    PROVE  Carries(mqtt5_msg_connect(i, p, w), r)
<1>1. /\ i.client_id \in Seq(Nat) /\ i.keepalive \in Nat /\ i.will_qos \in Nat
      /\ i.will_topic \in Seq(Byte) /\ i.will_message \in Seq(Byte)
      /\ i.username \in Seq(Byte) /\ i.password \in Seq(Byte)
  BY DEF Info5
<1> DEFINE start == <<0, 4, 77, 81, 84, 84, 5, ConnectFlags(i)>>
           block == update_property_len_value(ConnectProperties(p))
           id == String(i.client_id)
           will == IF i.will_topic = <<>> THEN <<>>
                   ELSE update_property_len_value(WillProperties(w))
                          \o String(i.will_topic) \o String(i.will_message)
           user == IF i.username = <<>> /\ i.password = <<>> THEN <<>>
                   ELSE String(i.username)
           pass == IF i.password = <<>> THEN <<>> ELSE String(i.password)
           rest == start \o Word(i.keepalive) \o block \o id \o will \o user \o pass
<1>2. ConnectFlags(i) \in Nat
  <2> DEFINE a == IF i.clean_session THEN 2 ELSE 0
             q == i.will_qos
             e == IF i.will_retain THEN 32 ELSE 0
             b == IF i.will_topic = <<>> THEN 0 ELSE 4 + (8 * q) + e
             c == IF i.username # <<>> \/ i.password # <<>> THEN 128 ELSE 0
             d == IF i.password # <<>> THEN 64 ELSE 0
  <2>1. a \in Nat /\ c \in Nat /\ d \in Nat
    OBVIOUS
  <2>2. b \in Nat
    <3>1. q \in Nat
      BY <1>1, Zenon
    <3>2. e \in Nat
      OBVIOUS
    <3> HIDE DEF q, e
    <3>3. 4 + (8 * q) + e \in Nat
      BY <3>1, <3>2
    <3> QED
      BY <3>3
  <2>3. ConnectFlags(i) = a + b + c + d
    BY Zenon DEF ConnectFlags
  <2> HIDE DEF a, b, c, d
  <2> QED
    BY <2>1, <2>2, <2>3
<1>3. start \in Seq(Nat)
  BY <1>2
<1>4. Word(i.keepalive) \in Seq(Nat)
  BY <1>1, Word5
<1>5. block \in Seq(Nat)
  BY ConnectProperties5, Block5
<1>6. id \in Seq(Nat)
  BY <1>1, String5
<1>7. will \in Seq(Nat)
  <2>1. String(i.will_topic) \in Seq(Nat) /\ String(i.will_message) \in Seq(Nat)
    BY <1>1, Strings5, Zenon
  <2>2. update_property_len_value(WillProperties(w)) \in Seq(Nat)
    BY WillProperties5, Block5
  <2>3. update_property_len_value(WillProperties(w))
          \o String(i.will_topic) \o String(i.will_message) \in Seq(Nat)
    BY <2>1, <2>2, Concat5
  <2> QED
    BY <2>3, Empty5
<1>8. user \in Seq(Nat) /\ pass \in Seq(Nat)
  BY <1>1, Strings5, Empty5
<1>9. mqtt5_msg_connect(i, p, w) = Finished(CONNECT, 0, rest)
  BY Zenon DEF mqtt5_msg_connect
<1> HIDE DEF start, block, id, will, user, pass
<1>10. rest \in Seq(Nat)
  BY <1>3, <1>4, <1>5, <1>6, <1>7, <1>8, Seven5, Zenon
<1> HIDE DEF rest
<1>11. /\ Wire(Finished(CONNECT, 0, rest), 16 * CONNECT + 2 * 0, rest)
       /\ Len(rest) <= MaxRemaining
  <2>1. CONNECT \in 0..15 /\ 0 \in 0..1
    BY Codes
  <2> QED
    BY <1>9, <1>10, <2>1, Finished5, Zenon
<1>12. 16 * CONNECT + 2 * 0 = 16 * CONNECT + 0
  OBVIOUS
<1> QED
  BY <1>9, <1>11, <1>12, ReadsConnect, Zenon

\* DISCONNECT, likewise (mqtt5_msg_disconnect).
LEMMA DisconnectCarries ==
    ASSUME NEW p \in esp_mqtt5_disconnect_property_config_t, NEW r, r.type = "DISCONNECT",
           mqtt5_msg_disconnect(p) # Failed
    PROVE  Carries(mqtt5_msg_disconnect(p), r)
<1>1. /\ p.disconnect_reason \in Nat /\ p.session_expiry_interval \in Nat
      /\ p.user_property \in Seq(esp_mqtt5_user_property_item_t)
  <2>1. p.disconnect_reason \in Byte
    BY DEF esp_mqtt5_disconnect_property_config_t
  <2>2. Byte \subseteq Nat
    BY DEF Byte
  <2>3. /\ p.session_expiry_interval \in Nat
        /\ p.user_property \in Seq(esp_mqtt5_user_property_item_t)
    BY DEF esp_mqtt5_disconnect_property_config_t
  <2> QED
    BY <2>1, <2>2, <2>3, Zenon
<1> DEFINE n == NumberProperty("session_expiry_interval", 4, p.session_expiry_interval)
           u == UserProperties(p.user_property)
           rest == <<p.disconnect_reason>> \o update_property_len_value(n \o u)
<1>2. n \in Seq(Nat)
  <2>1. 4 \in {1, 2, 4}
    OBVIOUS
  <2> QED
    BY <1>1, <2>1, Names, Number5, Zenon
<1>3. u \in Seq(Nat)
  BY <1>1, UserProperties5, Zenon
<1>4. n \o u \in Seq(Nat)
  BY <1>2, <1>3, Concat5, Zenon
<1>5. update_property_len_value(n \o u) \in Seq(Nat)
  BY <1>4, Block5, Zenon
<1>6. <<p.disconnect_reason>> \in Seq(Nat)
  BY <1>1
<1>7. rest \in Seq(Nat)
  BY <1>5, <1>6, Concat5, Zenon
<1>9. mqtt5_msg_disconnect(p) = Finished(DISCONNECT, 0, rest)
  BY Zenon DEF mqtt5_msg_disconnect
<1> HIDE DEF rest
<1>11. /\ Wire(Finished(DISCONNECT, 0, rest), 16 * DISCONNECT + 2 * 0, rest)
       /\ Len(rest) <= MaxRemaining
  <2>1. DISCONNECT \in 0..15 /\ 0 \in 0..1
    BY Codes
  <2> QED
    BY <1>9, <1>7, <2>1, Finished5, Zenon
<1>12. 16 * DISCONNECT + 2 * 0 = 16 * DISCONNECT + 0
  OBVIOUS
<1> QED
  BY <1>9, <1>11, <1>12, ReadsDisconnect, Zenon

\* The filter of a shared subscription.
LEMMA Shared5 ==
    ASSUME NEW p, NEW filter \in Seq(Byte), p.share_name \in Seq(Byte)
    PROVE  String(SharedTopic(p, filter)) \in Seq(Nat)
<1>1. filter \in Seq(Nat) /\ p.share_name \in Seq(Nat)
  BY Wide
<1>2. <<36, 115, 104, 97, 114, 101, 47>> \in Seq(Nat) /\ <<47>> \in Seq(Nat)
  OBVIOUS
<1>3. <<36, 115, 104, 97, 114, 101, 47>> \o p.share_name \in Seq(Nat)
  BY <1>1, <1>2, Concat5, Zenon
<1>4. <<36, 115, 104, 97, 114, 101, 47>> \o p.share_name \o <<47>> \in Seq(Nat)
  BY <1>2, <1>3, Concat5, Zenon
<1>5. <<36, 115, 104, 97, 114, 101, 47>> \o p.share_name \o <<47>> \o filter \in Seq(Nat)
  BY <1>1, <1>4, Concat5, Zenon
<1>6. SharedTopic(p, filter) \in Seq(Nat)
  BY <1>1, <1>5, Zenon DEF SharedTopic
<1> QED
  BY <1>6, String5, Zenon

\* UNSUBSCRIBE, likewise, with its identifier (mqtt5_msg_unsubscribe).
LEMMA UnsubscribeCarries ==
    ASSUME NEW p \in esp_mqtt5_unsubscribe_property_config_t, NEW filter \in Seq(Byte),
           NEW id \in Nat, NEW r, r.type = "UNSUBSCRIBE", r.id = id,
           mqtt5_msg_unsubscribe(filter, id, p) # Failed
    PROVE  Carries(mqtt5_msg_unsubscribe(filter, id, p), r)
<1>1. /\ p.user_property \in Seq(esp_mqtt5_user_property_item_t)
      /\ p.share_name \in Seq(Byte)
  BY DEF esp_mqtt5_unsubscribe_property_config_t
<1> DEFINE block == update_property_len_value(UserProperties(p.user_property))
           s == String(SharedTopic(p, filter))
           tail == block \o s
           rest == Word(id) \o block \o s
<1>2. block \in Seq(Nat)
  BY <1>1, UserProperties5, Block5, Zenon
<1>3. s \in Seq(Nat)
  BY <1>1, Shared5, Zenon
<1>4. Word(id) \in Seq(Nat)
  BY Word5
<1>5. mqtt5_msg_unsubscribe(filter, id, p) = Finished(UNSUBSCRIBE, 1, rest)
  BY Zenon DEF mqtt5_msg_unsubscribe
<1> HIDE DEF block, s
<1>6. tail \in Seq(Nat) /\ rest = Word(id) \o tail
  <2>1. tail \in Seq(Nat)
    BY <1>2, <1>3, Concat5, Zenon
  <2>2. rest = Word(id) \o tail
    BY <1>2, <1>3, <1>4, Assoc5, Zenon
  <2> QED
    BY <2>1, <2>2
<1>7. Word(id) \o tail \in Seq(Nat)
  BY <1>4, <1>6, Concat5
<1> HIDE DEF rest, tail
<1>11. /\ Wire(Finished(UNSUBSCRIBE, 1, Word(id) \o tail), 16 * UNSUBSCRIBE + 2 * 1,
               Word(id) \o tail)
       /\ Len(Word(id) \o tail) <= MaxRemaining
  <2>1. UNSUBSCRIBE \in 0..15 /\ 1 \in 0..1
    BY Codes
  <2> QED
    BY <1>5, <1>6, <1>7, <2>1, Finished5, Zenon
<1>12. 16 * UNSUBSCRIBE + 2 * 1 = 16 * UNSUBSCRIBE + 2
  OBVIOUS
<1> QED
  BY <1>5, <1>6, <1>11, <1>12, ReadsUnsubscribe, Zenon

\* SUBSCRIBE, likewise, with its identifier (mqtt5_msg_subscribe).
LEMMA SubscribeCarries ==
    ASSUME NEW p \in esp_mqtt5_subscribe_property_config_t, NEW filter \in Seq(Byte),
           NEW qos \in 0..2,
           NEW id \in Nat, NEW r, r.type = "SUBSCRIBE", r.id = id,
           NEW m, m = mqtt5_msg_subscribe(<<[filter |-> filter, qos |-> qos]>>, id, p),
           m # Failed
    PROVE  Carries(m, r)
<1> DEFINE list == <<[filter |-> filter, qos |-> qos]>>
<1>1. /\ p.user_property \in Seq(esp_mqtt5_user_property_item_t)
      /\ p.share_name \in Seq(Byte)
      /\ p.subscribe_id \in Nat /\ p.retain_handle \in Nat
  BY DEF esp_mqtt5_subscribe_property_config_t
<1> DEFINE v == VariableProperty("subscribe_identifier", p.subscribe_id)
           u == UserProperties(p.user_property)
           block == update_property_len_value(v \o u)
           x == String(SharedTopic(p, filter)) \o <<SubscribeOptions(p, qos)>>
           f == FlattenSeq([i \in DOMAIN list |->
                    String(SharedTopic(p, list[i].filter)) \o <<SubscribeOptions(p, list[i].qos)>>])
           tail == block \o f
           rest == Word(id) \o block \o f
<1>2. block \in Seq(Nat)
  <2>1. v \in Seq(Nat)
    BY <1>1, Names, Variable5, Zenon
  <2>2. u \in Seq(Nat)
    BY <1>1, UserProperties5, Zenon
  <2> QED
    BY <2>1, <2>2, Concat5, Block5, Zenon
<1>3. x \in Seq(Nat)
  <2>1. String(SharedTopic(p, filter)) \in Seq(Nat)
    BY <1>1, Shared5, Zenon
  <2>2. SubscribeOptions(p, qos) \in Nat
    BY <1>1 DEF SubscribeOptions
  <2>3. <<SubscribeOptions(p, qos)>> \in Seq(Nat)
    BY <2>2
  <2> QED
    BY <2>1, <2>3, Concat5, Zenon
<1>4. f \in Seq(Nat)
  <2>1. DOMAIN list = {1} /\ list[1] = [filter |-> filter, qos |-> qos]
    OBVIOUS
  <2>2. list[1].filter = filter /\ list[1].qos = qos
    BY <2>1
  <2> HIDE DEF list
  <2> DEFINE e == [i \in DOMAIN list |->
                    String(SharedTopic(p, list[i].filter)) \o <<SubscribeOptions(p, list[i].qos)>>]
  <2>3. e = [i \in {1} |-> x]
    BY <2>1, <2>2, Zenon
  <2> HIDE DEF x, e
  <2>4. e = <<x>>
    BY <2>3
  <2>5. FlattenSeq(e) \in Seq(Nat)
    BY <1>3, <2>4, Single, Zenon
  <2> QED
    BY <2>5 DEF e
<1>5. Word(id) \in Seq(Nat)
  BY Word5
<1>6. m = Finished(SUBSCRIBE, 1, rest)
  BY Zenon DEF mqtt5_msg_subscribe
<1> HIDE DEF block, f, x
<1>7. tail \in Seq(Nat) /\ rest = Word(id) \o tail
  <2>1. tail \in Seq(Nat)
    BY <1>2, <1>4, Concat5, Zenon
  <2>2. rest = Word(id) \o tail
    BY <1>2, <1>4, <1>5, Assoc5, Zenon
  <2> QED
    BY <2>1, <2>2
<1>8. Word(id) \o tail \in Seq(Nat)
  BY <1>5, <1>7, Concat5
<1> HIDE DEF rest, tail
<1>11. /\ Wire(Finished(SUBSCRIBE, 1, Word(id) \o tail), 16 * SUBSCRIBE + 2 * 1,
               Word(id) \o tail)
       /\ Len(Word(id) \o tail) <= MaxRemaining
  <2>1. SUBSCRIBE \in 0..15 /\ 1 \in 0..1
    BY Codes
  <2> QED
    BY <1>6, <1>7, <1>8, <2>1, Finished5, Zenon
<1>12. 16 * SUBSCRIBE + 2 * 1 = 16 * SUBSCRIBE + 2
  OBVIOUS
<1> QED
  BY <1>6, <1>7, <1>11, <1>12, ReadsSubscribe, Zenon

\* An acknowledgment fits every buffer.
LEMMA AckCarries ==
    ASSUME NEW name \in DOMAIN AckCode, NEW qos \in 0..1, NEW id \in Nat,
           NEW r, r.type = name, r.id = id
    PROVE  /\ Carries(Acknowledges(AckCode[name], qos, id), r)
           /\ Acknowledges(AckCode[name], qos, id) # Failed
<1> DEFINE type == AckCode[name]
           block == update_property_len_value(<<>>)
           tail == <<0>> \o block
           rest == Word(id) \o <<0>> \o block
<1>1. type \in {4, 5, 6, 7}
  BY AckName
<1>2. block \in Seq(Nat) /\ Len(block) <= 4
  <2>1. EncodedLens(0) \in Seq(Nat) /\ Len(EncodedLens(0)) = LenBytes(0) /\ LenBytes(0) \in 1..4
    BY EncodedLensType, LenBytesType, Wide
  <2>2. Len(<<>>) = 0
    OBVIOUS
  <2>3. block = EncodedLens(0) \o <<>>
    BY <2>2, Zenon DEF update_property_len_value
  <2>4. block = EncodedLens(0)
    BY <2>1, <2>3, ConcatEmptySeq
  <2> QED
    BY <2>1, <2>4
<1>3. Word(id) \in Seq(Nat) /\ Len(Word(id)) = 2 /\ <<0>> \in Seq(Nat) /\ Len(<<0>>) = 1
  BY Word5
<1>4. Acknowledges(type, qos, id) = Finished(type, qos, rest)
  BY Zenon DEF Acknowledges
<1> HIDE DEF block
<1>5. tail \in Seq(Nat) /\ Len(tail) = 1 + Len(block) /\ rest = Word(id) \o tail
  BY <1>2, <1>3, Concat5, Assoc5
<1>6. Word(id) \o tail \in Seq(Nat) /\ Len(Word(id) \o tail) = 3 + Len(block)
  <2> HIDE DEF rest, tail
  <2>1. Word(id) \o tail \in Seq(Nat) /\ Len(Word(id) \o tail) = Len(Word(id)) + Len(tail)
    BY <1>3, <1>5, Concat5, Zenon
  <2>2. Len(block) \in Nat
    BY <1>2
  <2> QED
    BY <1>3, <1>5, <2>1, <2>2
<1> HIDE DEF rest, tail
<1>7. Fits(rest)
  <2>1. Len(block) \in Nat /\ Len(block) <= 4
    BY <1>2, Len5, Zenon
  <2>2. Len(rest) = 3 + Len(block)
    BY <1>5, <1>6, Zenon
  <2>4. \A k \in Nat : k <= 4 => 5 + (3 + k) <= OutLength
    BY OutLengthIs
  <2>3. 5 + Len(rest) <= OutLength
    BY <2>1, <2>2, <2>4, Zenon
  <2> QED
    BY <2>3 DEF Fits, MQTT5_MAX_FIXED_HEADER_SIZE
<1>8. Finished(type, qos, rest) # Failed
  <2>1. Finished(type, qos, rest) = <<16 * type + 2 * qos>> \o EncodedLens(Len(rest)) \o rest
    BY <1>7 DEF Finished, fini_message
  <2>2. Wire(<<16 * type + 2 * qos>> \o EncodedLens(Len(rest)) \o rest, 16 * type + 2 * qos, rest)
    <3>1. 16 * type + 2 * qos \in Nat
      BY <1>1
    <3>2. rest \in Seq(Nat)
      BY <1>5, <1>6, Zenon
    <3> QED
      BY <3>1, <3>2, WireOf, Zenon
  <2>3. Len(Finished(type, qos, rest)) = 1 + LenBytes(Len(rest)) + Len(rest)
    BY <2>1, <2>2, Zenon DEF Wire
  <2>4. Len(rest) \in Nat
    BY <1>5, <1>6
  <2>5. LenBytes(Len(rest)) \in 1..4
    BY <2>4, LenBytesType
  <2>6. Len(Failed) = 0
    BY DEF Failed
  <2> QED
    BY <2>3, <2>4, <2>5, <2>6
<1>9. Wire(Finished(type, qos, rest), 16 * type + 2 * qos, rest) /\ Len(rest) <= MaxRemaining
  <2>1. type \in 0..15
    BY <1>1
  <2> QED
    BY <1>5, <1>6, <1>8, <2>1, Finished5, Zenon
<1>10. 2 * qos \in 0..15
  OBVIOUS
<1>11. Carries(Finished(type, qos, rest), r)
  BY <1>5, <1>9, <1>10, ReadsAck5, Zenon
<1> QED
  BY <1>4, <1>8, <1>11, Zenon

\* The four short messages, with their identifiers (mqtt5_msg_puback and the
\* others).
LEMMA AcksCarry ==
    ASSUME NEW id \in Nat
    PROVE  /\ Carries(mqtt5_msg_puback(id), Ack("PUBACK", id))
           /\ Carries(mqtt5_msg_pubrec(id), Ack("PUBREC", id))
           /\ Carries(mqtt5_msg_pubrel(id), Ack("PUBREL", id))
           /\ Carries(mqtt5_msg_pubcomp(id), Ack("PUBCOMP", id))
           /\ mqtt5_msg_pubrel(id) # Failed
<1>1. \A name \in DOMAIN AckCode : Ack(name, id).type = name /\ Ack(name, id).id = id
  BY DEF Ack
<1>2. "PUBACK" \in DOMAIN AckCode /\ "PUBREC" \in DOMAIN AckCode
      /\ "PUBREL" \in DOMAIN AckCode /\ "PUBCOMP" \in DOMAIN AckCode
      /\ AckCode["PUBACK"] = 4 /\ AckCode["PUBREC"] = 5
      /\ AckCode["PUBREL"] = 6 /\ AckCode["PUBCOMP"] = 7
  BY DEF AckCode
<1>3. 0 \in 0..1 /\ 1 \in 0..1
  OBVIOUS
<1>4. mqtt5_msg_puback(id) = Acknowledges(AckCode["PUBACK"], 0, id)
  BY <1>2 DEF mqtt5_msg_puback, PUBACK
<1>5. mqtt5_msg_pubrec(id) = Acknowledges(AckCode["PUBREC"], 0, id)
  BY <1>2 DEF mqtt5_msg_pubrec, PUBREC
<1>6. mqtt5_msg_pubrel(id) = Acknowledges(AckCode["PUBREL"], 1, id)
  BY <1>2 DEF mqtt5_msg_pubrel, PUBREL
<1>7. mqtt5_msg_pubcomp(id) = Acknowledges(AckCode["PUBCOMP"], 0, id)
  BY <1>2 DEF mqtt5_msg_pubcomp, PUBCOMP
<1>8. Carries(mqtt5_msg_puback(id), Ack("PUBACK", id))
  BY <1>1, <1>2, <1>3, <1>4, AckCarries, Zenon
<1>9. Carries(mqtt5_msg_pubrec(id), Ack("PUBREC", id))
  BY <1>1, <1>2, <1>3, <1>5, AckCarries, Zenon
<1>10. Carries(mqtt5_msg_pubrel(id), Ack("PUBREL", id)) /\ mqtt5_msg_pubrel(id) # Failed
  BY <1>1, <1>2, <1>3, <1>6, AckCarries, ZenonT(30)
<1>11. Carries(mqtt5_msg_pubcomp(id), Ack("PUBCOMP", id))
  BY <1>1, <1>2, <1>3, <1>7, AckCarries, Zenon
<1> QED
  BY <1>8, <1>9, <1>10, <1>11

\* A PUBLISH with what r says of its quality of service and its identifier.
PublishWire(g, r) ==
    \E flags, body, topic, id :
        /\ flags \in 0..15 /\ Wire(g, 16 * PUBLISH + flags, body) /\ Len(body) <= MaxRemaining
        /\ r.type = "PUBLISH" /\ r.qos \in 0..2 /\ r.qos = (flags \div 2) % 4
        /\ r.id = IF r.qos > 0 THEN id ELSE 0
        /\ TopicAndId(body, topic, r.qos, id)

\* A PUBLISH that says what it means is read as it.
LEMMA PublishCarries ==
    ASSUME NEW g, NEW r, PublishWire(g, r)
    PROVE  Carries(g, r)
<1>1. PICK flags, body, topic, id :
        /\ flags \in 0..15 /\ Wire(g, 16 * PUBLISH + flags, body) /\ Len(body) <= MaxRemaining
        /\ r.type = "PUBLISH" /\ r.qos \in 0..2 /\ r.qos = (flags \div 2) % 4
        /\ r.id = IF r.qos > 0 THEN id ELSE 0
        /\ TopicAndId(body, topic, r.qos, id)
  BY Zenon DEF PublishWire
<1>0. flags \in 0..15
  BY <1>1, Zenon
<1> USE <1>0
<1> DEFINE qos == r.qos
<1>2. /\ qos \in 0..2 /\ qos = (flags \div 2) % 4 /\ r.qos = qos
      /\ r.id = IF qos > 0 THEN id ELSE 0
      /\ TopicAndId(body, topic, qos, id)
  BY <1>1, Zenon
<1> HIDE DEF qos
<1> QED
  BY <1>1, <1>2, ReadsPublish5, Zenon

\* The flag of mqtt_set_dup does not change what it says.
LEMMA DupCarries ==
    ASSUME NEW g, NEW r, PublishWire(g, r), ~Bit(g[1], 8)
    PROVE  PublishWire([g EXCEPT ![1] = @ + 8], r)
<1>1. PICK flags, body, topic, id :
        /\ flags \in 0..15 /\ Wire(g, 16 * PUBLISH + flags, body) /\ Len(body) <= MaxRemaining
        /\ r.type = "PUBLISH" /\ r.qos \in 0..2 /\ r.qos = (flags \div 2) % 4
        /\ r.id = IF r.qos > 0 THEN id ELSE 0
        /\ TopicAndId(body, topic, r.qos, id)
  BY Zenon DEF PublishWire
<1>0. flags \in 0..15
  BY <1>1, Zenon
<1> USE <1>0
<1> DEFINE h == [g EXCEPT ![1] = @ + 8]
           L == LenBytes(Len(body))
<1>2. /\ body \in Seq(Nat) /\ g \in Seq(Nat) /\ Len(g) = 1 + L + Len(body)
      /\ g[1] = 16 * PUBLISH + flags
      /\ \A k \in 1..L : g[1 + k] = EncodedLens(Len(body))[k]
      /\ \A j \in 1..Len(body) : g[1 + L + j] = body[j]
  BY <1>1 DEF Wire
<1>3. Len(body) \in Nat /\ L \in 1..4
  <2>1. Len(body) \in Nat
    BY <1>2, Len5, Zenon
  <2> QED
    BY <2>1, LenBytesType
<1>4. flags < 8 /\ flags + 8 \in 0..15 /\ (flags \div 2) % 4 = ((flags + 8) \div 2) % 4
  <2>1. ~(((48 + flags) \div 8) % 2 = 1)
    BY <1>2 DEF Bit, PUBLISH
  <2>2. flags < 8
    BY <2>1, SMT
  <2>3. \A n \in 0..7 : (n \div 2) % 4 = ((n + 8) \div 2) % 4
    BY SMT
  <2> QED
    BY <2>2, <2>3
<1>5. /\ h \in Seq(Nat) /\ Len(h) = Len(g) /\ h[1] = g[1] + 8
      /\ \A i \in 1..Len(g) : i # 1 => h[i] = g[i]
  <2>1. Len(g) \in Nat /\ Len(g) >= 1
    BY <1>2, <1>3
  <2>2. g[1] \in Nat
    BY <1>2, <2>1
  <2> QED
    BY <1>2, <2>1, <2>2
<1> HIDE DEF h, L
<1>6. ASSUME NEW k \in 1..L PROVE h[1 + k] = EncodedLens(Len(body))[k]
  <2>1. 1 + k \in 1..Len(g) /\ 1 + k # 1
    BY <1>2, <1>3
  <2>2. h[1 + k] = g[1 + k]
    BY <1>5, <2>1, Zenon
  <2> QED
    BY <1>2, <2>2, Zenon
<1>7. ASSUME NEW j \in 1..Len(body) PROVE h[1 + L + j] = body[j]
  <2>1. 1 + L + j \in 1..Len(g) /\ 1 + L + j # 1
    BY <1>2, <1>3
  <2>2. h[1 + L + j] = g[1 + L + j]
    BY <1>5, <2>1, Zenon
  <2> QED
    BY <1>2, <2>2, Zenon
<1>8. h[1] = 16 * PUBLISH + (flags + 8) /\ 16 * PUBLISH + (flags + 8) \in Nat
  BY <1>2, <1>5 DEF PUBLISH
<1>9. Wire(h, 16 * PUBLISH + (flags + 8), body)
  BY <1>2, <1>5, <1>6, <1>7, <1>8, Zenon DEF Wire, L
<1>10. r.qos = ((flags + 8) \div 2) % 4
  BY <1>1, <1>4, Zenon
<1>11. PublishWire(h, r)
  BY <1>1, <1>4, <1>9, <1>10, Zenon DEF PublishWire
<1> QED
  BY <1>11 DEF h

\* What the header of a PUBLISH is, after the first byte and the length.
PublishHeader(topic, qos, id, property, rinfo) ==
    append_string(<<>>, topic)
      \o (IF qos > 0 THEN Word(id) ELSE <<>>)
      \o update_property_len_value(PublishProperties(property, rinfo))

\* The response topic, with what the server said to put in front of it.
LEMMA ResponseTopic5 ==
    ASSUME NEW topic \in Seq(Nat), NEW rinfo \in Seq(Nat)
    PROVE  ResponseTopic(topic, rinfo) \in Seq(Nat)
<1> DEFINE s == topic \o <<47>> \o rinfo
           n == Len(topic) + Len(rinfo)
<1>1. <<47>> \in Seq(Nat) /\ <<0>> \in Seq(Nat) /\ Len(<<47>>) = 1
  OBVIOUS
<1>2. topic \o <<47>> \in Seq(Nat) /\ Len(topic \o <<47>>) = Len(topic) + 1
  BY <1>1, Concat5
<1>3. s \in Seq(Nat) /\ Len(s) = Len(topic) + 1 + Len(rinfo)
  BY <1>2, Concat5
<1>4. n \in Nat /\ n <= Len(s)
  <2>1. Len(topic) \in Nat /\ Len(rinfo) \in Nat
    BY Len5
  <2> QED
    BY <1>3, <2>1
<1> HIDE DEF s, n
<1>5. SubSeq(s, 1, n) \in Seq(Nat)
  <2>1. \A i \in 1..n : s[i] \in Nat
    <3>1. \A i \in 1..Len(s) : s[i] \in Nat
      BY <1>3, ElementOfSeq
    <3>2. Len(s) \in Nat
      BY <1>3, Len5
    <3> QED
      BY <1>4, <3>1, <3>2
  <2>2. 1 \in Int /\ n \in Int
    BY <1>4
  <2> QED
    BY <2>1, <2>2, SubSeqProperties, Zenon
<1>6. SubSeq(s, 1, n) \o <<0>> \in Seq(Nat)
  BY <1>1, <1>5, Concat5, Zenon
<1> QED
  BY <1>6, Zenon DEF ResponseTopic, s, n

\* The properties of PUBLISH.
LEMMA PublishProperties5 ==
    ASSUME NEW p \in esp_mqtt5_publish_property_config_t, NEW rinfo \in Seq(Nat)
    PROVE  PublishProperties(p, rinfo) \in Seq(Nat)
<1>1. /\ p.message_expiry_interval \in Nat /\ p.topic_alias \in Nat
      /\ p.content_type \in Seq(Byte) /\ p.response_topic \in Seq(Byte)
      /\ p.correlation_data \in Seq(Byte)
      /\ p.user_property \in Seq(esp_mqtt5_user_property_item_t)
  BY DEF esp_mqtt5_publish_property_config_t
<1>2. 2 \in {1, 2, 4} /\ 4 \in {1, 2, 4}
  OBVIOUS
<1>3. FlagProperty("payload_format_indicator", p.payload_format_indicator) \in Seq(Nat)
  BY Names, Flag5, Zenon
<1>4. NumberProperty("message_expiry_interval", 4, p.message_expiry_interval) \in Seq(Nat)
  BY <1>1, <1>2, Names, Number5, Zenon
<1>5. NumberProperty("topic_alias", 2, p.topic_alias) \in Seq(Nat)
  BY <1>1, <1>2, Names, Number5, Zenon
<1>6. StringProperty("response_topic", ResponseTopic(p.response_topic, rinfo)) \in Seq(Nat)
  BY <1>1, Names, Strings5, ResponseTopic5, StringProperty5, Zenon
<1>7. StringProperty("correlation_data", p.correlation_data) \in Seq(Nat)
  BY <1>1, Names, Strings5, StringProperty5, Zenon
<1>8. UserProperties(p.user_property) \in Seq(Nat)
  BY <1>1, UserProperties5, Zenon
<1>9. StringProperty("content_type", p.content_type) \in Seq(Nat)
  BY <1>1, Names, Strings5, StringProperty5, Zenon
<1> QED
  BY <1>3, <1>4, <1>5, <1>6, <1>7, <1>8, <1>9, Seven5, ZenonT(30) DEF PublishProperties

\* The identifier of a PUBLISH, which QoS 0 has not.
LEMMA IdPart ==
    ASSUME NEW qos, NEW id \in Nat, NEW b, b = IF qos > 0 THEN Word(id) ELSE <<>>
    PROVE  b \in Seq(Nat) /\ Len(b) = IdLen(qos) /\ (qos > 0 => 256 * b[1] + b[2] = id)
<1>1. Word(id) \in Seq(Nat) /\ Len(Word(id)) = 2
      /\ 256 * Word(id)[1] + Word(id)[2] = id
  BY Word5
<1>2. CASE qos > 0
  <2>1. b = Word(id) /\ IdLen(qos) = 2
    BY <1>2, Zenon DEF IdLen
  <2> QED
    BY <1>1, <2>1, Zenon
<1>3. CASE ~(qos > 0)
  <2>1. b = <<>> /\ IdLen(qos) = 0
    BY <1>3, Zenon DEF IdLen
  <2> QED
    BY <1>3, <2>1, Empty5, Zenon
<1> QED
  BY <1>2, <1>3, Zenon

\* The topic and the identifier stand at the front of a PUBLISH.
LEMMA Header5 ==
    ASSUME NEW p \in esp_mqtt5_publish_property_config_t, NEW rinfo \in Seq(Nat),
           NEW topic \in Seq(Nat), NEW qos \in 0..2, NEW id \in Nat
    PROVE  /\ PublishHeader(topic, qos, id, p, rinfo) \in Seq(Nat)
           /\ TopicAndId(PublishHeader(topic, qos, id, p, rinfo), topic, qos, id)
<1> DEFINE w == Word(Len(topic))
           a == append_string(<<>>, topic)
           b == IF qos > 0 THEN Word(id) ELSE <<>>
           c == update_property_len_value(PublishProperties(p, rinfo))
           u == a \o b \o c
           T == Len(topic)
<1>1. T \in Nat
  BY Len5
<1>2. w \in Seq(Nat) /\ Len(w) = 2 /\ 256 * w[1] + w[2] = T
  BY <1>1, Word5
<1>3. a = w \o topic
  <2>1. <<>> \o w = w
    BY <1>2, ConcatEmptySeq
  <2> QED
    BY <2>1, Zenon DEF append_string
<1>4. b \in Seq(Nat) /\ Len(b) = IdLen(qos) /\ (qos > 0 => 256 * b[1] + b[2] = id)
  BY IdPart, Zenon
<1>5. c \in Seq(Nat)
  BY PublishProperties5, Block5, Zenon
<1>6. Joins5(a, w, topic)
  BY <1>2, <1>3, Joined5, Zenon
<1> HIDE DEF w, a, b, c, T
<1>7. a \in Seq(Nat) /\ Len(a) = 2 + T /\ a[1] = w[1] /\ a[2] = w[2]
  BY <1>2, <1>6 DEF Joins5, T
<1>8. Joins3(u, a, b, c)
  BY <1>4, <1>5, <1>7, Three5, Zenon
<1> HIDE DEF u
<1>9. /\ u \in Seq(Nat) /\ Len(u) = 2 + T + IdLen(qos) + Len(c) /\ Len(c) \in Nat
      /\ \A i \in 1..(2 + T) : u[i] = a[i]
      /\ \A i \in 1..IdLen(qos) : u[2 + T + i] = b[i]
  BY <1>4, <1>5, <1>7, <1>8, Len5, Zenon DEF Joins3
<1>10. u[1] = w[1] /\ u[2] = w[2]
  BY <1>1, <1>7, <1>9
<1>11. qos > 0 => u[3 + T] = b[1] /\ u[4 + T] = b[2]
  <2> SUFFICES ASSUME qos > 0 PROVE u[3 + T] = b[1] /\ u[4 + T] = b[2]
    OBVIOUS
  <2>1. IdLen(qos) = 2
    BY DEF IdLen
  <2>2. u[2 + T + 1] = b[1] /\ u[2 + T + 2] = b[2]
    BY <1>9, <2>1
  <2>3. 2 + T + 1 = 3 + T /\ 2 + T + 2 = 4 + T
    BY <1>1
  <2> QED
    BY <2>2, <2>3, Zenon
<1>12. Len(u) >= 2 + T + IdLen(qos)
  <2>1. IdLen(qos) \in Nat
    BY DEF IdLen
  <2> QED
    BY <1>1, <1>9, <2>1
<1>13. TopicAndId(u, topic, qos, id)
  BY <1>2, <1>4, <1>10, <1>11, <1>12, Zenon DEF TopicAndId, T
<1>14. PublishHeader(topic, qos, id, p, rinfo) = u
  BY Zenon DEF PublishHeader, u, a, b, c
<1> QED
  BY <1>9, <1>13, <1>14, Zenon

\* The data after the header do not change that.
LEMMA HeaderAndData ==
    ASSUME NEW header \in Seq(Nat), NEW topic \in Seq(Nat), NEW qos \in 0..2, NEW id,
           TopicAndId(header, topic, qos, id), NEW data \in Seq(Nat)
    PROVE  /\ header \o data \in Seq(Nat)
           /\ Len(header \o data) = Len(header) + Len(data)
           /\ TopicAndId(header \o data, topic, qos, id)
<1> DEFINE u == header \o data
           T == Len(topic)
<1>1. Joins5(u, header, data)
  BY Joined5, Zenon
<1>2. T \in Nat /\ IdLen(qos) \in Nat
  BY Len5 DEF IdLen
<1>3. Len(header) >= 2 + T + IdLen(qos)
  BY Zenon DEF TopicAndId
<1> HIDE DEF u, T
<1>4. /\ u \in Seq(Nat) /\ Len(u) = Len(header) + Len(data)
      /\ Len(header) \in Nat /\ Len(data) \in Nat
      /\ \A i \in 1..Len(header) : u[i] = header[i]
  BY <1>1 DEF Joins5
<1>5. u[1] = header[1] /\ u[2] = header[2]
  <2>1. 1 \in 1..Len(header) /\ 2 \in 1..Len(header)
    <3> DEFINE l == IdLen(qos)
               n == Len(header)
    <3>1. T \in Nat /\ l \in Nat /\ n \in Nat /\ n >= 2 + T + l
      BY <1>2, <1>3, <1>4, Zenon
    <3> HIDE DEF l, n
    <3> QED
      BY <3>1 DEF n
  <2> QED
    BY <1>4, <2>1, Zenon
<1>6. qos > 0 => u[3 + T] = header[3 + T] /\ u[4 + T] = header[4 + T]
  <2> SUFFICES ASSUME qos > 0 PROVE u[3 + T] = header[3 + T] /\ u[4 + T] = header[4 + T]
    OBVIOUS
  <2>1. IdLen(qos) = 2
    BY DEF IdLen
  <2>2. 3 + T \in 1..Len(header) /\ 4 + T \in 1..Len(header)
    BY <1>2, <1>3, <1>4, <2>1
  <2> QED
    BY <1>4, <2>2, Zenon
<1>7. Len(u) >= 2 + T + IdLen(qos)
  BY <1>2, <1>3, <1>4
<1>8. TopicAndId(u, topic, qos, id)
  BY <1>5, <1>6, <1>7, Zenon DEF TopicAndId, T
<1> QED
  BY <1>4, <1>8 DEF u

\* An offset below 0 acts as 0 does.
LEMMA NotNegativeIs ==
    ASSUME NEW x \in Int
    PROVE  /\ NotNegative(x) \in Nat
           /\ x >= 0 => NotNegative(x) = x
           /\ x <= 0 => NotNegative(x) = 0
<1> DEFINE S == {0, x}
           P(m) == m \in S /\ \A y \in S : m >= y
<1>1. CASE x >= 0
  <2>1. P(x) /\ \A m : P(m) => m = x
    BY <1>1
  <2>2. Max(S) = x
    BY <2>1 DEF Max
  <2> QED
    BY <1>1, <2>2 DEF NotNegative
<1>2. CASE x < 0
  <2>1. P(0) /\ \A m : P(m) => m = 0
    BY <1>2
  <2>2. Max(S) = 0
    BY <2>1 DEF Max
  <2> QED
    BY <1>2, <2>2 DEF NotNegative
<1> QED
  BY <1>1, <1>2

\* What fits goes out with the header; what does not goes out after it.
LEMMA TwoParts ==
    ASSUME NEW data \in Seq(Nat), NEW room \in Nat, room <= Len(data)
    PROVE  /\ SubSeq(data, 1, room) \in Seq(Nat) /\ Len(SubSeq(data, 1, room)) = room
           /\ SubSeq(data, room + 1, Len(data)) \in Seq(Nat)
           /\ SubSeq(data, 1, room) \o SubSeq(data, room + 1, Len(data)) = data
<1> DEFINE s == SubSeq(data, 1, room)
           t == SubSeq(data, room + 1, Len(data))
<1>1. /\ s \in Seq(Nat) /\ Len(s) = room
      /\ \A i \in 1..room : s[i] = data[i]
  OBVIOUS
<1>2. /\ t \in Seq(Nat) /\ Len(t) = Len(data) - room
      /\ \A i \in 1..(Len(data) - room) : t[i] = data[room + i]
  <2>1. Len(data) \in Nat
    OBVIOUS
  <2> QED
    BY <2>1
<1> HIDE DEF s, t
<1>3. /\ s \o t \in Seq(Nat) /\ Len(s \o t) = Len(data)
      /\ \A i \in 1..Len(s) : (s \o t)[i] = s[i]
      /\ \A i \in 1..Len(t) : (s \o t)[Len(s) + i] = t[i]
  <2>1. Len(data) \in Nat
    OBVIOUS
  <2>2. Joins5(s \o t, s, t)
    BY <1>1, <1>2, Joined5, Zenon
  <2>3. room + (Len(data) - room) = Len(data)
    BY <2>1
  <2>4. Len(s) + Len(t) = Len(data)
    BY <1>1, <1>2, <2>3, Zenon
  <2> QED
    BY <2>2, <2>4, Zenon DEF Joins5
<1>4. \A i \in 1..Len(data) : (s \o t)[i] = data[i]
  <2> TAKE i \in 1..Len(data)
  <2>1. CASE i <= room
    <3>1. i \in 1..room /\ i \in 1..Len(s)
      BY <1>1, <2>1
    <3> QED
      BY <1>1, <1>3, <3>1, Zenon
  <2>2. CASE ~(i <= room)
    <3>1. i - room \in 1..(Len(data) - room) /\ i - room \in 1..Len(t)
          /\ room + (i - room) = i
      BY <1>2, <2>2
    <3>2. (s \o t)[room + (i - room)] = t[i - room] /\ t[i - room] = data[room + (i - room)]
      BY <1>1, <1>2, <1>3, <3>1, Zenon
    <3> QED
      BY <3>1, <3>2, Zenon
  <2> QED
    BY <2>1, <2>2
<1> DEFINE w == s \o t
<1>5. w \in Seq(Nat) /\ Len(w) = Len(data) /\ \A i \in 1..Len(data) : w[i] = data[i]
  BY <1>3, <1>4, Zenon
<1> HIDE DEF w
<1>6. w = data
  BY <1>5
<1> QED
  BY <1>1, <1>2, <1>6, Zenon DEF s, t, w

\* Nothing comes after the end.
LEMMA NothingAfter ==
    ASSUME NEW data \in Seq(Nat), NEW n \in Nat, n >= Len(data)
    PROVE  SubSeq(data, n + 1, Len(data)) = <<>>
OBVIOUS

\* m is built of the message g with that data; offset is what
\* fragmented_msg_data_offset was.
Builds(m, g, data, offset) ==
    /\ m.fragmented =>
          /\ NotNegative(m.offset) = m.offset
          /\ m.message \o SubSeq(data, Len(m.message) - m.offset + 1, Len(data)) = g
    /\ ~m.fragmented =>
          /\ m.message = g
          /\ offset = 0 =>
                /\ NotNegative(m.offset) = 0
                /\ SubSeq(data, Len(m.message) - 0 + 1, Len(data)) = <<>>

\* PUBLISH with the data that does not fit the buffer is read as PUBLISH, with
\* its quality of service and its identifier (mqtt5_msg_publish).
LEMMA PublishBuilds ==
    ASSUME NEW topic \in Seq(Byte), NEW data \in Seq(Byte), NEW qos \in 0..2,
           NEW retain \in BOOLEAN, NEW id \in Nat,
           NEW p \in esp_mqtt5_publish_property_config_t, NEW rinfo \in Seq(Nat),
           NEW offset, OutLength + Len(data) <= MaxRemaining,
           NEW m, m = mqtt5_msg_publish(topic, data, qos, retain, id, p, rinfo, offset),
           m.message # Failed,
           NEW r, r.type = "PUBLISH", r.qos = qos, r.id = IF qos > 0 THEN id ELSE 0
    PROVE  \E g : PublishWire(g, r) /\ Builds(m, g, data, offset)
<1> DEFINE header == PublishHeader(topic, qos, id, p, rinfo)
           H == Len(header)
           D == Len(data)
           room == OutLength - MQTT5_MAX_FIXED_HEADER_SIZE - H
           fragmented == D > room
           lens == EncodedLens(H + D)
           offs == MQTT5_MAX_FIXED_HEADER_SIZE - 1 - Len(lens)
           flags == 2 * qos + IF retain THEN 1 ELSE 0
           first == 16 * PUBLISH + 2 * qos + IF retain THEN 1 ELSE 0
           body == header \o data
           g == <<first>> \o lens \o body
<1>1. topic \in Seq(Nat) /\ data \in Seq(Nat)
  BY Wide
<1>2. header \in Seq(Nat) /\ TopicAndId(header, topic, qos, id)
  BY <1>1, Header5
<1>3. H \in Nat /\ D \in Nat
  BY <1>1, <1>2, Len5
<1>4. /\ Fits(header)
      /\ m = [message |-> <<first>> \o lens \o header
                            \o (IF fragmented THEN SubSeq(data, 1, room) ELSE data),
              fragmented |-> fragmented,
              offset |-> (IF fragmented THEN MQTT5_MAX_FIXED_HEADER_SIZE + H
                          ELSE offset) - offs]
  BY DEF mqtt5_msg_publish, PublishHeader
<1>5. body \in Seq(Nat) /\ Len(body) = H + D /\ TopicAndId(body, topic, qos, id)
  BY <1>1, <1>2, HeaderAndData, Zenon
<1>6. 5 + H <= OutLength
  BY <1>4 DEF Fits, MQTT5_MAX_FIXED_HEADER_SIZE
<1>7. H + D <= MaxRemaining
  <2>1. \A h \in Nat, d \in Nat : 5 + h <= OutLength /\ OutLength + d <= MaxRemaining
                                      => h + d <= MaxRemaining
    BY OutLengthIs DEF MaxRemaining
  <2> QED
    BY <1>3, <1>6, <2>1, Zenon
<1>8. lens \in Seq(Nat) /\ Len(lens) \in 1..4
  <2>1. H + D \in Nat
    BY <1>3
  <2> QED
    BY <2>1, EncodedLensType, LenBytesType, Wide
<1> DEFINE bit == IF retain THEN 1 ELSE 0
<1>9. flags \in 0..15 /\ (flags \div 2) % 4 = qos /\ first = 16 * PUBLISH + flags
  <2>1. bit \in {0, 1}
    OBVIOUS
  <2>2. flags = 2 * qos + bit /\ first = 16 * PUBLISH + 2 * qos + bit
    BY Zenon
  <2> HIDE DEF bit, flags, first
  <2>3. \A q \in 0..2, b \in {0, 1} :
           2 * q + b \in 0..15 /\ ((2 * q + b) \div 2) % 4 = q
    <3> TAKE q \in 0..2, b \in {0, 1}
    <3>1. CASE q = 0 /\ b = 0
      BY <3>1
    <3>2. CASE q = 0 /\ b = 1
      BY <3>2
    <3>3. CASE q = 1 /\ b = 0
      BY <3>3
    <3>4. CASE q = 1 /\ b = 1
      BY <3>4
    <3>5. CASE q = 2 /\ b = 0
      BY <3>5
    <3>6. CASE q = 2 /\ b = 1
      BY <3>6
    <3>7. q \in {0, 1, 2} /\ b \in {0, 1}
      OBVIOUS
    <3> QED
      BY <3>1, <3>2, <3>3, <3>4, <3>5, <3>6, <3>7
  <2>4. \A q \in 0..2, b \in {0, 1} : 16 * PUBLISH + 2 * q + b = 16 * PUBLISH + (2 * q + b)
    BY DEF PUBLISH
  <2>5. flags \in 0..15 /\ (flags \div 2) % 4 = qos
    BY <2>1, <2>2, <2>3, Zenon
  <2>6. first = 16 * PUBLISH + flags
    BY <2>1, <2>2, <2>4, Zenon
  <2> QED
    BY <2>5, <2>6
<1>10. <<first>> \in Seq(Nat) /\ Len(<<first>>) = 1 /\ first \in Nat
  BY <1>9 DEF PUBLISH
<1>11. Wire(g, first, body)
  BY <1>5, <1>10, WireOf, Zenon
<1>12. PublishWire(g, r)
  <2>1. r.qos \in 0..2 /\ r.qos = (flags \div 2) % 4
    BY <1>9
  <2>2. Len(body) <= MaxRemaining
    BY <1>5, <1>7, Zenon
  <2>3. Wire(g, 16 * PUBLISH + flags, body)
    BY <1>9, <1>11, Zenon
  <2>4. TopicAndId(body, topic, r.qos, id) /\ r.id = IF r.qos > 0 THEN id ELSE 0
    BY <1>5, Zenon
  <2> HIDE DEF flags, body, g
  <2> QED
    BY <1>9, <2>1, <2>2, <2>3, <2>4, Zenon DEF PublishWire
<1> DEFINE start == <<first>> \o lens
           front == start \o header
<1>4f. /\ m.message = front \o (IF fragmented THEN SubSeq(data, 1, room) ELSE data)
       /\ m.fragmented = fragmented
       /\ m.offset = (IF fragmented THEN MQTT5_MAX_FIXED_HEADER_SIZE + H ELSE offset) - offs
  <2> DEFINE a == front \o (IF fragmented THEN SubSeq(data, 1, room) ELSE data)
             c == (IF fragmented THEN MQTT5_MAX_FIXED_HEADER_SIZE + H ELSE offset) - offs
             b == fragmented
  <2>1. m = [message |-> a, fragmented |-> b, offset |-> c]
    BY <1>4
  <2> HIDE DEF a, b, c
  <2>2. m.message = a /\ m.fragmented = b /\ m.offset = c
    BY <2>1
  <2> QED
    BY <2>2 DEF a, b, c
<1>13. start \in Seq(Nat) /\ Len(start) = 1 + Len(lens)
  BY <1>8, <1>10, Concat5
<1> HIDE DEF header, lens, first, flags, start
<1>14. front \in Seq(Nat) /\ Len(front) = 1 + Len(lens) + H
  BY <1>2, <1>13, Concat5, Zenon
<1>15. front \o data = g
  <2>1. (start \o header) \o data = start \o (header \o data)
    BY <1>1, <1>2, <1>13, Assoc5, Zenon
  <2> QED
    BY <2>1, Zenon DEF start
<1> HIDE DEF front, body, g, H, D
<1>16. room \in Nat /\ room = OutLength - 5 - H
  BY <1>3, <1>6, OutLengthIs DEF MQTT5_MAX_FIXED_HEADER_SIZE
<1>17. offs = 4 - Len(lens)
  BY <1>8 DEF MQTT5_MAX_FIXED_HEADER_SIZE
<1>18. CASE fragmented
  <2> DEFINE k == Len(m.message) - m.offset
  <2>1. /\ m.message = front \o SubSeq(data, 1, room)
        /\ m.fragmented = TRUE
        /\ m.offset = (MQTT5_MAX_FIXED_HEADER_SIZE + H) - offs
    BY <1>4f, <1>18
  <2>2. room <= Len(data)
    BY <1>1, <1>3, <1>16, <1>18 DEF D
  <2> HIDE DEF room
  <2>3. /\ SubSeq(data, 1, room) \in Seq(Nat) /\ Len(SubSeq(data, 1, room)) = room
        /\ SubSeq(data, room + 1, Len(data)) \in Seq(Nat)
        /\ SubSeq(data, 1, room) \o SubSeq(data, room + 1, Len(data)) = data
    BY <1>1, <1>16, <2>2, TwoParts, Zenon
  <2>4. Len(m.message) = Len(front) + room
    BY <1>14, <2>1, <2>3, Concat5, Zenon
  <2>5. m.offset \in Nat /\ m.offset = 1 + H + Len(lens)
    BY <1>3, <1>8, <1>17, <2>1 DEF MQTT5_MAX_FIXED_HEADER_SIZE
  <2>6. k + 1 = room + 1
    BY <1>3, <1>8, <1>14, <1>16, <2>4, <2>5
  <2>7. NotNegative(m.offset) = m.offset
    BY <2>5, NotNegativeIs
  <2> HIDE DEF k
  <2>8. m.message \o SubSeq(data, k + 1, Len(data)) = g
    <3>1. m.message \o SubSeq(data, room + 1, Len(data))
            = front \o (SubSeq(data, 1, room) \o SubSeq(data, room + 1, Len(data)))
      <4>1. (front \o SubSeq(data, 1, room)) \o SubSeq(data, room + 1, Len(data))
              = front \o (SubSeq(data, 1, room) \o SubSeq(data, room + 1, Len(data)))
        BY <1>14, <2>3, Assoc5, Zenon
      <4>2. m.message = front \o SubSeq(data, 1, room)
        BY <2>1
      <4> QED
        BY <4>1, <4>2, Zenon
    <3> QED
      BY <1>15, <2>3, <2>6, <3>1, Zenon
  <2>9. Builds(m, g, data, offset)
    BY <2>1, <2>7, <2>8, Zenon DEF Builds, k
  <2> QED
    BY <1>12, <2>9, Zenon
<1>19. CASE ~fragmented
  <2> DEFINE part == SubSeq(data, 1, room)
             far == MQTT5_MAX_FIXED_HEADER_SIZE + H
             long == fragmented
  <2>1. /\ m.message = front \o data
        /\ ~m.fragmented
        /\ m.offset = offset - offs
    <3>1. /\ m.message = front \o (IF long THEN part ELSE data)
          /\ m.fragmented = long
          /\ m.offset = (IF long THEN far ELSE offset) - offs
      BY <1>4f
    <3>2. ~long
      BY <1>19
    <3> HIDE DEF part, far, long, offs
    <3> QED
      BY <3>1, <3>2, Zenon
  <2>2. m.message = g
    BY <1>15, <2>1, Zenon
  <2>3. ASSUME offset = 0
        PROVE  /\ NotNegative(m.offset) = 0
               /\ SubSeq(data, Len(m.message) - 0 + 1, Len(data)) = <<>>
    <3>1. m.offset \in Int /\ m.offset <= 0
      <4>1. m.offset = 0 - (4 - Len(lens)) /\ Len(lens) \in 1..4
        BY <1>8, <1>17, <2>1, <2>3, Zenon
      <4>2. \A n \in 1..4 : 0 - (4 - n) \in Int /\ 0 - (4 - n) <= 0
        OBVIOUS
      <4> QED
        BY <4>1, <4>2, Zenon
    <3>2. NotNegative(m.offset) = 0
      BY <3>1, NotNegativeIs
    <3>3. Len(m.message) = 1 + Len(lens) + H + D
      BY <1>1, <1>14, <2>1, Concat5, Zenon DEF D
    <3> DEFINE n == Len(m.message)
    <3>4. n - 0 = n /\ n \in Nat /\ n >= D
      BY <1>3, <1>8, <3>3
    <3> HIDE DEF n
    <3>5. SubSeq(data, n + 1, Len(data)) = <<>>
      BY <1>1, <3>4, NothingAfter, Zenon DEF D
    <3> QED
      BY <3>2, <3>4, <3>5, Zenon DEF n
  <2>4. Builds(m, g, data, offset)
    BY <2>1, <2>2, <2>3, Zenon DEF Builds
  <2> QED
    BY <1>12, <2>4, Zenon
<1> QED
  BY <1>18, <1>19

\* Whether it is fragmented depends neither on the identifier nor, without a
\* response topic, on the server.
LEMMA StaysWhole ==
    ASSUME NEW topic \in Seq(Byte), NEW data \in Seq(Byte), NEW qos \in 0..2,
           NEW retain \in BOOLEAN, NEW id \in Nat,
           NEW p \in esp_mqtt5_publish_property_config_t, NEW rinfo \in Seq(Nat),
           p.response_topic = <<>>,
           ~mqtt5_msg_publish(topic, data, qos, retain, 0, p, <<>>, 0).fragmented
    PROVE  ~mqtt5_msg_publish(topic, data, qos, retain, id, p, rinfo, 0).fragmented
<1> DEFINE h(n, i) == PublishHeader(topic, qos, n, p, i)
           room(n, i) == OutLength - MQTT5_MAX_FIXED_HEADER_SIZE - Len(h(n, i))
           fails(n, i) == (topic = <<>> /\ p.topic_alias = 0) \/ ~Fits(h(n, i))
<1>1. PublishProperties(p, rinfo) = PublishProperties(p, <<>>)
  BY Zenon DEF PublishProperties, ResponseTopic
<1> DEFINE a == append_string(<<>>, topic)
           c == update_property_len_value(PublishProperties(p, <<>>))
           b(n) == IF qos > 0 THEN Word(n) ELSE <<>>
<1>2. h(id, rinfo) = a \o b(id) \o c /\ h(0, <<>>) = a \o b(0) \o c
  BY <1>1, Zenon DEF PublishHeader
<1>3. \A n \in Nat : b(n) \in Seq(Nat) /\ Len(b(n)) = IdLen(qos)
  BY IdPart, Zenon
<1>4. a \in Seq(Nat) /\ c \in Seq(Nat)
  <2>1. String(topic) \in Seq(Nat)
    BY Strings5
  <2>2. PublishProperties(p, <<>>) \in Seq(Nat)
    BY Empty5, PublishProperties5, Zenon
  <2> QED
    BY <2>1, <2>2, Block5, Zenon DEF String
<1> HIDE DEF a, b, c
<1>5. Len(h(id, rinfo)) = Len(a) + IdLen(qos) + Len(c)
      /\ Len(h(0, <<>>)) = Len(a) + IdLen(qos) + Len(c)
  <2>1. Joins3(a \o b(id) \o c, a, b(id), c) /\ Joins3(a \o b(0) \o c, a, b(0), c)
    <3>1. 0 \in Nat
      OBVIOUS
    <3> QED
      BY <1>3, <1>4, <3>1, Three5, Zenon
  <2>2. 0 \in Nat
    OBVIOUS
  <2> QED
    BY <1>2, <1>3, <2>1, <2>2, Zenon DEF Joins3
<1> HIDE DEF h
<1>6. room(id, rinfo) = room(0, <<>>) /\ (fails(id, rinfo) <=> fails(0, <<>>))
  BY <1>5, Zenon DEF Fits
<1>7. \A n, i : mqtt5_msg_publish(topic, data, qos, retain, n, p, i, 0).fragmented
                   = IF fails(n, i) THEN FALSE ELSE Len(data) > room(n, i)
  BY Zenon DEF mqtt5_msg_publish, PublishHeader, h
<1> QED
  BY <1>6, <1>7, Zenon

---------------------------------------------------------------------------
\* What the client reads of CONNACK.

\* A string in a message of numbers, and where it ends.
LEMMA WordAt5 ==
    ASSUME NEW g \in Seq(Nat), NEW o \in Nat, o + 2 <= Len(g)
    PROVE  /\ WordAt(g, o) \in Nat
           /\ StringEnd(g, o) \in Nat /\ StringEnd(g, o) >= o + 2
           /\ StringEnd(g, o) <= Len(g) => StringAt(g, o) \in Seq(Nat)
<1>1. Len(g) \in Nat
  OBVIOUS
<1>2. g[o + 1] \in Nat /\ g[o + 2] \in Nat
  <2>1. o + 1 \in 1..Len(g) /\ o + 2 \in 1..Len(g)
    BY <1>1
  <2> QED
    BY <2>1, At5, Zenon
<1>3. WordAt(g, o) \in Nat
  BY <1>2 DEF WordAt
<1>4. StringEnd(g, o) \in Nat /\ StringEnd(g, o) >= o + 2
  BY <1>3 DEF StringEnd
<1>5. StringEnd(g, o) <= Len(g) => StringAt(g, o) \in Seq(Nat)
  <2>1. o + 3 \in Nat /\ o + 3 > 0
    OBVIOUS
  <2> QED
    BY <1>4, <2>1, Part5, Zenon DEF StringAt
<1> QED
  BY <1>3, <1>4, <1>5

\* The value of a few bytes.
LEMMA FromBigEndian5 ==
    ASSUME NEW g \in Seq(Nat)
    PROVE  FromBigEndian(g) \in Nat
<1> DEFINE byte(i) == IF i < Len(g) THEN g[Len(g) - i] ELSE 0
<1>1. \A i \in 0..3 : byte(i) \in Nat
  <2> TAKE i \in 0..3
  <2>1. CASE i < Len(g)
    <3>1. Len(g) - i \in 1..Len(g)
      BY <2>1
    <3> QED
      BY <2>1, <3>1, At5
  <2>2. CASE ~(i < Len(g))
    BY <2>2
  <2> QED
    BY <2>1, <2>2
<1>2. byte(0) \in Nat /\ byte(1) \in Nat /\ byte(2) \in Nat /\ byte(3) \in Nat
  <2>1. 0 \in 0..3 /\ 1 \in 0..3 /\ 2 \in 0..3 /\ 3 \in 0..3
    OBVIOUS
  <2> QED
    BY <1>1, <2>1, Zenon
<1>3. FromBigEndian(g) = byte(0) + 256 * byte(1) + 65536 * byte(2) + 16777216 * byte(3)
  BY SMT DEF FromBigEndian
<1> HIDE DEF byte
<1> QED
  BY <1>2, <1>3, SMT

\* A length of up to four digits.
Sum128(a, b, c, d) == a + 128 * b + 16384 * c + 2097152 * d

\* A length of four digits is a number.
LEMMA Sum128Type ==
    ASSUME NEW a \in Nat, NEW b \in Nat, NEW c \in Nat, NEW d \in Nat
    PROVE  Sum128(a, b, c, d) \in Nat
BY SMT DEF Sum128

\* What get_variable_len reads is in the buffer.
LEMMA VariableLen5 ==
    ASSUME NEW g \in Seq(Nat), NEW o \in Nat
    PROVE  /\ get_variable_len(g, o, Len(g)).bytes \in 0..4
           /\ get_variable_len(g, o, Len(g)).len \in Nat
<1> DEFINE n == Len(g)
           last == {i \in 0..3 : o + i < n /\ g[o + i + 1] < 128}
           b == VariableLenBytes(g, o, n)
           digit(i) == IF i <= b THEN g[o + i] % 128 ELSE 0
<1>1. n \in Nat
  OBVIOUS
<1>2. b \in 0..4 /\ (b # 0 => o + b <= n)
  <2>1. CASE last # {}
    <3>1. last \in SUBSET (0..3)
      OBVIOUS
    <3>2. Min(last) \in last
      BY <2>1, <3>1, MinOfFour, Zenon
    <3>3. b = Min(last) + 1
      BY <2>1, Zenon DEF VariableLenBytes
    <3> QED
      BY <1>1, <3>2, <3>3
  <2>2. CASE last = {}
    <3>1. b = IF o + 4 <= n THEN 0 ELSE Max({n - o, 0})
      BY <2>2, Zenon DEF VariableLenBytes
    <3>2. n - o \in Int
      BY <1>1
    <3>3. Max({n - o, 0}) = IF n - o >= 0 THEN n - o ELSE 0
      BY <3>2, MaxZero, Zenon
    <3> HIDE DEF b
    <3> QED
      BY <1>1, <3>1, <3>3
  <2> QED
    BY <2>1, <2>2
<1>3. \A i \in 1..4 : digit(i) \in Nat
  <2> TAKE i \in 1..4
  <2> HIDE DEF b
  <2>1. CASE i <= b
    <3>1. o + i \in 1..n
      BY <1>1, <1>2, <2>1
    <3>2. g[o + i] \in Nat
      BY <3>1, At5, Zenon
    <3>3. \A v \in Nat : v % 128 \in Nat
      OBVIOUS
    <3> QED
      BY <2>1, <3>2, <3>3, Zenon
  <2>2. CASE ~(i <= b)
    BY <2>2
  <2> QED
    BY <2>1, <2>2
<1>4. digit(1) \in Nat /\ digit(2) \in Nat /\ digit(3) \in Nat /\ digit(4) \in Nat
  <2>1. 1 \in 1..4 /\ 2 \in 1..4 /\ 3 \in 1..4 /\ 4 \in 1..4
    OBVIOUS
  <2> QED
    BY <1>3, <2>1, Zenon
<1>5. /\ get_variable_len(g, o, n).bytes = b
      /\ get_variable_len(g, o, n).len
           = Sum128(digit(1), digit(2), digit(3), digit(4))
  BY SMT DEF Sum128, get_variable_len, VariableLen
<1> HIDE DEF digit, b
<1>6. Sum128(digit(1), digit(2), digit(3), digit(4)) \in Nat
  BY <1>4, Sum128Type, Zenon
<1> QED
  BY <1>2, <1>5, <1>6, Zenon DEF n

\* The identifiers of the properties, by the width of their values.
LEMMA IdsAre ==
    /\ OneByte = {1, 23, 25, 36, 37, 40, 41, 42}
    /\ TwoBytes = {19, 33, 34, 35}
    /\ FourBytes = {2, 17, 24, 39}
    /\ Unchecked = {9, 3, 33, 39, 34}
    /\ InConnAck = {17, 33, 36, 37, 39, 18, 34, 31, 38, 40, 41, 42, 19, 26, 28, 21, 22}
    /\ MQTT5_PROPERTY.subscribe_identifier = 11 /\ MQTT5_PROPERTY.user_property = 38
<1>1. OneByte = {1, 23, 25, 36, 37, 40, 41, 42}
  BY DEF OneByte, Ids, MQTT5_PROPERTY
<1>2. TwoBytes = {19, 33, 34, 35}
  BY DEF TwoBytes, Ids, MQTT5_PROPERTY
<1>3. FourBytes = {2, 17, 24, 39}
  BY DEF FourBytes, Ids, MQTT5_PROPERTY
<1>4. Unchecked = {9, 3, 33, 39, 34}
  BY DEF Unchecked, Ids, MQTT5_PROPERTY
<1>5. InConnAck = {17, 33, 36, 37, 39, 18, 34, 31, 38, 40, 41, 42, 19, 26, 28, 21, 22}
  BY DEF InConnAck, Ids, MQTT5_PROPERTY
<1>6. MQTT5_PROPERTY.subscribe_identifier = 11 /\ MQTT5_PROPERTY.user_property = 38
  BY DEF MQTT5_PROPERTY
<1> QED
  BY <1>1, <1>2, <1>3, <1>4, <1>5, <1>6

\* A string that ends inside the block.
LEMMA HasString5 ==
    ASSUME NEW g \in Seq(Nat), NEW o \in Nat, NEW end \in Nat, end <= Len(g),
           HasString(g, o, end)
    PROVE  /\ WordAt(g, o) \in Nat
           /\ StringEnd(g, o) \in Nat /\ StringEnd(g, o) <= end
           /\ StringAt(g, o) \in Seq(Nat)
<1>1. o + 2 <= end /\ o + 2 + WordAt(g, o) <= end
  BY DEF HasString, HasBytes
<1>2. Len(g) \in Nat
  OBVIOUS
<1>3. o + 2 <= Len(g)
  BY <1>1, <1>2
<1>4. /\ WordAt(g, o) \in Nat /\ StringEnd(g, o) \in Nat
      /\ StringEnd(g, o) <= Len(g) => StringAt(g, o) \in Seq(Nat)
  BY <1>3, WordAt5, Zenon
<1>5. StringEnd(g, o) <= end
  BY <1>1 DEF StringEnd
<1>6. StringEnd(g, o) <= Len(g)
  BY <1>2, <1>4, <1>5
<1> QED
  BY <1>4, <1>5, <1>6

\* Where the value of a property of CONNACK ends.
LEMMA ValueEnds ==
    ASSUME NEW g \in Seq(Nat), NEW o \in Nat, NEW end \in Nat, end <= Len(g),
           NEW id \in InConnAck, NEW v, v = ValueEnd(g, id, o, end), v # 0
    PROVE  /\ v \in Nat
           /\ id \in {17, 19} => v <= end
           /\ id \in {18, 26} => HasString(g, o, end)
<1>1. id \in {17, 33, 36, 37, 39, 18, 34, 31, 38, 40, 41, 42, 19, 26, 28, 21, 22}
  BY IdsAre
<1> DEFINE Checked == HasBytes(o, 4, end)
<1>2. CASE id \in {17, 39}
  <2>1. v = FixedEnd(id, o, 4, end)
    BY <1>2, IdsAre DEF ValueEnd
  <2>2. v = o + 4 /\ (id = 17 => HasBytes(o, 4, end))
    BY <1>2, <2>1, IdsAre DEF FixedEnd
  <2> QED
    BY <1>2, <2>2 DEF HasBytes
<1>3. CASE id \in {19, 33, 34}
  <2>1. v = FixedEnd(id, o, 2, end)
    BY <1>3, IdsAre DEF ValueEnd
  <2>2. v = o + 2 /\ (id = 19 => HasBytes(o, 2, end))
    BY <1>3, <2>1, IdsAre DEF FixedEnd
  <2> QED
    BY <1>3, <2>2 DEF HasBytes
<1>4. CASE id \in {36, 37, 40, 41, 42}
  <2>1. v = FixedEnd(id, o, 1, end)
    BY <1>4, IdsAre DEF ValueEnd
  <2>2. v = o + 1
    BY <2>1 DEF FixedEnd
  <2> QED
    BY <1>4, <2>2
<1>5. CASE id = 38
  <2>1. v = IF HasString(g, o, end) /\ HasString(g, StringEnd(g, o), end)
            THEN StringEnd(g, StringEnd(g, o)) ELSE 0
    BY <1>5, IdsAre DEF ValueEnd
  <2>2. HasString(g, o, end) /\ HasString(g, StringEnd(g, o), end)
        /\ v = StringEnd(g, StringEnd(g, o))
    BY <2>1
  <2>3. StringEnd(g, o) \in Nat
    BY <2>2, HasString5, Zenon
  <2>4. v \in Nat
    BY <2>2, <2>3, HasString5, Zenon
  <2> QED
    BY <1>5, <2>4
<1>6. CASE id \in {18, 31, 26, 28, 21, 22}
  <2>1. v = IF id \in Unchecked \/ HasString(g, o, end) THEN StringEnd(g, o) ELSE 0
    BY <1>6, IdsAre DEF ValueEnd
  <2>2. HasString(g, o, end) /\ v = StringEnd(g, o)
    BY <1>6, <2>1, IdsAre
  <2>3. v \in Nat
    BY <2>2, HasString5, Zenon
  <2> QED
    BY <1>6, <2>2, <2>3
<1> QED
  BY <1>1, <1>2, <1>3, <1>4, <1>5, <1>6

---------------------------------------------------------------------------
\* The loop over the properties.

\* What the next round makes of the rest; f has n rounds.
Round(g, end, allowed, rest, rounds) ==
    [offset \in Nat |->
        IF offset >= end THEN [ok |-> TRUE, list |-> <<>>]
        ELSE LET item == PropertyAt(g, offset, end)
             IN IF rounds = 0 \/ item.id \notin allowed \/ item.to = 0
                THEN GaveUp ELSE Before(item, rest[item.to])]

Loop(f, g, end, allowed, n) ==
    f = [rounds \in 0..n |-> Round(g, end, allowed, f[rounds - 1], rounds)]
LoopSays(f, g, end, allowed, n) ==
    \A rounds \in 0..n : f[rounds] = Round(g, end, allowed, f[rounds - 1], rounds)

\* The round that stops does not ask what follows.
LEMMA Round0 ==
    ASSUME NEW g, NEW end, NEW allowed, NEW a, NEW b
    PROVE  Round(g, end, allowed, a, 0) = Round(g, end, allowed, b, 0)
BY Zenon DEF Round

\* One round of the loop over the properties.
LEMMA LoopStep ==
    ASSUME NEW f, NEW g, NEW end, NEW allowed, NEW n, Loop(f, g, end, allowed, n)
    PROVE  LoopSays(f, g, end, allowed, n)
<1>1. f = [rounds \in 0..n |-> Round(g, end, allowed, f[rounds - 1], rounds)]
  BY Zenon DEF Loop
<1> QED
  BY <1>1, Zenon DEF LoopSays

\* Rounds can be added.
LEMMA LoopGrows ==
    ASSUME NEW g, NEW end, NEW allowed, NEW n \in Nat,
           \E f : Loop(f, g, end, allowed, n)
    PROVE  \E f : Loop(f, g, end, allowed, n + 1)
<1> DEFINE R(x, i) == Round(g, end, allowed, x, i)
<1>1. PICK f : Loop(f, g, end, allowed, n)
  OBVIOUS
<1>2. LoopSays(f, g, end, allowed, n)
  BY <1>1, LoopStep, Zenon
<1> DEFINE e == [i \in 0..(n + 1) |-> IF i \in 0..n THEN f[i] ELSE R(f[n], n + 1)]
<1>3. \A i \in 0..n : i # 0 => e[i - 1] = f[i - 1]
  <2> TAKE i \in 0..n
  <2> HAVE i # 0
  <2>1. i - 1 \in 0..n /\ i - 1 \in 0..(n + 1)
    OBVIOUS
  <2> QED
    BY <2>1, Zenon
<1>4. \A i \in 0..n : e[i] = R(e[i - 1], i)
  <2> TAKE i \in 0..n
  <2>1. i \in 0..(n + 1)
    OBVIOUS
  <2>2. e[i] = f[i] /\ f[i] = R(f[i - 1], i)
    BY <1>2, <2>1, Zenon DEF LoopSays
  <2> HIDE DEF e
  <2>3. CASE i = 0
    <3>1. R(f[i - 1], 0) = R(e[i - 1], 0)
      BY Round0, Zenon
    <3> QED
      BY <2>2, <2>3, <3>1, Zenon
  <2>4. CASE i # 0
    BY <1>3, <2>2, <2>4, Zenon
  <2> QED
    BY <2>3, <2>4
<1>5. e[n + 1] = R(e[(n + 1) - 1], n + 1)
  <2>1. n + 1 \in 0..(n + 1) /\ n + 1 \notin 0..n /\ (n + 1) - 1 = n /\ n \in 0..n
        /\ n \in 0..(n + 1)
    OBVIOUS
  <2>2. e[n + 1] = R(f[n], n + 1) /\ e[n] = f[n]
    BY <2>1, Zenon
  <2> HIDE DEF e
  <2> QED
    BY <2>1, <2>2, Zenon
<1>6. e = [i \in 0..(n + 1) |-> e[i]]
  BY Zenon
<1> HIDE DEF e
<1>7. \A i \in 0..(n + 1) : e[i] = R(e[i - 1], i)
  <2>1. \A i \in 0..(n + 1) : i \in 0..n \/ i = n + 1
    OBVIOUS
  <2> QED
    BY <1>4, <1>5, <2>1, Zenon
<1>8. e = [i \in 0..(n + 1) |-> R(e[i - 1], i)]
  BY <1>6, <1>7, Zenon
<1> QED
  BY <1>8, Zenon DEF Loop

\* The loop has a meaning for every number of rounds.
LEMMA LoopExists ==
    ASSUME NEW g, NEW end, NEW allowed, NEW n \in Nat
    PROVE  \E f : Loop(f, g, end, allowed, n)
<1> DEFINE T == {k \in Nat : \E f : Loop(f, g, end, allowed, k)}
<1>1. 0 \in T
  <2> DEFINE R(x, i) == Round(g, end, allowed, x, i)
             e == [i \in 0..0 |-> R(0, 0)]
  <2>1. \A i \in 0..0 : i = 0
    OBVIOUS
  <2>2. \A i \in 0..0 : e[i] = R(e[i - 1], i)
    <3> TAKE i \in 0..0
    <3>1. e[i] = R(0, 0) /\ i = 0
      BY <2>1, Zenon
    <3> HIDE DEF e
    <3>2. R(0, 0) = R(e[i - 1], 0)
      BY Round0, Zenon
    <3> QED
      BY <3>1, <3>2, Zenon
  <2>3. e = [i \in 0..0 |-> e[i]]
    BY Zenon
  <2> HIDE DEF e
  <2>4. e = [i \in 0..0 |-> R(e[i - 1], i)]
    BY <2>2, <2>3, Zenon
  <2>5. Loop(e, g, end, allowed, 0)
    BY <2>4, Zenon DEF Loop
  <2> QED
    BY <2>5
<1>2. ASSUME NEW k \in Nat, k \in T PROVE k + 1 \in T
  BY <1>2, LoopGrows
<1> HIDE DEF T
<1>3. Nat \subseteq T
  BY <1>1, <1>2, Induct
<1> QED
  BY <1>3 DEF T

\* It has one meaning.
LEMMA LoopUnique ==
    ASSUME NEW g, NEW end, NEW allowed, NEW n \in Nat, NEW m \in Nat,
           NEW f, NEW e, Loop(f, g, end, allowed, n), Loop(e, g, end, allowed, m),
           NEW k \in Nat, k <= n, k <= m
    PROVE  f[k] = e[k]
<1> DEFINE T == {j \in Nat : j <= n /\ j <= m => f[j] = e[j]}
           R(x, i) == Round(g, end, allowed, x, i)
<1>1. LoopSays(f, g, end, allowed, n) /\ LoopSays(e, g, end, allowed, m)
  BY LoopStep, Zenon
<1>2. 0 \in T
  <2>1. 0 \in 0..n /\ 0 \in 0..m
    OBVIOUS
  <2>2. f[0] = R(f[0 - 1], 0) /\ e[0] = R(e[0 - 1], 0)
    BY <1>1, <2>1, Zenon DEF LoopSays
  <2>3. R(f[0 - 1], 0) = R(e[0 - 1], 0)
    BY Round0, Zenon
  <2>4. f[0] = e[0]
    BY <2>2, <2>3, Zenon
  <2> QED
    BY <2>4
<1>3. ASSUME NEW j \in Nat, j \in T PROVE j + 1 \in T
  <2> SUFFICES ASSUME j + 1 <= n, j + 1 <= m PROVE f[j + 1] = e[j + 1]
    OBVIOUS
  <2>1. j + 1 \in 0..n /\ j + 1 \in 0..m /\ (j + 1) - 1 = j /\ j <= n /\ j <= m
    OBVIOUS
  <2>2. f[j] = e[j]
    BY <1>3, <2>1
  <2>3. f[j + 1] = R(f[(j + 1) - 1], j + 1) /\ e[j + 1] = R(e[(j + 1) - 1], j + 1)
    BY <1>1, <2>1, Zenon DEF LoopSays
  <2> QED
    BY <2>1, <2>2, <2>3, Zenon
<1> HIDE DEF T
<1>4. Nat \subseteq T
  BY <1>2, <1>3, Induct
<1> QED
  BY <1>4 DEF T

\* All the rounds of a block.
WholeLoop(f, g, end, allowed) ==
    f = [rounds \in Nat |-> Round(g, end, allowed, f[rounds - 1], rounds)]

\* The loop over the whole block.
LEMMA WholeLoopExists ==
    ASSUME NEW g, NEW end, NEW allowed
    PROVE  \E f : WholeLoop(f, g, end, allowed)
<1> DEFINE F(n) == CHOOSE f : Loop(f, g, end, allowed, n)
           R(x, i) == Round(g, end, allowed, x, i)
           e == [n \in Nat |-> F(n)[n]]
<1>1. \A n \in Nat : Loop(F(n), g, end, allowed, n)
  <2> TAKE n \in Nat
  <2>1. \E f : Loop(f, g, end, allowed, n)
    BY LoopExists, Zenon
  <2> QED
    BY <2>1, Zenon
<1> HIDE DEF F
<1>2. \A n \in Nat : e[n] = R(e[n - 1], n)
  <2> TAKE n \in Nat
  <2>1. e[n] = F(n)[n]
    BY Zenon
  <2>2. LoopSays(F(n), g, end, allowed, n)
    BY <1>1, LoopStep, Zenon
  <2>3. n \in 0..n
    OBVIOUS
  <2>4. F(n)[n] = R(F(n)[n - 1], n)
    BY <2>2, <2>3, Zenon DEF LoopSays
  <2>5. CASE n = 0
    <3>1. R(F(n)[n - 1], 0) = R(e[n - 1], 0)
      BY Round0, Zenon
    <3> HIDE DEF e
    <3> QED
      BY <2>1, <2>4, <2>5, <3>1, Zenon
  <2>6. CASE n # 0
    <3>1. n - 1 \in Nat /\ n - 1 <= n /\ n - 1 <= n - 1
      BY <2>6
    <3>2. e[n - 1] = F(n - 1)[n - 1]
      BY <3>1, Zenon
    <3>3. F(n - 1)[n - 1] = F(n)[n - 1]
      <4>1. Loop(F(n - 1), g, end, allowed, n - 1) /\ Loop(F(n), g, end, allowed, n)
        BY <1>1, <3>1
      <4> DEFINE a == F(n - 1)
                 b == F(n)
                 p == n - 1
      <4>2. /\ Loop(a, g, end, allowed, p) /\ Loop(b, g, end, allowed, n)
            /\ p \in Nat /\ p <= n /\ p <= p
        BY <3>1, <4>1
      <4> HIDE DEF a, b, p
      <4>3. a[p] = b[p]
        BY <4>2, LoopUnique
      <4> QED
        BY <4>3 DEF a, b, p
    <3> HIDE DEF e
    <3> QED
      BY <2>1, <2>4, <3>2, <3>3, Zenon
  <2> QED
    BY <2>5, <2>6
<1>3. e = [n \in Nat |-> e[n]]
  BY Zenon
<1> HIDE DEF e
<1>4. e = [n \in Nat |-> R(e[n - 1], n)]
  BY <1>2, <1>3, Zenon
<1> QED
  BY <1>4, Zenon DEF WholeLoop

\* What the parser found of a property of CONNACK.
Good(g, item, end) ==
    /\ item.id \in {17, 19} => item.to <= end
    /\ item.id \in {18, 26} => HasString(g, item.at, end)
\* ... and of all of them; and after some rounds.
GoodItems(g, end) == {item \in [id : Nat, at : Nat, to : Nat] : Good(g, item, end)}
GoodRest(rest, G) == \A o \in Nat : rest[o].ok => rest[o].list \in Seq(G)

\* A property of CONNACK that is found is well formed.
LEMMA ItemType ==
    ASSUME NEW g \in Seq(Nat), NEW end \in Nat, end <= Len(g), NEW o \in Nat, o < end,
           NEW item, item = PropertyAt(g, o, end), item.id \in InConnAck, item.to # 0
    PROVE  item \in GoodItems(g, end)
<1>1. /\ item = [id |-> g[o + 1], at |-> o + 1, to |-> item.to]
      /\ item.id = g[o + 1] /\ item.at = o + 1
      /\ item.to = ValueEnd(g, g[o + 1], o + 1, end)
  BY Zenon DEF PropertyAt
<1>2. o + 1 \in Nat
  OBVIOUS
<1>3. /\ item.to \in Nat
      /\ item.id \in {17, 19} => item.to <= end
      /\ item.id \in {18, 26} => HasString(g, o + 1, end)
  BY <1>1, <1>2, ValueEnds, Zenon
<1>4. g[o + 1] \in Nat
  <2>1. o + 1 \in 1..Len(g)
    OBVIOUS
  <2> QED
    BY <2>1, At5, Zenon
<1>5. item \in [id : Nat, at : Nat, to : Nat]
  BY <1>1, <1>2, <1>3, <1>4
<1>6. Good(g, item, end)
  BY <1>1, <1>3, Zenon DEF Good
<1> QED
  BY <1>5, <1>6 DEF GoodItems

\* A round keeps the list well formed.
LEMMA RoundType ==
    ASSUME NEW g \in Seq(Nat), NEW end \in Nat, end <= Len(g), NEW rest,
           GoodRest(rest, GoodItems(g, end)), NEW rounds
    PROVE  GoodRest(Round(g, end, InConnAck, rest, rounds), GoodItems(g, end))
<1> DEFINE G == GoodItems(g, end)
           new == Round(g, end, InConnAck, rest, rounds)
<1> SUFFICES ASSUME NEW o \in Nat, new[o].ok PROVE new[o].list \in Seq(G)
  BY Zenon DEF GoodRest
<1> DEFINE item == PropertyAt(g, o, end)
           bad == rounds = 0 \/ item.id \notin InConnAck \/ item.to = 0
<1>1. new[o] = IF o >= end THEN [ok |-> TRUE, list |-> <<>>]
               ELSE IF bad THEN GaveUp ELSE Before(item, rest[item.to])
  BY Zenon DEF Round
<1> HIDE DEF new
<1>2. CASE o >= end
  <2>1. new[o].list = <<>>
    BY <1>1, <1>2
  <2> QED
    BY <2>1
<1>3. CASE ~(o >= end)
  <2>1. ~bad
    <3> SUFFICES ASSUME bad PROVE FALSE
      OBVIOUS
    <3> HIDE DEF bad
    <3>1. new[o] = GaveUp
      BY <1>1, <1>3, Zenon
    <3> QED
      BY <3>1 DEF GaveUp
  <2>2. new[o] = Before(item, rest[item.to])
    <3> HIDE DEF bad, item
    <3> QED
      BY <1>1, <1>3, <2>1, Zenon
  <2>3. o < end
    BY <1>3
  <2>4. item \in G
    BY <2>1, <2>3, ItemType
  <2> HIDE DEF item
  <2>5. item.to \in Nat
    BY <2>4 DEF GoodItems
  <2> DEFINE r == rest[item.to]
  <2>6. new[o] = [ok |-> r.ok, list |-> <<item>> \o r.list]
    BY <2>2, Zenon DEF Before
  <2>7. r.ok => r.list \in Seq(G)
    BY <2>5, Zenon DEF GoodRest
  <2> HIDE DEF G, r
  <2>8. r.ok /\ new[o].list = <<item>> \o r.list
    BY <2>6
  <2> QED
    BY <2>4, <2>7, <2>8, InFront, Zenon
<1> QED
  BY <1>2, <1>3

\* The properties that are found in a block are well formed.
LEMMA PropertiesType ==
    ASSUME NEW g \in Seq(Nat), NEW from \in Nat, NEW end \in Nat, from <= end, end <= Len(g),
           NEW ps, ps = Properties(g, from, end, InConnAck), ps.ok
    PROVE  ps.list \in Seq(GoodItems(g, end))
<1> DEFINE f == CHOOSE f : WholeLoop(f, g, end, InConnAck)
           R(x, i) == Round(g, end, InConnAck, x, i)
           G == GoodItems(g, end)
<1>1. ps = f[end - from][from]
  BY Zenon DEF Properties, WholeLoop, Round
<1>2. WholeLoop(f, g, end, InConnAck)
  <2>1. \E e : WholeLoop(e, g, end, InConnAck)
    BY WholeLoopExists, Zenon
  <2> QED
    BY <2>1, Zenon
<1> HIDE DEF f
<1>3. \A n \in Nat : f[n] = R(f[n - 1], n)
  <2>1. f = [n \in Nat |-> R(f[n - 1], n)]
    BY <1>2, Zenon DEF WholeLoop
  <2> QED
    BY <2>1, Zenon
<1> DEFINE T == {n \in Nat : GoodRest(f[n], G)}
<1>4. 0 \in T
  <2> DEFINE none == [o \in Nat |-> GaveUp]
  <2>1. GoodRest(none, G)
    <3> SUFFICES ASSUME NEW o \in Nat, none[o].ok PROVE FALSE
      BY Zenon DEF GoodRest
    <3>1. none[o] = GaveUp
      BY Zenon
    <3> QED
      BY <3>1 DEF GaveUp
  <2> HIDE DEF none
  <2>2. GoodRest(R(none, 0), G)
    BY <2>1, RoundType, Zenon
  <2>3. 0 \in Nat
    OBVIOUS
  <2>4. f[0] = R(f[0 - 1], 0) /\ R(f[0 - 1], 0) = R(none, 0)
    BY <1>3, <2>3, Round0, Zenon
  <2> QED
    BY <2>2, <2>3, <2>4, Zenon
<1>5. ASSUME NEW n \in Nat, n \in T PROVE n + 1 \in T
  <2>1. n + 1 \in Nat /\ (n + 1) - 1 = n
    OBVIOUS
  <2>2. f[n + 1] = R(f[n], n + 1)
    BY <1>3, <2>1, Zenon
  <2>3. GoodRest(f[n], G)
    BY <1>5, Zenon
  <2>4. GoodRest(R(f[n], n + 1), G)
    BY <2>3, RoundType, Zenon
  <2> QED
    BY <2>1, <2>2, <2>4, Zenon
<1> HIDE DEF T
<1>6. Nat \subseteq T
  BY <1>4, <1>5, Induct
<1>7. end - from \in Nat
  OBVIOUS
<1>8. GoodRest(f[end - from], G)
  BY <1>6, <1>7, Zenon DEF T
<1> QED
  BY <1>1, <1>8, Zenon DEF GoodRest

---------------------------------------------------------------------------
\* What the parser leaves in a variable.

\* The last property of a name.
LEMMA LatestGood ==
    ASSUME NEW G, NEW list \in Seq(G), NEW name, Given(list, name) # {}
    PROVE  Latest(list, name) \in G /\ Latest(list, name).id = MQTT5_PROPERTY[name]
<1>1. Len(list) \in Nat /\ DOMAIN list = 1..Len(list)
  OBVIOUS
<1>2. Given(list, name) \in SUBSET (1..Len(list))
  BY <1>1 DEF Given
<1>3. Max(Given(list, name)) \in Given(list, name)
  BY <1>1, <1>2, MaxIn, Zenon
<1> DEFINE m == Max(Given(list, name))
<1>4. m \in DOMAIN list /\ list[m].id = MQTT5_PROPERTY[name]
  BY <1>3, Zenon DEF Given
<1> HIDE DEF m
<1>5. list[m] \in G
  BY <1>4
<1> QED
  BY <1>4, <1>5, Zenon DEF Latest, m

\* The identifiers of the properties of CONNACK that are kept.
LEMMA PropertyNumbers ==
    /\ MQTT5_PROPERTY["session_expiry_interval"] = 17
    /\ MQTT5_PROPERTY["server_keep_alive"] = 19
    /\ MQTT5_PROPERTY["assigned_client_identifier"] = 18
    /\ MQTT5_PROPERTY["resp_info"] = 26
BY DEF MQTT5_PROPERTY

\* A number of CONNACK, or what was there before.
LEMMA NumberType ==
    ASSUME NEW g \in Seq(Nat), NEW end \in Nat, end <= Len(g),
           NEW list \in Seq(GoodItems(g, end)),
           NEW name \in {"session_expiry_interval", "server_keep_alive"},
           NEW otherwise \in Nat
    PROVE  NumberOr(g, list, name, otherwise) \in Nat
<1>1. CASE Given(list, name) = {}
  BY <1>1 DEF NumberOr
<1>2. CASE Given(list, name) # {}
  <2> DEFINE x == Latest(list, name)
  <2>1. x \in GoodItems(g, end) /\ x.id = MQTT5_PROPERTY[name]
    BY <1>2, LatestGood, Zenon
  <2> HIDE DEF x
  <2>2. MQTT5_PROPERTY[name] \in {17, 19}
    BY PropertyNumbers
  <2>3. x.to \in Nat /\ x.at \in Nat /\ x.to <= end
    BY <2>1, <2>2 DEF GoodItems, Good
  <2>4. x.to <= Len(g) /\ x.at + 1 \in Nat /\ x.at + 1 > 0
    BY <2>3
  <2>5. Bytes(g, x) \in Seq(Nat)
    BY <2>3, <2>4, Part5, Zenon DEF Bytes
  <2>6. FromBigEndian(Bytes(g, x)) \in Nat
    BY <2>5, FromBigEndian5, Zenon
  <2> QED
    BY <1>2, <2>6, Zenon DEF NumberOr, x
<1> QED
  BY <1>1, <1>2

\* A string of CONNACK, or what was there before.
LEMMA StringType ==
    ASSUME NEW g \in Seq(Nat), NEW end \in Nat, end <= Len(g),
           NEW list \in Seq(GoodItems(g, end)),
           NEW name \in {"assigned_client_identifier", "resp_info"},
           NEW otherwise \in Seq(Nat)
    PROVE  StringOr(g, list, name, otherwise) \in Seq(Nat)
<1>1. CASE Given(list, name) = {}
  BY <1>1, Zenon DEF StringOr
<1>2. CASE Given(list, name) # {}
  <2> DEFINE x == Latest(list, name)
  <2>1. x \in GoodItems(g, end) /\ x.id = MQTT5_PROPERTY[name]
    BY <1>2, LatestGood, Zenon
  <2> HIDE DEF x
  <2>2. MQTT5_PROPERTY[name] \in {18, 26}
    BY PropertyNumbers
  <2>3. x.at \in Nat /\ HasString(g, x.at, end)
    BY <2>1, <2>2 DEF GoodItems, Good
  <2>4. StringAt(g, x.at) \in Seq(Nat)
    BY <2>3, HasString5, Zenon
  <2> QED
    BY <1>2, <2>4, Zenon DEF StringOr, x
<1> QED
  BY <1>1, <1>2

\* What CONNACK leaves of the connection is what it was of.
ConnAckTyped(c) ==
    /\ c.info \in Info5
    /\ c.property \in esp_mqtt5_connection_property_storage_t
    /\ c.server.response_info \in Seq(Nat)

\* What the client keeps of CONNACK is again a configuration
\* (mqtt5_msg_parse_connack_property).
LEMMA ConnAckType ==
    ASSUME NEW g \in Seq(Nat), NEW i \in Info5,
           NEW p \in esp_mqtt5_connection_property_storage_t, NEW s,
           s.response_info \in Seq(Nat),
           NEW c, c = mqtt5_msg_parse_connack_property(g, i, p, s), c.ok
    PROVE  ConnAckTyped(c)
<1> DEFINE flags == BodyStart(g, Len(g))
           o == flags + 2
           size == get_variable_len(g, o, Len(g))
           from == o + size.bytes
           end == from + size.len
           ps == Properties(g, from, end, InConnAck)
<1>1. flags \in Nat /\ o \in Nat
  <2>1. get_variable_len(g, 1, Len(g)).bytes \in 0..4
    BY VariableLen5
  <2> QED
    BY <2>1 DEF BodyStart
<1> HIDE DEF flags
<1>2. size.bytes \in 0..4 /\ size.len \in Nat
  BY <1>1, VariableLen5, Zenon
<1> HIDE DEF size, o
<1>3. from \in Nat /\ end \in Nat /\ from <= end
  <2> DEFINE a == size.bytes
             b == size.len
  <2>1. o \in Nat /\ a \in 0..4 /\ b \in Nat
    BY <1>1, <1>2 DEF o
  <2> HIDE DEF a, b
  <2>2. o + a \in Nat /\ o + a + b \in Nat /\ o + a <= o + a + b
    BY <2>1
  <2> QED
    BY <2>2, Zenon DEF a, b
<1>4. PropertyBlock(g, o, Len(g), InConnAck) = ps /\ PropertyBlockEnd(g, o, Len(g)) = end
  BY Zenon DEF PropertyBlock, BlockOf, PropertyBlockEnd, EndOf, size
<1> HIDE DEF from, end, ps
<1>5. c = ConnAckOf(g, flags, ps, i, p, s)
  BY <1>4, Zenon DEF mqtt5_msg_parse_connack_property, ConnAckAt, flags, o
<1> DEFINE bad == \/ BodyEnd(g, Len(g)) > Len(g)
                  \/ end > Len(g)
                  \/ ~ps.ok
<1>6. c = IF bad THEN [ok |-> FALSE]
          ELSE [ok |-> TRUE, ack_flag |-> g[flags + 1], reason_code |-> g[flags + 2],
                info |-> [i EXCEPT
                   !.client_id = StringOr(g, ps.list, "assigned_client_identifier", @),
                   !.keepalive = NumberOr(g, ps.list, "server_keep_alive", @)],
                property |-> [p EXCEPT
                   !.session_expiry_interval =
                       NumberOr(g, ps.list, "session_expiry_interval", @)],
                server |-> ServerOf(g, ps.list, s),
                user_property |-> UserPropertyList(g, ps.list)]
  BY <1>4, <1>5, Zenon DEF ConnAckOf, o
<1>7. ~bad
  <2> HIDE DEF bad
  <2> SUFFICES ASSUME bad PROVE FALSE
    OBVIOUS
  <2>1. c = [ok |-> FALSE]
    BY <1>6, Zenon
  <2> QED
    BY <2>1
<1>8. end <= Len(g) /\ ps.ok
  BY <1>3, <1>7
<1>9. ps.list \in Seq(GoodItems(g, end))
  BY <1>3, <1>8, PropertiesType, Zenon DEF ps
<1> DEFINE list == ps.list
           id == StringOr(g, list, "assigned_client_identifier", i.client_id)
           alive == NumberOr(g, list, "server_keep_alive", i.keepalive)
           expiry == NumberOr(g, list, "session_expiry_interval", p.session_expiry_interval)
<1>10. /\ c.info = [i EXCEPT !.client_id = id, !.keepalive = alive]
       /\ c.property = [p EXCEPT !.session_expiry_interval = expiry]
       /\ c.server = ServerOf(g, list, s)
  <2> HIDE DEF bad
  <2> QED
    BY <1>6, <1>7
<1>11. id \in Seq(Nat)
  <2>1. i.client_id \in Seq(Nat)
    BY DEF Info5
  <2> QED
    BY <1>3, <1>8, <1>9, <2>1, StringType
<1>12. alive \in Nat
  <2>1. i.keepalive \in Nat
    BY DEF Info5
  <2> QED
    BY <1>3, <1>8, <1>9, <2>1, NumberType
<1>13. expiry \in Nat
  <2>1. p.session_expiry_interval \in Nat
    BY DEF esp_mqtt5_connection_property_storage_t
  <2> QED
    BY <1>3, <1>8, <1>9, <2>1, NumberType
<1>14. StringOr(g, list, "resp_info", s.response_info) \in Seq(Nat)
  BY <1>3, <1>8, <1>9, StringType
<1> HIDE DEF id, alive, expiry
<1>15. c.info \in Info5
  BY <1>10, <1>11, <1>12 DEF Info5
<1>16. c.property \in esp_mqtt5_connection_property_storage_t
  BY <1>10, <1>13 DEF esp_mqtt5_connection_property_storage_t
<1>17. c.server.response_info = StringOr(g, list, "resp_info", s.response_info)
  <2>1. ServerOf(g, list, s).response_info
          = StringOr(g, list, "resp_info", s.response_info)
    BY DEF ServerOf
  <2> QED
    BY <1>10, <2>1, Zenon
<1> QED
  BY <1>14, <1>15, <1>16, <1>17, Zenon DEF ConnAckTyped

---------------------------------------------------------------------------
\* What the broker sends.

\* The type and the identifier that the client reads.
SaidType(x) == mqtt_get_type(x.bytes)
SaidId(x) == mqtt5_get_id(x.bytes, Len(x.bytes))

\* A message of the broker, of that type.
FromBroker(g, type) ==
    \E flags, body : flags \in 0..15 /\ Wire(g, 16 * type + flags, body)

\* The client reads the type of a message of the broker.
LEMMA TypeSaid ==
    ASSUME NEW g, NEW type \in 0..15, FromBroker(g, type)
    PROVE  mqtt_get_type(g) = type /\ g \in Seq(Nat)
<1>1. PICK flags, body : flags \in 0..15 /\ Wire(g, 16 * type + flags, body)
  BY DEF FromBroker
<1>2. g[1] = 16 * type + flags /\ g \in Seq(Nat)
  BY <1>1, Zenon DEF Wire
<1> QED
  BY <1>1, <1>2, FirstByte5, Zenon

\* The identifier that the client reads is a number.
LEMMA IdIsNumber ==
    ASSUME NEW g, NEW b, NEW body, Wire(g, b, body)
    PROVE  mqtt5_get_id(g, Len(g)) \in Nat
<1> DEFINE o == BodyStart(g, Len(g))
           n == Len(g)
<1>1. g \in Seq(Nat) /\ o = 1 + LenBytes(Len(body)) /\ Len(body) \in Nat
  <2>1. g \in Seq(Nat) /\ body \in Seq(Nat)
    BY Zenon DEF Wire
  <2> QED
    BY <2>1, BodyStart5, Len5, Zenon
<1>2. o \in Nat /\ n \in Nat
  <2>1. LenBytes(Len(body)) \in 1..4
    BY <1>1, LenBytesType
  <2>2. n \in Nat
    BY <1>1, Len5
  <2> HIDE DEF o
  <2> QED
    BY <1>1, <2>1, <2>2
<1>3. mqtt5_get_id(g, n) = IdAt(g, o, n)
  BY Zenon DEF mqtt5_get_id
<1> HIDE DEF o
<1>4. CASE o + 2 > n
  <2>1. IdAt(g, o, n) = 0
    BY <1>4, Zenon DEF IdAt
  <2> QED
    BY <1>3, <2>1
<1>5. CASE ~(o + 2 > n)
  <2>1. o + 2 <= n
    BY <1>2, <1>5
  <2>2. WordAt(g, o) \in Nat /\ StringEnd(g, o) \in Nat
    BY <1>1, <1>2, <2>1, WordAt5, Zenon
  <2>3. IdAfter(g, StringEnd(g, o), n) \in Nat
    <3> DEFINE e == StringEnd(g, o)
               yes == e + 2 <= n /\ mqtt_get_qos(g) > 0
    <3>1. IdAfter(g, e, n) = IF yes THEN WordAt(g, e) ELSE 0
      BY Zenon DEF IdAfter
    <3>2. yes => WordAt(g, e) \in Nat
      BY <1>1, <2>2, WordAt5, Zenon
    <3>3. 0 \in Nat
      OBVIOUS
    <3> HIDE DEF e, yes
    <3> QED
      BY <3>1, <3>2, <3>3, Zenon DEF e
  <2>4. \/ IdAt(g, o, n) = IdAfter(g, StringEnd(g, o), n)
        \/ IdAt(g, o, n) = WordAt(g, o)
        \/ IdAt(g, o, n) = 0
    BY <1>5, Zenon DEF IdAt
  <2>5. 0 \in Nat
    OBVIOUS
  <2> QED
    BY <1>3, <2>2, <2>3, <2>4, <2>5, Zenon
<1> QED
  BY <1>4, <1>5

\* The broker's messages are messages.
LEMMA SendIs ==
    ASSUME NEW type \in 0..15, NEW flags \in 0..15, NEW body \in Seq(Nat)
    PROVE  /\ Wire(SendMessage(type, flags, body), 16 * type + flags, body)
           /\ FromBroker(SendMessage(type, flags, body), type)
<1>1. 16 * type + flags \in Nat
  OBVIOUS
<1>2. Wire(SendMessage(type, flags, body), 16 * type + flags, body)
  BY <1>1, WireOf, Zenon DEF SendMessage
<1> QED
  BY <1>2, Zenon DEF FromBroker

\* The types of the messages that have an identifier in front.
AnswerCode == [PUBACK |-> 4, PUBREC |-> 5, PUBREL |-> 6, PUBCOMP |-> 7, SUBACK |-> 9, UNSUBACK |-> 11]

\* x is an answer with that identifier.
AnswersWith(x, type, id) ==
    /\ FromBroker(x.bytes, type)
    /\ SaidType(x) = type
    /\ SaidId(x) = id

\* The client reads the identifier of an answer as the broker put it.
LEMMA SendsAnswer ==
    ASSUME NEW type \in {4, 5, 6, 7, 9, 11}, NEW flags \in 0..15, NEW id \in Nat,
           NEW rest \in Seq(Nat), NEW x,
           x.bytes = SendMessage(type, flags, Word(id) \o rest)
    PROVE  AnswersWith(x, type, id)
<1> DEFINE g == x.bytes
           body == Word(id) \o rest
           b == 16 * type + flags
           o == 1 + LenBytes(Len(body))
<1>1. body \in Seq(Nat) /\ Len(body) = 2 + Len(rest) /\ Len(rest) \in Nat
  <2>1. Word(id) \in Seq(Nat) /\ Len(Word(id)) = 2
    BY Word5
  <2> QED
    BY <2>1, Concat5, Len5, Zenon
<1>2. type \in 0..15
  OBVIOUS
<1>3. Wire(g, b, body) /\ FromBroker(g, type)
  BY <1>1, <1>2, SendIs, Zenon
<1>4. SaidType(x) = type
  BY <1>2, <1>3, TypeSaid, Zenon DEF SaidType
<1>5. WordAt(g, o) = id
  BY <1>3, IdInFront, Zenon
<1>6. BodyStart(g, Len(g)) = o
  BY <1>3, BodyStart5, Zenon
<1>7. Len(g) = o + Len(body)
  BY <1>3, Zenon DEF Wire
<1>8. ~(o + 2 > Len(g))
  <2>1. LenBytes(Len(body)) \in 1..4
    BY <1>1, LenBytesType
  <2> HIDE DEF body
  <2> QED
    BY <1>1, <1>7, <2>1
<1> HIDE DEF o, g
<1>9. mqtt5_get_id(g, Len(g)) = IdAt(g, o, Len(g))
  BY <1>6, Zenon DEF mqtt5_get_id
<1>10. mqtt_get_type(g) = type
  BY <1>4, Zenon DEF SaidType, g
<1>11. /\ type # PUBLISH
       /\ type \in {PUBACK, PUBREC, PUBREL, PUBCOMP, SUBACK, UNSUBACK, SUBSCRIBE, UNSUBSCRIBE}
  BY DEF PUBLISH, PUBACK, PUBREC, PUBREL, PUBCOMP, SUBACK, UNSUBACK, SUBSCRIBE, UNSUBSCRIBE
<1>12. IdAt(g, o, Len(g)) = WordAt(g, o)
  BY <1>8, <1>10, <1>11, Zenon DEF IdAt
<1> QED
  BY <1>3, <1>4, <1>5, <1>9, <1>12, Zenon DEF AnswersWith, SaidId, g

\* The broker's own property is a property.
LEMMA BrokerPropertyType == BrokerProperty \in Seq(esp_mqtt5_user_property_item_t)
<1>1. <<98>> \in Seq(Byte) /\ <<2, 3>> \in Seq(Byte)
  BY DEF Byte
<1>2. [key |-> <<98>>, value |-> <<2, 3>>] \in esp_mqtt5_user_property_item_t
  BY <1>1 DEF esp_mqtt5_user_property_item_t
<1> QED
  BY <1>2 DEF BrokerProperty

\* An answer says its type and its identifier,
LEMMA ReplyOfSays ==
    ASSUME NEW name \in DOMAIN AnswerCode, NEW id \in Nat, NEW reason \in Nat,
           NEW property \in Seq(esp_mqtt5_user_property_item_t)
    PROVE  \E x : /\ ReplyOf(name, id, reason, property) = <<x>>
                  /\ AnswersWith(x, AnswerCode[name], id)
<1> DEFINE bytes == IF name = "SUBACK" THEN SendSubAck(SUBACK, id, reason, property)
                    ELSE IF name = "UNSUBACK" THEN SendSubAck(UNSUBACK, id, reason, property)
                    ELSE SendAck(AckTypes[name], id, reason, property)
           x == [bytes |-> bytes,
                 meant |-> [type |-> name, id |-> id, reason_code |-> reason,
                            user_property |-> property]]
           props == UserProperties(property)
           block == Block(props)
<1>1. ReplyOf(name, id, reason, property) = <<x>>
  BY Zenon DEF ReplyOf
<1>2. x.bytes = bytes
  BY Zenon
<1>3. block \in Seq(Nat) /\ <<reason>> \in Seq(Nat) /\ Word(id) \in Seq(Nat)
  <2>1. props \in Seq(Nat)
    BY UserProperties5, Zenon
  <2>2. <<reason>> \in Seq(Nat)
    OBVIOUS
  <2> QED
    BY <2>1, <2>2, Block5, Word5, Zenon
<1> HIDE DEF x, block
<1>4. CASE name \in DOMAIN AckCode
  <2> DEFINE rest == IF reason = 0 /\ property = <<>> THEN <<>> ELSE <<reason>> \o block
             type == AckCode[name]
             flags == IF type = PUBREL THEN 2 ELSE 0
  <2>1. name # "SUBACK" /\ name # "UNSUBACK"
    BY <1>4 DEF AckCode
  <2>2. AckTypes[name] = type /\ type \in {4, 5, 6, 7, 9, 11} /\ AnswerCode[name] = type
    <3>1. AnswerCode[name] = AckCode[name]
      BY <1>4 DEF AnswerCode, AckCode
    <3> QED
      BY <1>4, <3>1, AckName
  <2>3. bytes = SendMessage(type, flags, Word(id) \o rest)
    BY <2>1, <2>2, Zenon DEF SendAck, block
  <2>4. rest \in Seq(Nat)
    <3>1. <<reason>> \o block \in Seq(Nat)
      BY <1>3, Concat5, Zenon
    <3>2. <<>> \in Seq(Nat)
      OBVIOUS
    <3> QED
      BY <3>1, <3>2, Zenon
  <2>5. flags \in 0..15
    OBVIOUS
  <2> HIDE DEF bytes, rest, flags, type
  <2>6. AnswersWith(x, type, id)
    BY <1>2, <2>2, <2>3, <2>4, <2>5, SendsAnswer, Zenon
  <2> QED
    BY <1>1, <2>2, <2>6, Zenon
<1>5. CASE name \in {"SUBACK", "UNSUBACK"}
  <2> DEFINE rest == block \o <<reason>>
             type == AnswerCode[name]
  <2>1. type \in {4, 5, 6, 7, 9, 11} /\ (name = "SUBACK" => type = SUBACK)
        /\ (name = "UNSUBACK" => type = UNSUBACK)
    BY <1>5 DEF AnswerCode, SUBACK, UNSUBACK
  <2> HIDE DEF type
  <2>2. bytes = SendSubAck(type, id, reason, property)
    <3>1. CASE name = "SUBACK"
      BY <2>1, <3>1, Zenon
    <3>2. CASE name = "UNSUBACK"
      BY <2>1, <3>2
    <3> QED
      BY <1>5, <3>1, <3>2
  <2>3. bytes = SendMessage(type, 0, (Word(id) \o block) \o <<reason>>)
    BY <2>2, Zenon DEF SendSubAck, block
  <2>4. (Word(id) \o block) \o <<reason>> = Word(id) \o rest
    BY <1>3, Assoc5, Zenon
  <2>5. rest \in Seq(Nat)
    BY <1>3, Concat5, Zenon
  <2>6. 0 \in 0..15
    OBVIOUS
  <2> HIDE DEF bytes, rest
  <2>7. AnswersWith(x, type, id)
    BY <1>2, <2>1, <2>3, <2>4, <2>5, <2>6, SendsAnswer, Zenon
  <2> QED
    BY <1>1, <2>7, Zenon DEF type
<1>6. name \in DOMAIN AckCode \/ name \in {"SUBACK", "UNSUBACK"}
  BY DEF AckCode, AnswerCode
<1> QED
  BY <1>4, <1>5, <1>6

\* ... whatever else the broker puts into it.
LEMMA ReplySays ==
    ASSUME NEW name \in DOMAIN AnswerCode, NEW id \in Nat
    PROVE  \E x : Reply(name, id) = <<x>> /\ AnswersWith(x, AnswerCode[name], id)
<1>1. OddReason[name] \in Nat
  BY DEF OddReason, AnswerCode
<1>2. 0 \in Nat /\ <<>> \in Seq(esp_mqtt5_user_property_item_t)
  OBVIOUS
<1>3. CASE id % 2 = 1 /\ OddReason[name] # 0
  <2>1. Reply(name, id) = ReplyOf(name, id, OddReason[name], BrokerProperty)
    BY <1>3, Zenon DEF Reply
  <2> QED
    BY <1>1, <2>1, BrokerPropertyType, ReplyOfSays, Zenon
<1>4. CASE ~(id % 2 = 1 /\ OddReason[name] # 0)
  <2>1. Reply(name, id) = ReplyOf(name, id, 0, <<>>)
    BY <1>4, Zenon DEF Reply
  <2> QED
    BY <1>2, <2>1, ReplyOfSays, Zenon
<1> QED
  BY <1>3, <1>4

---------------------------------------------------------------------------
\* CONNACK, PUBLISH and DISCONNECT of the broker.

\* DISCONNECT of the broker,
LEMMA DisconnectSays == FromBroker(SendDisconnect(139), DISCONNECT)
<1>1. Block(<<>>) \in Seq(Nat) /\ <<139>> \in Seq(Nat)
  <2>1. <<139>> \in Seq(Nat)
    OBVIOUS
  <2> QED
    BY <2>1, Empty5, Block5, Zenon
<1>2. <<139>> \o Block(<<>>) \in Seq(Nat)
  BY <1>1, Concat5, Zenon
<1> QED
  BY <1>2, Codes, SendIs, Zenon DEF SendDisconnect

\* ... its PUBLISH,
LEMMA PublishSays ==
    ASSUME NEW m, m.topic \in Seq(Byte), m.data \in Seq(Byte), m.qos \in 0..2,
           NEW id \in Nat, m.property \in esp_mqtt5_publish_property_config_t
    PROVE  FromBroker(SendPublish(m, id), PUBLISH)
<1> DEFINE flags == (2 * m.qos) + (IF m.retain THEN 1 ELSE 0)
           t == String(m.topic)
           i == IF m.qos > 0 THEN Word(id) ELSE <<>>
           v == VariableProperty("subscribe_identifier", m.property.subscribe_id)
           p == PublishProperties(m.property, <<>>)
           c == Block(v \o p)
           body == t \o i \o c \o m.data
<1>1. t \in Seq(Nat) /\ m.data \in Seq(Nat)
  BY Strings5, Zenon
<1>2. i \in Seq(Nat)
  BY IdPart, Zenon
<1>3. v \in Seq(Nat)
  <2>1. m.property.subscribe_id \in Nat
    BY DEF esp_mqtt5_publish_property_config_t
  <2> QED
    BY <2>1, Names, Variable5, Zenon
<1>4. p \in Seq(Nat)
  BY Empty5, PublishProperties5, Zenon
<1>5. c \in Seq(Nat)
  BY <1>3, <1>4, Concat5, Block5, Zenon
<1>6. body \in Seq(Nat)
  <2> HIDE DEF t, i, c
  <2>1. t \o i \in Seq(Nat)
    BY <1>1, <1>2, Concat5, Zenon
  <2>2. t \o i \o c \in Seq(Nat)
    BY <1>5, <2>1, Concat5, Zenon
  <2> QED
    BY <1>1, <2>2, Concat5, Zenon
<1>7. flags \in 0..15
  <2> DEFINE bit == IF m.retain THEN 1 ELSE 0
  <2>1. bit \in {0, 1}
    OBVIOUS
  <2>2. \A q \in 0..2, b \in {0, 1} : (2 * q) + b \in 0..15
    OBVIOUS
  <2> HIDE DEF bit
  <2> QED
    BY <2>1, <2>2, Zenon DEF bit
<1>8. SendPublish(m, id) = SendMessage(PUBLISH, flags, body)
  BY Zenon DEF SendPublish
<1> HIDE DEF flags, body
<1> QED
  BY <1>6, <1>7, <1>8, Codes, SendIs, Zenon

\* ... and its CONNACK,
LEMMA ConnAckSays ==
    ASSUME NEW a \in AnswerType, NEW present
    PROVE  FromBroker(SendConnAck(present, a), CONNACK)
<1> DEFINE p1 == StringProperty("reason_string", a.reason_string)
           p2 == NumberProperty("session_expiry_interval", 4, a.session_expiry_interval)
           p3 == NumberProperty("receive_maximum", 2, a.receive_maximum)
           p4 == IF a.max_qos = 2 THEN <<>> ELSE <<MQTT5_PROPERTY.maximum_qos, a.max_qos>>
           p5 == OffProperty("retain_available", a.retain_available)
           p6 == NumberProperty("maximum_packet_size", 4, a.maximum_packet_size)
           p7 == StringProperty("assigned_client_identifier", a.client_id)
           p8 == NumberProperty("topic_alias_maximum", 2, a.topic_alias_maximum)
           p9 == OffProperty("wildcard_subscr_available", a.wildcard)
           p10 == OffProperty("subscr_identifier_available", a.subscr_identifier)
           p11 == OffProperty("shared_subscr_available", a.shared)
           p12 == NumberProperty("server_keep_alive", 2, a.keepalive)
           p13 == StringProperty("resp_info", a.response_info)
           p14 == StringProperty("server_reference", a.server_reference)
           p15 == UserProperties(a.user_property)
           head == <<IF present THEN 1 ELSE 0, a.reason_code>>
           props == p1 \o p2 \o p3 \o p4 \o p5 \o p6 \o p7 \o p8 \o p9 \o p10 \o p11
                      \o p12 \o p13 \o p14 \o p15
           body == head \o Block(props)
<1>1. /\ a.reason_string \in Seq(Nat) /\ a.client_id \in Seq(Nat)
      /\ a.response_info \in Seq(Nat) /\ a.server_reference \in Seq(Nat)
  <2>1. /\ a.reason_string \in Seq(Byte) /\ a.client_id \in Seq(Byte)
        /\ a.response_info \in Seq(Byte) /\ a.server_reference \in Seq(Byte)
    BY DEF AnswerType
  <2> QED
    BY <2>1, Wide
<1>2. /\ a.session_expiry_interval \in Nat /\ a.receive_maximum \in Nat
      /\ a.maximum_packet_size \in Nat /\ a.topic_alias_maximum \in Nat
      /\ a.keepalive \in Nat /\ a.max_qos \in Nat /\ a.reason_code \in Nat
      /\ a.user_property \in Seq(esp_mqtt5_user_property_item_t)
  <2>1. /\ a.session_expiry_interval \in Nat /\ a.receive_maximum \in Nat
        /\ a.maximum_packet_size \in Nat /\ a.topic_alias_maximum \in Nat
        /\ a.keepalive \in Nat
        /\ a.user_property \in Seq(esp_mqtt5_user_property_item_t)
    BY Zenon DEF AnswerType
  <2>2. a.max_qos \in 0..2 /\ a.reason_code \in Byte
    BY Zenon DEF AnswerType
  <2>3. (\A k \in 0..2 : k \in Nat) /\ (\A k \in Byte : k \in Nat)
    BY DEF Byte
  <2> QED
    BY <2>1, <2>2, <2>3, Zenon
<1>3. 2 \in {1, 2, 4} /\ 4 \in {1, 2, 4}
  OBVIOUS
<1>4. p1 \in Seq(Nat) /\ p7 \in Seq(Nat) /\ p13 \in Seq(Nat) /\ p14 \in Seq(Nat)
  BY <1>1, Names, StringProperty5, Zenon
<1>5. p2 \in Seq(Nat) /\ p3 \in Seq(Nat) /\ p6 \in Seq(Nat) /\ p8 \in Seq(Nat) /\ p12 \in Seq(Nat)
  BY <1>2, <1>3, Names, Number5, Zenon
<1>6. p4 \in Seq(Nat)
  <2>1. MQTT5_PROPERTY.maximum_qos \in Nat
    BY DEF MQTT5_PROPERTY
  <2> DEFINE n == MQTT5_PROPERTY.maximum_qos
  <2>2. n \in Nat
    BY <2>1
  <2> HIDE DEF n
  <2>3. <<n, a.max_qos>> \in Seq(Nat) /\ <<>> \in Seq(Nat)
    BY <1>2, <2>2
  <2> QED
    BY <2>3, Zenon DEF n
<1>7. p5 \in Seq(Nat) /\ p9 \in Seq(Nat) /\ p10 \in Seq(Nat) /\ p11 \in Seq(Nat)
  BY Names, Flag5, Zenon
<1>8. p15 \in Seq(Nat)
  BY <1>2, UserProperties5, Zenon
<1>9. head \in Seq(Nat)
  <2> DEFINE x == IF present THEN 1 ELSE 0
  <2>1. x \in Nat
    OBVIOUS
  <2> HIDE DEF x
  <2>2. <<x, a.reason_code>> \in Seq(Nat)
    BY <1>2, <2>1
  <2> QED
    BY <2>2, Zenon DEF x
<1>10. SendConnAck(present, a) = SendMessage(CONNACK, 0, body)
  BY Zenon DEF SendConnAck
<1> HIDE DEF p1, p2, p3, p4, p5, p6, p7, p8, p9, p10, p11, p12, p13, p14, p15, head
<1>11. props \in Seq(Nat)
  <2> DEFINE u == p1 \o p2 \o p3 \o p4 \o p5 \o p6 \o p7
             v == u \o p8 \o p9 \o p10 \o p11 \o p12 \o p13
  <2>1. u \in Seq(Nat)
    BY <1>4, <1>5, <1>6, <1>7, Seven5, Zenon
  <2> HIDE DEF u
  <2>2. v \in Seq(Nat)
    BY <1>4, <1>5, <1>7, <2>1, Seven5, Zenon
  <2> HIDE DEF v
  <2>3. v \o p14 \in Seq(Nat)
    BY <1>4, <2>2, Concat5, Zenon
  <2>4. v \o p14 \o p15 \in Seq(Nat)
    BY <1>8, <2>3, Concat5, Zenon
  <2> QED
    BY <2>4, Zenon DEF u, v
<1>12. body \in Seq(Nat)
  <2> HIDE DEF props
  <2>1. Block(props) \in Seq(Nat)
    BY <1>11, Block5, Zenon
  <2> QED
    BY <1>9, <2>1, Concat5, Zenon
<1> HIDE DEF body
<1> QED
  BY <1>10, <1>12, Codes, SendIs, Zenon

\* ... as it is sent to a client.
LEMMA SaysToSays ==
    ASSUME NEW a \in Answers, NEW connect
    PROVE  \E x : SaysTo(connect, a) = <<x>> /\ FromBroker(x.bytes, CONNACK)
<1>1. a \in AnswerType
  BY Mqtt5DataAssumption
<1>2. [a EXCEPT !.client_id = <<>>] \in AnswerType
  <2>1. <<>> \in Seq(Byte)
    OBVIOUS
  <2> QED
    BY <1>1, <2>1 DEF AnswerType
<1> DEFINE yes == connect.info.client_id = <<>>
           b == IF yes THEN a ELSE [a EXCEPT !.client_id = <<>>]
<1>3. b \in AnswerType
  BY <1>1, <1>2, Zenon
<1>4. \E z : SaysTo(connect, a) = <<[bytes |-> SendConnAck(session, b), meant |-> z]>>
  BY Zenon DEF SaysTo
<1>5. PICK z : SaysTo(connect, a) = <<[bytes |-> SendConnAck(session, b), meant |-> z]>>
  BY <1>4, Zenon
<1> HIDE DEF b
<1>6. FromBroker(SendConnAck(session, b), CONNACK)
  BY <1>3, ConnAckSays, Zenon
<1> DEFINE x == [bytes |-> SendConnAck(session, b), meant |-> z]
<1>7. x.bytes = SendConnAck(session, b)
  BY Zenon
<1> HIDE DEF x
<1>8. SaysTo(connect, a) = <<x>> /\ FromBroker(x.bytes, CONNACK)
  BY <1>5, <1>6, <1>7, Zenon DEF x
<1> QED
  BY <1>8, Zenon

---------------------------------------------------------------------------
\* The bytes on their way to the broker: f[k] is what follows the first k
\* messages.

Strm(f, bytes, records) ==
    /\ f \in [0..Len(records) -> Seq(Nat)]
    /\ f[0] = bytes
    /\ f[Len(records)] = <<>>
    /\ \A k \in 1..Len(records) : \E g : Carries(g, records[k]) /\ f[k - 1] = g \o f[k]
StreamOf(bytes, records) == \E f : Strm(f, bytes, records)

\* A message is bytes.
LEMMA CarriesBytes ==
    ASSUME NEW g, NEW r, Carries(g, r)
    PROVE  g \in Seq(Nat)
BY DEF Carries, Wire

\* The empty stream means nothing.
LEMMA StreamStarts == StreamOf(<<>>, <<>>)
<1> DEFINE f == [k \in 0..0 |-> <<>>]
<1>1. f \in [0..0 -> Seq(Nat)]
  BY Empty5
<1>2. f[0] = <<>>
  OBVIOUS
<1>3. Len(<<>>) = 0 /\ 1..0 = {}
  OBVIOUS
<1> HIDE DEF f
<1>4. Strm(f, <<>>, <<>>)
  BY <1>1, <1>2, <1>3, Zenon DEF Strm
<1> QED
  BY <1>4, Zenon DEF StreamOf

\* A message at the end of the stream.
LEMMA StreamGrows5 ==
    ASSUME NEW bytes, NEW records, NEW R, records \in Seq(R), NEW g, NEW r,
           StreamOf(bytes, records), Carries(g, r)
    PROVE  StreamOf(bytes \o g, Append(records, r))
<1>1. PICK f : Strm(f, bytes, records)
  BY Zenon DEF StreamOf
<1> DEFINE n == Len(records)
           new == Append(records, r)
           e == [k \in 0..(n + 1) |-> IF k \in 0..n THEN f[k] \o g ELSE <<>>]
<1>2. n \in Nat /\ Len(new) = n + 1
      /\ (\A k \in 1..n : new[k] = records[k]) /\ new[n + 1] = r
  OBVIOUS
<1>3. g \in Seq(Nat)
  BY CarriesBytes, Zenon
<1>4. \A k \in 0..n : f[k] \in Seq(Nat)
  BY <1>1, Zenon DEF Strm
<1>5. \A k \in 0..n : f[k] \o g \in Seq(Nat)
  BY <1>3, <1>4, Concat5, Zenon
<1> HIDE DEF n, new
<1>6. e \in [0..(n + 1) -> Seq(Nat)]
  <2>1. <<>> \in Seq(Nat)
    OBVIOUS
  <2>2. \A k \in 0..(n + 1) : (IF k \in 0..n THEN f[k] \o g ELSE <<>>) \in Seq(Nat)
    BY <1>5, <2>1, Zenon
  <2> QED
    BY <2>2, Zenon
<1>7. (\A k \in 0..n : e[k] = f[k] \o g) /\ e[n + 1] = <<>>
  <2>1. \A k \in 0..n : k \in 0..(n + 1)
    BY <1>2
  <2>2. n + 1 \in 0..(n + 1) /\ n + 1 \notin 0..n
    BY <1>2
  <2> QED
    BY <2>1, <2>2, Zenon
<1> HIDE DEF e
<1>8. e[0] = bytes \o g
  <2>1. 0 \in 0..n
    BY <1>2
  <2> QED
    BY <1>1, <1>7, <2>1, Zenon DEF Strm
<1>9. \A k \in 1..(n + 1) : \E h : Carries(h, new[k]) /\ e[k - 1] = h \o e[k]
  <2> TAKE k \in 1..(n + 1)
  <2>1. CASE k \in 1..n
    <3>1. PICK h : Carries(h, records[k]) /\ f[k - 1] = h \o f[k]
      BY <1>1, <2>1, Zenon DEF Strm, n
    <3>2. h \in Seq(Nat)
      BY <3>1, CarriesBytes, Zenon
    <3>3. k - 1 \in 0..n /\ k \in 0..n
      BY <1>2, <2>1
    <3>4. f[k] \in Seq(Nat)
      BY <1>4, <3>3, Zenon
    <3>5. (h \o f[k]) \o g = h \o (f[k] \o g)
      BY <1>3, <3>2, <3>4, Assoc5, Zenon
    <3>6. e[k - 1] = f[k - 1] \o g /\ e[k] = f[k] \o g
      BY <1>7, <3>3, Zenon
    <3>7. e[k - 1] = h \o e[k]
      BY <3>1, <3>5, <3>6, Zenon
    <3>8. new[k] = records[k]
      BY <1>2, <2>1, Zenon
    <3> QED
      BY <3>1, <3>7, <3>8, Zenon
  <2>2. CASE k \notin 1..n
    <3>1. k = n + 1 /\ k - 1 = n /\ n \in 0..n
      BY <1>2, <2>2
    <3>2. e[k - 1] = f[n] \o g /\ e[k] = <<>>
      BY <1>7, <3>1, Zenon
    <3>3. f[n] = <<>>
      BY <1>1, Zenon DEF Strm, n
    <3>4. <<>> \o g = g /\ g \o <<>> = g
      BY <1>3
    <3>5. e[k - 1] = g \o e[k]
      BY <3>2, <3>3, <3>4, Zenon
    <3>6. new[k] = r
      BY <1>2, <3>1, Zenon
    <3> QED
      BY <3>5, <3>6, Zenon
  <2> QED
    BY <2>1, <2>2
<1>10. Strm(e, bytes \o g, new)
  BY <1>2, <1>6, <1>7, <1>8, <1>9, Zenon DEF Strm
<1> QED
  BY <1>10, Zenon DEF StreamOf, new

\* A stream of one message.
LEMMA StreamOfOne ==
    ASSUME NEW g, NEW r, Carries(g, r)
    PROVE  StreamOf(g, <<r>>)
<1>1. StreamOf(<<>> \o g, Append(<<>>, r))
  <2>1. <<>> \in Seq({})
    OBVIOUS
  <2> QED
    BY <2>1, StreamStarts, StreamGrows5
<1>2. <<>> \o g = g /\ Append(<<>>, r) = <<r>>
  <2>1. g \in Seq(Nat)
    BY CarriesBytes, Zenon
  <2> QED
    BY <2>1
<1> QED
  BY <1>1, <1>2, Zenon

\* The broker takes the first message.
LEMMA StreamReads ==
    ASSUME NEW bytes, NEW records, NEW R, records \in Seq(R), StreamOf(bytes, records), HasMessage(bytes)
    PROVE  /\ records # <<>>
           /\ \A topics : Heads(Reading(FirstMessage(bytes), topics), records[1])
           /\ StreamOf(AfterFirst(bytes), Tail(records))
<1>1. PICK f : Strm(f, bytes, records)
  BY Zenon DEF StreamOf
<1> DEFINE n == Len(records)
<1>2. n \in Nat
  OBVIOUS
<1>3. n # 0
  <2> SUFFICES ASSUME n = 0 PROVE FALSE
    OBVIOUS
  <2>1. bytes = <<>>
    BY <1>1 DEF Strm
  <2> QED
    BY <2>1 DEF HasMessage
<1>4. records # <<>> /\ 1 \in 1..n
  BY <1>2, <1>3
<1> DEFINE rest == Tail(records)
<1>5. Len(rest) = n - 1 /\ \A k \in 1..(n - 1) : rest[k] = records[k + 1]
  BY <1>4
<1> HIDE DEF rest
<1>6. PICK g : Carries(g, records[1]) /\ f[1 - 1] = g \o f[1]
  BY <1>1, <1>4, Zenon DEF Strm
<1>7. bytes = g \o f[1]
  <2>1. 1 - 1 = 0
    OBVIOUS
  <2> QED
    BY <1>1, <1>6, <2>1, Zenon DEF Strm
<1>8. f[1] \in Seq(Nat)
  <2>1. 1 \in 0..n
    BY <1>2, <1>3
  <2> QED
    BY <1>1, <2>1, Zenon DEF Strm
<1>9. FirstMessage(bytes) = g /\ AfterFirst(bytes) = f[1]
  <2>1. PICK b, body : Wire(g, b, body) /\ Len(body) <= MaxRemaining
    BY <1>6, Zenon DEF Carries
  <2> QED
    BY <1>7, <1>8, <2>1, Framing5, Zenon
<1>10. \A topics : Heads(Reading(FirstMessage(bytes), topics), records[1])
  BY <1>6, <1>9, Zenon DEF Carries
<1> DEFINE e == [k \in 0..(n - 1) |-> f[k + 1]]
<1>11. \A k \in 0..(n - 1) : k + 1 \in 0..n /\ k + 1 \in 1..n /\ (k + 1) - 1 = k
  BY <1>2
<1>12. e \in [0..(n - 1) -> Seq(Nat)]
  <2>1. \A k \in 0..(n - 1) : f[k + 1] \in Seq(Nat)
    BY <1>1, <1>11, Zenon DEF Strm
  <2> QED
    BY <2>1, Zenon
<1>13. e[0] = f[1] /\ e[n - 1] = f[n]
  <2>1. 0 \in 0..(n - 1) /\ n - 1 \in 0..(n - 1) /\ 0 + 1 = 1 /\ (n - 1) + 1 = n
    BY <1>2, <1>3
  <2>2. e[0] = f[0 + 1] /\ e[n - 1] = f[(n - 1) + 1]
    BY <2>1, Zenon
  <2> HIDE DEF e
  <2> QED
    BY <2>1, <2>2, Zenon
<1>14. \A k \in 1..(n - 1) : \E h : Carries(h, rest[k]) /\ e[k - 1] = h \o e[k]
  <2> TAKE k \in 1..(n - 1)
  <2>1. k + 1 \in 1..n /\ (k + 1) - 1 = k /\ k \in 0..(n - 1) /\ k - 1 \in 0..(n - 1)
        /\ (k - 1) + 1 = k
    BY <1>2
  <2>2. PICK h : Carries(h, records[k + 1]) /\ f[(k + 1) - 1] = h \o f[k + 1]
    BY <1>1, <2>1, Zenon DEF Strm
  <2>3. e[k - 1] = f[(k - 1) + 1] /\ e[k] = f[k + 1]
    BY <2>1, Zenon
  <2> HIDE DEF e
  <2>4. e[k - 1] = h \o e[k]
    BY <2>1, <2>2, <2>3, Zenon
  <2>5. rest[k] = records[k + 1]
    BY <1>5, Zenon
  <2> QED
    BY <2>2, <2>4, <2>5, Zenon
<1> HIDE DEF e, n
<1>15. Strm(e, f[1], rest)
  <2>1. f[n] = <<>>
    BY <1>1, Zenon DEF Strm, n
  <2> QED
    BY <1>5, <1>12, <1>13, <1>14, <2>1, Zenon DEF Strm
<1> QED
  BY <1>4, <1>9, <1>10, <1>15, Zenon DEF StreamOf, rest

---------------------------------------------------------------------------
\* The oldest of a set of items.

\* Oldest is 0 or one of them.
LEMMA OldestIs ==
    ASSUME NEW S \in SUBSET Nat
    PROVE  /\ S # {} => Oldest(S) \in S
           /\ S = {} => Oldest(S) = 0
BY MinIn, Zenon DEF Oldest

---------------------------------------------------------------------------
\* The publications: what is stored, meant and heard of them.

\* PUBLISH with an identifier, or PUBREL: the broker answers with PUBACK, PUBREC or PUBCOMP.
Token(r) == r.type = "PUBREL" \/ (r.type = "PUBLISH" /\ r.qos > 0)
Answer(x) == SaidType(x) \in {PUBACK, PUBREC, PUBCOMP}

\* An item of the outbox, and the outbox: no identifier is there twice.
Fields == {"id", "type", "qos", "bytes", "pending", "record"}
ItemOK(x, last) ==
    /\ DOMAIN x = Fields
    /\ x.pending \in Pending
    /\ x.id \in 0..last
    /\ x.qos \in 0..2
    /\ x.type \in {PUBLISH, SUBSCRIBE, UNSUBSCRIBE}
    /\ x.type = PUBLISH =>
          /\ x.record.type = "PUBLISH" /\ x.record.qos = x.qos /\ x.record.id = x.id
          /\ x.qos > 0 <=> x.id > 0
    /\ x.type # PUBLISH =>
          /\ x.qos = 0 /\ x.record.type \in {"SUBSCRIBE", "UNSUBSCRIBE"} /\ x.record.id = x.id
          /\ x.pending # "QUEUED"
    /\ (x.id = 0 => x.pending = "QUEUED")
Items(o, last) ==
    /\ IsSeq(o)
    /\ \A i \in DOMAIN o : ItemOK(o[i], last)
    /\ \A i, j \in DOMAIN o : o[i].id = o[j].id /\ o[i].id # 0 => i = j

\* What a message means, and the stream of them.
MeantOK(r, last) ==
    /\ r.type = "PUBLISH" => r.qos \in 0..2
    /\ Token(r) => r.id \in 1..last
    /\ r.type \in {"PUBREC", "SUBSCRIBE", "UNSUBSCRIBE"} => r.id \in Nat
Meanings(m, last) ==
    /\ IsSeq(m)
    /\ \A k \in DOMAIN m : MeantOK(m[k], last)

\* What the broker sends, and the stream of it.
HeardOK(x, last) ==
    /\ \E type \in 0..15 : FromBroker(x.bytes, type)
    /\ Answer(x) => SaidId(x) \in 1..last
Arriving(c, last) ==
    /\ IsSeq(c)
    /\ \A k \in DOMAIN c : HeardOK(c[k], last)

\* A message whose PUBREL is under way is not published again, and the
\* PUBREL is behind its publications.
Released(o, m) ==
    \A k \in DOMAIN m, i \in DOMAIN o :
        m[k].type = "PUBREL" /\ o[i].qos = 2 /\ o[i].id = m[k].id =>
            o[i].pending = "ACKNOWLEDGED"
InOrder(m) ==
    \A j, k \in DOMAIN m :
        m[j].type = "PUBREL" /\ m[k].type = "PUBLISH"
          /\ m[k].qos = 2 /\ m[k].id = m[j].id => k < j
\* What may still be published is held by the broker, if it was published.
HeldOnTheWay(m, g, h) ==
    \A k \in DOMAIN m :
        m[k].type = "PUBLISH" /\ m[k].qos = 2 /\ m[k].id \in g => m[k].id \in h
HeldInOutbox(o, g, h) ==
    \A i \in DOMAIN o :
        o[i].qos = 2 /\ o[i].pending # "ACKNOWLEDGED" /\ o[i].id \in g => o[i].id \in h
\* An identifier has one quality of service.
OneQos(m) ==
    \A j, k \in DOMAIN m :
        m[j].type = "PUBLISH" /\ m[k].type = "PUBLISH" /\ Token(m[j]) /\ Token(m[k])
          /\ m[j].id = m[k].id => m[j].qos = m[k].qos
QosOfItem(o, m) ==
    \A k \in DOMAIN m, i \in DOMAIN o :
        m[k].type = "PUBLISH" /\ Token(m[k]) /\ o[i].type = PUBLISH
          /\ m[k].id = o[i].id => m[k].qos = o[i].qos
\* What makes a publication of QoS 2 one publication.
Once(o, m, g, h) ==
    /\ Released(o, m) /\ InOrder(m)
    /\ HeldOnTheWay(m, g, h) /\ HeldInOutbox(o, g, h)
    /\ OneQos(m) /\ QosOfItem(o, m)

\* What is only queued is not counted.
Queued(o, f) == \A i \in DOMAIN o : o[i].pending = "QUEUED" => o[i].id \notin f
\* An identifier that is counted is under way at most once, as a message or
\* as an answer; and what is under way is counted.
TokensIn(m, f) == \A k \in DOMAIN m : Token(m[k]) => m[k].id \in f
AnswersIn(c, f) == \A k \in DOMAIN c : Answer(c[k]) => SaidId(c[k]) \in f
TokensOnce(m) ==
    \A j, k \in DOMAIN m : Token(m[j]) /\ Token(m[k]) /\ m[j].id = m[k].id => j = k
AnswersOnce(c) ==
    \A j, k \in DOMAIN c :
        Answer(c[j]) /\ Answer(c[k]) /\ SaidId(c[j]) = SaidId(c[k]) => j = k
Apart(m, c) ==
    \A j \in DOMAIN m, k \in DOMAIN c :
        ~(Token(m[j]) /\ Answer(c[k]) /\ m[j].id = SaidId(c[k]))
\* All of it: m is meant, c arrives and f is counted.
UnderWay(m, c, f) ==
    /\ TokensIn(m, f) /\ AnswersIn(c, f)
    /\ TokensOnce(m) /\ AnswersOnce(c) /\ Apart(m, c)

---------------------------------------------------------------------------
\* x comes from y: it is the same message, acknowledged if y is.
Like(x, y) ==
    /\ x.id = y.id /\ x.qos = y.qos /\ x.type = y.type
    /\ y.pending = "ACKNOWLEDGED" => x.pending = "ACKNOWLEDGED"
\* Each item is of the outbox or new.
Continues(n, o, last) ==
    \A i \in DOMAIN n : n[i].id \notin 1..last \/ \E j \in DOMAIN o : Like(n[i], o[j])

\* The outbox goes on with the same publications.
LEMMA OnceContinues ==
    ASSUME NEW o, NEW n, NEW m, NEW g, NEW h, NEW last \in Nat, NEW z \in Nat,
           Once(o, m, g, h), Meanings(m, last), g \subseteq 1..last,
           Items(n, z), Continues(n, o, last)
    PROVE  Once(n, m, g, h)
<1>1. ASSUME NEW k \in DOMAIN m, NEW i \in DOMAIN n,
             m[k].type = "PUBREL", n[i].qos = 2, n[i].id = m[k].id
      PROVE  n[i].pending = "ACKNOWLEDGED"
  <2>1. m[k].id \in 1..last
    BY <1>1, Zenon DEF Meanings, MeantOK, Token
  <2>2. PICK j \in DOMAIN o : Like(n[i], o[j])
    BY <1>1, <2>1, Zenon DEF Continues
  <2> QED
    BY <1>1, <2>2, Zenon DEF Once, Released, Like
<1>2. ASSUME NEW i \in DOMAIN n,
             n[i].qos = 2, n[i].pending # "ACKNOWLEDGED", n[i].id \in g
      PROVE  n[i].id \in h
  <2>1. n[i].id \in 1..last
    BY <1>2
  <2>2. PICK j \in DOMAIN o : Like(n[i], o[j])
    BY <1>2, <2>1, Zenon DEF Continues
  <2> QED
    BY <1>2, <2>2, Zenon DEF Once, HeldInOutbox, Like
<1>3. ASSUME NEW k \in DOMAIN m, NEW i \in DOMAIN n,
             m[k].type = "PUBLISH", Token(m[k]), n[i].type = PUBLISH, m[k].id = n[i].id
      PROVE  m[k].qos = n[i].qos
  <2>1. m[k].id \in 1..last
    BY <1>3, Zenon DEF Meanings, MeantOK
  <2>2. PICK j \in DOMAIN o : Like(n[i], o[j])
    BY <1>3, <2>1, Zenon DEF Continues
  <2> QED
    BY <1>3, <2>2, Zenon DEF Once, QosOfItem, Like
<1>4. Released(n, m) /\ HeldInOutbox(n, g, h) /\ QosOfItem(n, m)
  BY <1>1, <1>2, <1>3, Zenon DEF Released, HeldInOutbox, QosOfItem
<1> QED
  BY <1>4, Zenon DEF Once

\* What is written changes nothing that counts.
LEMMA OnceQuiet ==
    ASSUME NEW o, NEW m, NEW n, NEW r, NEW g, NEW h, Once(o, m, g, h),
           Grown(n, m, r), ~Token(r)
    PROVE  Once(o, n, g, h)
<1>1. r.type # "PUBREL" /\ (r.type = "PUBLISH" => ~(r.qos > 0))
  BY Zenon DEF Token
<1> DEFINE z == Len(m) + 1
<1>2. r.type = "PUBLISH" => r.qos # 2
  BY <1>1
<1>3. /\ DOMAIN n = DOMAIN m \cup {z} /\ n[z] = r
      /\ \A k \in DOMAIN m : n[k] = m[k]
  BY Zenon DEF Grown
<1> HIDE DEF z
<1>4. \A k \in DOMAIN n : n[k].type = "PUBREL" \/ Token(n[k])
          \/ (n[k].type = "PUBLISH" /\ n[k].qos = 2) => k \in DOMAIN m /\ n[k] = m[k]
  BY <1>1, <1>2, <1>3, Zenon
<1>5. Released(o, n)
  BY <1>4, Zenon DEF Once, Released
<1>6. InOrder(n)
  BY <1>4, Zenon DEF Once, InOrder
<1>7. HeldOnTheWay(n, g, h)
  BY <1>4, Zenon DEF Once, HeldOnTheWay
<1>8. OneQos(n)
  <2> SUFFICES ASSUME NEW j \in DOMAIN n, NEW k \in DOMAIN n, n[j].type = "PUBLISH",
                      n[k].type = "PUBLISH", Token(n[j]), Token(n[k]), n[j].id = n[k].id
               PROVE  n[j].qos = n[k].qos
    BY Zenon DEF OneQos
  <2>1. j \in DOMAIN m /\ n[j] = m[j] /\ k \in DOMAIN m /\ n[k] = m[k]
    BY <1>4, Zenon
  <2> QED
    BY <2>1, Zenon DEF Once, OneQos
<1>9. QosOfItem(o, n)
  <2> SUFFICES ASSUME NEW k \in DOMAIN n, NEW i \in DOMAIN o, n[k].type = "PUBLISH",
                      Token(n[k]), o[i].type = PUBLISH, n[k].id = o[i].id
               PROVE  n[k].qos = o[i].qos
    BY Zenon DEF QosOfItem
  <2>1. k \in DOMAIN m /\ n[k] = m[k]
    BY <1>4, Zenon
  <2> QED
    BY <2>1, Zenon DEF Once, QosOfItem
<1> QED
  BY <1>5, <1>6, <1>7, <1>8, <1>9, Zenon DEF Once

\* A message of the outbox is written.
LEMMA OncePublish ==
    ASSUME NEW o, NEW m, NEW n, NEW r, NEW g, NEW h, NEW last \in Nat, Once(o, m, g, h),
           Items(o, last), Grown(n, m, r),
           NEW i \in DOMAIN o, o[i].type = PUBLISH, o[i].pending # "ACKNOWLEDGED",
           r.type = "PUBLISH", r.qos = o[i].qos, r.id = o[i].id, r.qos > 0
    PROVE  Once(o, n, g, h)
<1> DEFINE z == Len(m) + 1
<1>1. /\ DOMAIN n = DOMAIN m \cup {z} /\ n[z] = r
      /\ \A k \in DOMAIN m : n[k] = m[k] /\ k < z
  BY Zenon DEF Grown
<1> HIDE DEF z
<1>2. r.id # 0
  <2>1. ItemOK(o[i], last)
    BY Zenon DEF Items
  <2>2. o[i].id > 0
    BY <2>1, Zenon DEF ItemOK
  <2> QED
    BY <2>2
<1>3. \A j \in DOMAIN o : o[j].id = r.id => j = i
  BY <1>2, Zenon DEF Items
<1>4. "PUBREL" # "PUBLISH"
  OBVIOUS
<1>5. ASSUME NEW k \in DOMAIN n, NEW j \in DOMAIN o,
             n[k].type = "PUBREL", o[j].qos = 2, o[j].id = n[k].id
      PROVE  o[j].pending = "ACKNOWLEDGED"
  BY <1>1, <1>4, <1>5, Zenon DEF Once, Released
<1>6. ASSUME NEW j \in DOMAIN n, NEW k \in DOMAIN n, n[j].type = "PUBREL",
             n[k].type = "PUBLISH", n[k].qos = 2, n[k].id = n[j].id
      PROVE  k < j
  <2>1. j \in DOMAIN m /\ n[j] = m[j]
    BY <1>1, <1>4, <1>6, Zenon
  <2>2. CASE k \in DOMAIN m
    BY <1>1, <1>6, <2>1, <2>2, Zenon DEF Once, InOrder
  <2>3. CASE k = z
    <3>1. o[i].qos = 2 /\ o[i].id = m[j].id
      BY <1>1, <1>6, <2>1, <2>3, Zenon
    <3> QED
      BY <1>6, <2>1, <3>1, Zenon DEF Once, Released
  <2> QED
    BY <1>1, <2>2, <2>3, Zenon
<1>7. ASSUME NEW k \in DOMAIN n, n[k].type = "PUBLISH", n[k].qos = 2, n[k].id \in g
      PROVE  n[k].id \in h
  <2>1. CASE k \in DOMAIN m
    BY <1>1, <1>7, <2>1, Zenon DEF Once, HeldOnTheWay
  <2>2. CASE k = z
    BY <1>1, <1>7, <2>2, Zenon DEF Once, HeldInOutbox
  <2> QED
    BY <1>1, <2>1, <2>2, Zenon
<1>8. ASSUME NEW k \in DOMAIN n, n[k].type = "PUBLISH", Token(n[k]), n[k].id = r.id
      PROVE  n[k].qos = r.qos
  BY <1>1, <1>8, Zenon DEF Once, QosOfItem
<1>9. ASSUME NEW j \in DOMAIN n, NEW k \in DOMAIN n, n[j].type = "PUBLISH",
             n[k].type = "PUBLISH", Token(n[j]), Token(n[k]), n[j].id = n[k].id
      PROVE  n[j].qos = n[k].qos
  <2>1. CASE j \in DOMAIN m /\ k \in DOMAIN m
    BY <1>1, <1>9, <2>1, Zenon DEF Once, OneQos
  <2>2. CASE j = z
    BY <1>1, <1>8, <1>9, <2>2, Zenon
  <2>3. CASE k = z
    BY <1>1, <1>8, <1>9, <2>3, Zenon
  <2> QED
    BY <1>1, <2>1, <2>2, <2>3, Zenon
<1>10. ASSUME NEW k \in DOMAIN n, NEW j \in DOMAIN o,
             n[k].type = "PUBLISH", Token(n[k]), o[j].type = PUBLISH, n[k].id = o[j].id
      PROVE  n[k].qos = o[j].qos
  <2>1. CASE k \in DOMAIN m
    BY <1>1, <1>10, <2>1, Zenon DEF Once, QosOfItem
  <2>2. CASE k = z
    BY <1>1, <1>3, <1>10, <2>2, Zenon
  <2> QED
    BY <1>1, <2>1, <2>2, Zenon
<1>11. Released(o, n) /\ InOrder(n) /\ HeldOnTheWay(n, g, h)
  BY <1>5, <1>6, <1>7, Zenon DEF Released, InOrder, HeldOnTheWay
<1>12. OneQos(n) /\ QosOfItem(o, n)
  BY <1>9, <1>10, Zenon DEF OneQos, QosOfItem
<1> QED
  BY <1>11, <1>12, Zenon DEF Once

\* PUBREL is written.
LEMMA OncePubrel ==
    ASSUME NEW o, NEW m, NEW n, NEW r, NEW g, NEW h, Once(o, m, g, h),
           Grown(n, m, r), r.type = "PUBREL",
           \A i \in DOMAIN o : o[i].qos = 2 /\ o[i].id = r.id => o[i].pending = "ACKNOWLEDGED"
    PROVE  Once(o, n, g, h)
<1> DEFINE z == Len(m) + 1
<1>1. /\ DOMAIN n = DOMAIN m \cup {z} /\ n[z] = r
      /\ \A k \in DOMAIN m : n[k] = m[k] /\ k < z
  BY Zenon DEF Grown
<1> HIDE DEF z
<1>2. "PUBREL" # "PUBLISH"
  OBVIOUS
<1>3. \A k \in DOMAIN n : n[k].type = "PUBLISH" => k \in DOMAIN m /\ n[k] = m[k] /\ k < z
  BY <1>1, <1>2, Zenon
<1>4. ASSUME NEW k \in DOMAIN n, NEW j \in DOMAIN o,
             n[k].type = "PUBREL", o[j].qos = 2, o[j].id = n[k].id
      PROVE  o[j].pending = "ACKNOWLEDGED"
  BY <1>1, <1>4, Zenon DEF Once, Released
<1>5. ASSUME NEW j \in DOMAIN n, NEW k \in DOMAIN n, n[j].type = "PUBREL",
             n[k].type = "PUBLISH", n[k].qos = 2, n[k].id = n[j].id
      PROVE  k < j
  BY <1>1, <1>3, <1>5, Zenon DEF Once, InOrder
<1>6. Released(o, n) /\ InOrder(n)
  BY <1>4, <1>5, Zenon DEF Released, InOrder
<1>7. HeldOnTheWay(n, g, h)
  BY <1>3, Zenon DEF Once, HeldOnTheWay
<1>8. OneQos(n)
  <2> SUFFICES ASSUME NEW j \in DOMAIN n, NEW k \in DOMAIN n, n[j].type = "PUBLISH",
                      n[k].type = "PUBLISH", Token(n[j]), Token(n[k]), n[j].id = n[k].id
               PROVE  n[j].qos = n[k].qos
    BY Zenon DEF OneQos
  <2>1. j \in DOMAIN m /\ n[j] = m[j] /\ k \in DOMAIN m /\ n[k] = m[k]
    BY <1>3, Zenon
  <2> QED
    BY <2>1, Zenon DEF Once, OneQos
<1>9. QosOfItem(o, n)
  <2> SUFFICES ASSUME NEW k \in DOMAIN n, NEW i \in DOMAIN o, n[k].type = "PUBLISH",
                      Token(n[k]), o[i].type = PUBLISH, n[k].id = o[i].id
               PROVE  n[k].qos = o[i].qos
    BY Zenon DEF QosOfItem
  <2>1. k \in DOMAIN m /\ n[k] = m[k]
    BY <1>3, Zenon
  <2> QED
    BY <2>1, Zenon DEF Once, QosOfItem
<1> QED
  BY <1>6, <1>7, <1>8, <1>9, Zenon DEF Once

\* Nothing is under way but a CONNECT.
LEMMA OnceConnect ==
    ASSUME NEW o, NEW m, NEW n, NEW g, NEW h, Once(o, m, g, h),
           \A k \in DOMAIN n : n[k].type = "CONNECT"
    PROVE  Once(o, n, g, h)
<1>1. "CONNECT" # "PUBLISH" /\ "CONNECT" # "PUBREL"
  OBVIOUS
<1>2. Released(o, n) /\ InOrder(n) /\ HeldOnTheWay(n, g, h) /\ OneQos(n) /\ QosOfItem(o, n)
  BY <1>1, Zenon DEF Released, InOrder, HeldOnTheWay, OneQos, QosOfItem
<1> QED
  BY <1>2, Zenon DEF Once

\* What the broker does with a message r like the first one.
Held(r, h) ==
    IF r.type = "PUBLISH" /\ r.qos = 2 THEN h \cup {r.id}
    ELSE IF r.type = "PUBREL" THEN h \ {r.id} ELSE h
Got(r, g) == IF r.type = "PUBLISH" /\ r.qos > 0 THEN g \cup {r.id} ELSE g

\* The broker takes the first message, and does not take it twice.
LEMMA OnceRead ==
    ASSUME NEW o, NEW m, NEW n, NEW r, NEW g, NEW h, NEW last, Once(o, m, g, h),
           Meanings(m, last), Items(o, last), Shrunk(n, m), r = m[1]
    PROVE  /\ Once(o, n, Got(r, g), Held(r, h))
           /\ ~(r.type = "PUBLISH" /\ r.qos = 2 /\ r.id \in g \ h)
<1>1. /\ 1 \in DOMAIN m
      /\ \A k \in DOMAIN n : k + 1 \in DOMAIN m /\ n[k] = m[k + 1] /\ 1 < k + 1 /\ k \in Nat
  BY Zenon DEF Shrunk
<1>2. ASSUME NEW k \in DOMAIN n, NEW i \in DOMAIN o,
             n[k].type = "PUBREL", o[i].qos = 2, o[i].id = n[k].id
      PROVE  o[i].pending = "ACKNOWLEDGED"
  BY <1>1, <1>2, Zenon DEF Once, Released
<1>3. ASSUME NEW j \in DOMAIN n, NEW k \in DOMAIN n, n[j].type = "PUBREL",
             n[k].type = "PUBLISH", n[k].qos = 2, n[k].id = n[j].id
      PROVE  k < j
  <2>1. k + 1 < j + 1
    BY <1>1, <1>3, Zenon DEF Once, InOrder
  <2> QED
    BY <1>1, <2>1
<1>4. \A q : q = 2 => q > 0
  OBVIOUS
<1>5. \A k \in DOMAIN m : m[k].type = "PUBLISH" => m[k].qos \in 0..2
  BY Zenon DEF Meanings, MeantOK
<1>6. "PUBLISH" # "PUBREL"
  OBVIOUS
\* The other publications of that identifier have that quality of service.
<1>7. ASSUME NEW k \in DOMAIN n, n[k].type = "PUBLISH", n[k].qos = 2, n[k].id \in Got(r, g)
      PROVE  n[k].id \in Held(r, h)
  <2>1. k + 1 \in DOMAIN m /\ n[k] = m[k + 1] /\ Token(m[k + 1])
    BY <1>1, <1>4, <1>7, Zenon DEF Token
  <2>2. CASE n[k].id # r.id
    <3>1. n[k].id \in g
      BY <1>7, <2>2, Zenon DEF Got
    <3>2. n[k].id \in h
      BY <1>7, <2>1, <3>1, Zenon DEF Once, HeldOnTheWay
    <3> QED
      BY <2>2, <3>2, Zenon DEF Held
  <2>3. CASE n[k].id = r.id
    <3>1. r.type # "PUBREL"
      <4> SUFFICES ASSUME r.type = "PUBREL" PROVE FALSE
        OBVIOUS
      <4>1. k + 1 < 1
        BY <1>1, <1>7, <2>1, <2>3, Zenon DEF Once, InOrder
      <4> QED
        BY <1>1, <4>1
    <3>2. CASE r.type = "PUBLISH" /\ r.qos > 0
      <4>1. Token(r)
        BY <3>2, Zenon DEF Token
      <4>2. r.qos = 2
        BY <1>1, <1>7, <2>1, <2>3, <3>2, <4>1, Zenon DEF Once, OneQos
      <4> QED
        BY <2>3, <3>2, <4>2, Zenon DEF Held
    <3>3. CASE ~(r.type = "PUBLISH" /\ r.qos > 0)
      <4>1. n[k].id \in g
        BY <1>7, <3>3, Zenon DEF Got
      <4>2. n[k].id \in h
        BY <1>7, <2>1, <4>1, Zenon DEF Once, HeldOnTheWay
      <4> QED
        BY <1>4, <3>1, <3>3, <4>2, Zenon DEF Held
    <3> QED
      BY <3>2, <3>3
  <2> QED
    BY <2>2, <2>3
<1>8. ASSUME NEW i \in DOMAIN o, o[i].qos = 2, o[i].pending # "ACKNOWLEDGED",
             o[i].id \in Got(r, g)
      PROVE  o[i].id \in Held(r, h)
  <2>1. CASE o[i].id # r.id
    <3>1. o[i].id \in g
      BY <1>8, <2>1, Zenon DEF Got
    <3>2. o[i].id \in h
      BY <1>8, <3>1, Zenon DEF Once, HeldInOutbox
    <3> QED
      BY <2>1, <3>2, Zenon DEF Held
  <2>2. CASE o[i].id = r.id
    <3>1. r.type # "PUBREL"
      BY <1>1, <1>8, <2>2, Zenon DEF Once, Released
    <3>2. CASE r.type = "PUBLISH" /\ r.qos > 0
      <4>1. Token(r)
        BY <3>2, Zenon DEF Token
      <4>2. o[i].type = PUBLISH
        <5>1. ItemOK(o[i], last)
          BY Zenon DEF Items
        <5>2. o[i].type # PUBLISH => o[i].qos = 0
          BY <5>1, Zenon DEF ItemOK
        <5> QED
          BY <1>8, <5>2
      <4>3. r.qos = 2
        BY <1>1, <1>8, <2>2, <3>2, <4>1, <4>2, Zenon DEF Once, QosOfItem
      <4> QED
        BY <2>2, <3>2, <4>3, Zenon DEF Held
    <3>3. CASE ~(r.type = "PUBLISH" /\ r.qos > 0)
      <4>1. o[i].id \in g
        BY <1>8, <3>3, Zenon DEF Got
      <4>2. o[i].id \in h
        BY <1>8, <4>1, Zenon DEF Once, HeldInOutbox
      <4> QED
        BY <1>4, <3>1, <3>3, <4>2, Zenon DEF Held
    <3> QED
      BY <3>2, <3>3
  <2> QED
    BY <2>1, <2>2
<1>9. ASSUME NEW j \in DOMAIN n, NEW k \in DOMAIN n, n[j].type = "PUBLISH",
             n[k].type = "PUBLISH", Token(n[j]), Token(n[k]), n[j].id = n[k].id
      PROVE  n[j].qos = n[k].qos
  BY <1>1, <1>9, Zenon DEF Once, OneQos
<1>10. ASSUME NEW k \in DOMAIN n, NEW i \in DOMAIN o,
             n[k].type = "PUBLISH", Token(n[k]), o[i].type = PUBLISH, n[k].id = o[i].id
      PROVE  n[k].qos = o[i].qos
  BY <1>1, <1>10, Zenon DEF Once, QosOfItem
<1>11. Once(o, n, Got(r, g), Held(r, h))
  <2>1. Released(o, n) /\ InOrder(n)
    BY <1>2, <1>3, Zenon DEF Released, InOrder
  <2>2. HeldOnTheWay(n, Got(r, g), Held(r, h)) /\ HeldInOutbox(o, Got(r, g), Held(r, h))
    BY <1>7, <1>8, Zenon DEF HeldOnTheWay, HeldInOutbox
  <2>3. OneQos(n) /\ QosOfItem(o, n)
    BY <1>9, <1>10, Zenon DEF OneQos, QosOfItem
  <2> QED
    BY <2>1, <2>2, <2>3, Zenon DEF Once
<1>12. ~(r.type = "PUBLISH" /\ r.qos = 2 /\ r.id \in g \ h)
  BY <1>1, Zenon DEF Once, HeldOnTheWay
<1> QED
  BY <1>11, <1>12

---------------------------------------------------------------------------
\* What is under way grows and shrinks.

\* Nothing that is under way has the identifier.
NotOf(m, c, id) ==
    /\ \A k \in DOMAIN m : Token(m[k]) => m[k].id # id
    /\ \A k \in DOMAIN c : Answer(c[k]) => SaidId(c[k]) # id

\* Nothing is under way.
LEMMA WayNone ==
    ASSUME NEW m, NEW c, NEW f, \A k \in DOMAIN m : ~Token(m[k]), DOMAIN c = {}
    PROVE  UnderWay(m, c, f)
<1>1. TokensIn(m, f) /\ AnswersIn(c, f)
  BY Zenon DEF TokensIn, AnswersIn
<1>2. TokensOnce(m) /\ AnswersOnce(c) /\ Apart(m, c)
  BY Zenon DEF TokensOnce, AnswersOnce, Apart
<1> QED
  BY <1>1, <1>2, Zenon DEF UnderWay

\* The answers of a connection are lost.
LEMMA WayCut ==
    ASSUME NEW m, NEW c, NEW f, UnderWay(m, c, f)
    PROVE  UnderWay(m, <<>>, f)
<1>1. DOMAIN <<>> = {}
  BY EmptyIs
<1>2. AnswersIn(<<>>, f) /\ AnswersOnce(<<>>) /\ Apart(m, <<>>)
  BY <1>1, Zenon DEF AnswersIn, AnswersOnce, Apart
<1> QED
  BY <1>2, Zenon DEF UnderWay

\* A message that is not counted is written.
LEMMA WayQuiet ==
    ASSUME NEW m, NEW c, NEW f, UnderWay(m, c, f), NEW n, NEW r, Grown(n, m, r), ~Token(r)
    PROVE  UnderWay(n, c, f)
<1> DEFINE z == Len(m) + 1
<1>1. /\ DOMAIN n = DOMAIN m \cup {z} /\ n[z] = r
      /\ \A k \in DOMAIN m : n[k] = m[k]
  BY Zenon DEF Grown
<1> HIDE DEF z
<1>2. \A k \in DOMAIN n : Token(n[k]) => k \in DOMAIN m /\ n[k] = m[k]
  BY <1>1, Zenon
<1>3. TokensIn(n, f)
  BY <1>2, Zenon DEF UnderWay, TokensIn
<1>4. TokensOnce(n)
  <2> SUFFICES ASSUME NEW j \in DOMAIN n, NEW k \in DOMAIN n,
                      Token(n[j]), Token(n[k]), n[j].id = n[k].id
               PROVE  j = k
    BY Zenon DEF TokensOnce
  <2>1. j \in DOMAIN m /\ n[j] = m[j] /\ k \in DOMAIN m /\ n[k] = m[k]
    BY <1>2, Zenon
  <2> QED
    BY <2>1, Zenon DEF UnderWay, TokensOnce
<1>5. Apart(n, c)
  <2> SUFFICES ASSUME NEW j \in DOMAIN n, NEW k \in DOMAIN c,
                      Token(n[j]), Answer(c[k]), n[j].id = SaidId(c[k])
               PROVE  FALSE
    BY Zenon DEF Apart
  <2>1. j \in DOMAIN m /\ n[j] = m[j]
    BY <1>2, Zenon
  <2> QED
    BY <2>1, Zenon DEF UnderWay, Apart
<1> QED
  BY <1>3, <1>4, <1>5, Zenon DEF UnderWay

\* A message that ends no publication is sent.
LEMMA WayHeard ==
    ASSUME NEW m, NEW c, NEW f, UnderWay(m, c, f), NEW d, NEW x, Grown(d, c, x), ~Answer(x)
    PROVE  UnderWay(m, d, f)
<1> DEFINE z == Len(c) + 1
<1>1. /\ DOMAIN d = DOMAIN c \cup {z} /\ d[z] = x
      /\ \A k \in DOMAIN c : d[k] = c[k]
  BY Zenon DEF Grown
<1> HIDE DEF z
<1>2. \A k \in DOMAIN d : Answer(d[k]) => k \in DOMAIN c /\ d[k] = c[k]
  BY <1>1, Zenon
<1>3. AnswersIn(d, f)
  BY <1>2, Zenon DEF UnderWay, AnswersIn
<1>4. AnswersOnce(d)
  <2> SUFFICES ASSUME NEW j \in DOMAIN d, NEW k \in DOMAIN d,
                      Answer(d[j]), Answer(d[k]), SaidId(d[j]) = SaidId(d[k])
               PROVE  j = k
    BY Zenon DEF AnswersOnce
  <2>1. j \in DOMAIN c /\ d[j] = c[j] /\ k \in DOMAIN c /\ d[k] = c[k]
    BY <1>2, Zenon
  <2> QED
    BY <2>1, Zenon DEF UnderWay, AnswersOnce
<1>5. Apart(m, d)
  <2> SUFFICES ASSUME NEW j \in DOMAIN m, NEW k \in DOMAIN d,
                      Token(m[j]), Answer(d[k]), m[j].id = SaidId(d[k])
               PROVE  FALSE
    BY Zenon DEF Apart
  <2>1. k \in DOMAIN c /\ d[k] = c[k]
    BY <1>2, Zenon
  <2> QED
    BY <2>1, Zenon DEF UnderWay, Apart
<1> QED
  BY <1>3, <1>4, <1>5, Zenon DEF UnderWay

\* A message that is counted is written.
LEMMA WayToken ==
    ASSUME NEW m, NEW c, NEW f, UnderWay(m, c, f), NEW n, NEW r, Grown(n, m, r),
           NotOf(m, c, r.id)
    PROVE  UnderWay(n, c, f \cup {r.id})
<1> DEFINE z == Len(m) + 1
<1>1. /\ DOMAIN n = DOMAIN m \cup {z} /\ n[z] = r
      /\ \A k \in DOMAIN m : n[k] = m[k]
  BY Zenon DEF Grown
<1> HIDE DEF z
<1>2. TokensIn(n, f \cup {r.id})
  BY <1>1, Zenon DEF UnderWay, TokensIn
<1>3. AnswersIn(c, f \cup {r.id})
  BY Zenon DEF UnderWay, AnswersIn
<1>4. TokensOnce(n)
  <2> SUFFICES ASSUME NEW j \in DOMAIN n, NEW k \in DOMAIN n,
                      Token(n[j]), Token(n[k]), n[j].id = n[k].id
               PROVE  j = k
    BY Zenon DEF TokensOnce
  <2>1. CASE j \in DOMAIN m /\ k \in DOMAIN m
    BY <1>1, <2>1, Zenon DEF UnderWay, TokensOnce
  <2>2. CASE j = z /\ k \in DOMAIN m
    BY <1>1, <2>2, Zenon DEF NotOf
  <2>3. CASE k = z /\ j \in DOMAIN m
    BY <1>1, <2>3, Zenon DEF NotOf
  <2> QED
    BY <1>1, <2>1, <2>2, <2>3, Zenon
<1>5. Apart(n, c)
  <2> SUFFICES ASSUME NEW j \in DOMAIN n, NEW k \in DOMAIN c,
                      Token(n[j]), Answer(c[k]), n[j].id = SaidId(c[k])
               PROVE  FALSE
    BY Zenon DEF Apart
  <2>1. CASE j \in DOMAIN m
    BY <1>1, <2>1, Zenon DEF UnderWay, Apart
  <2>2. CASE j = z
    BY <1>1, <2>2, Zenon DEF NotOf
  <2> QED
    BY <1>1, <2>1, <2>2, Zenon
<1> QED
  BY <1>2, <1>3, <1>4, <1>5, Zenon DEF UnderWay

\* Its answer is sent.
LEMMA WayAnswer ==
    ASSUME NEW m, NEW c, NEW f, UnderWay(m, c, f), NEW d, NEW x, Grown(d, c, x),
           NotOf(m, c, SaidId(x))
    PROVE  UnderWay(m, d, f \cup {SaidId(x)})
<1> DEFINE z == Len(c) + 1
<1>1. /\ DOMAIN d = DOMAIN c \cup {z} /\ d[z] = x
      /\ \A k \in DOMAIN c : d[k] = c[k]
  BY Zenon DEF Grown
<1> HIDE DEF z
<1>2. AnswersIn(d, f \cup {SaidId(x)})
  BY <1>1, Zenon DEF UnderWay, AnswersIn
<1>3. TokensIn(m, f \cup {SaidId(x)})
  BY Zenon DEF UnderWay, TokensIn
<1>4. AnswersOnce(d)
  <2> SUFFICES ASSUME NEW j \in DOMAIN d, NEW k \in DOMAIN d,
                      Answer(d[j]), Answer(d[k]), SaidId(d[j]) = SaidId(d[k])
               PROVE  j = k
    BY Zenon DEF AnswersOnce
  <2>1. CASE j \in DOMAIN c /\ k \in DOMAIN c
    BY <1>1, <2>1, Zenon DEF UnderWay, AnswersOnce
  <2>2. CASE j = z /\ k \in DOMAIN c
    BY <1>1, <2>2, Zenon DEF NotOf
  <2>3. CASE k = z /\ j \in DOMAIN c
    BY <1>1, <2>3, Zenon DEF NotOf
  <2> QED
    BY <1>1, <2>1, <2>2, <2>3, Zenon
<1>5. Apart(m, d)
  <2> SUFFICES ASSUME NEW j \in DOMAIN m, NEW k \in DOMAIN d,
                      Token(m[j]), Answer(d[k]), m[j].id = SaidId(d[k])
               PROVE  FALSE
    BY Zenon DEF Apart
  <2>1. CASE k \in DOMAIN c
    BY <1>1, <2>1, Zenon DEF UnderWay, Apart
  <2>2. CASE k = z
    BY <1>1, <2>2, Zenon DEF NotOf
  <2> QED
    BY <1>1, <2>1, <2>2, Zenon
<1> QED
  BY <1>2, <1>3, <1>4, <1>5, Zenon DEF UnderWay

\* The broker takes a message.
LEMMA WayShrinks ==
    ASSUME NEW m, NEW c, NEW f, UnderWay(m, c, f), NEW n, Shrunk(n, m)
    PROVE  /\ UnderWay(n, c, f)
           /\ Token(m[1]) => NotOf(n, c, m[1].id) /\ m[1].id \in f
<1>1. /\ 1 \in DOMAIN m
      /\ \A k \in DOMAIN n : k + 1 \in DOMAIN m /\ n[k] = m[k + 1] /\ 1 < k + 1 /\ k \in Nat
  BY Zenon DEF Shrunk
<1>2. \A j, k \in Nat : j + 1 = k + 1 => j = k
  BY SMT
<1>3. TokensIn(n, f)
  BY <1>1, Zenon DEF UnderWay, TokensIn
<1>4. TokensOnce(n)
  <2> SUFFICES ASSUME NEW j \in DOMAIN n, NEW k \in DOMAIN n,
                      Token(n[j]), Token(n[k]), n[j].id = n[k].id
               PROVE  j = k
    BY Zenon DEF TokensOnce
  <2>1. j + 1 = k + 1
    BY <1>1, Zenon DEF UnderWay, TokensOnce
  <2> QED
    BY <1>1, <1>2, <2>1, Zenon
<1>5. Apart(n, c)
  <2> SUFFICES ASSUME NEW j \in DOMAIN n, NEW k \in DOMAIN c,
                      Token(n[j]), Answer(c[k]), n[j].id = SaidId(c[k])
               PROVE  FALSE
    BY Zenon DEF Apart
  <2> QED
    BY <1>1, Zenon DEF UnderWay, Apart
<1>6. ASSUME Token(m[1]) PROVE NotOf(n, c, m[1].id) /\ m[1].id \in f
  <2>1. ASSUME NEW k \in DOMAIN n, Token(n[k]), n[k].id = m[1].id PROVE FALSE
    <3>1. k + 1 = 1
      BY <1>1, <1>6, <2>1, Zenon DEF UnderWay, TokensOnce
    <3> QED
      BY <1>1, <3>1
  <2>2. ASSUME NEW k \in DOMAIN c, Answer(c[k]), SaidId(c[k]) = m[1].id PROVE FALSE
    BY <1>1, <1>6, <2>2, Zenon DEF UnderWay, Apart
  <2>3. m[1].id \in f
    BY <1>1, <1>6, Zenon DEF UnderWay, TokensIn
  <2> QED
    BY <2>1, <2>2, <2>3, Zenon DEF NotOf
<1>7. UnderWay(n, c, f)
  BY <1>3, <1>4, <1>5, Zenon DEF UnderWay
<1> QED
  BY <1>6, <1>7

\* The client takes an answer.
LEMMA WayTaken ==
    ASSUME NEW m, NEW c, NEW f, UnderWay(m, c, f), NEW d, Shrunk(d, c)
    PROVE  /\ UnderWay(m, d, f)
           /\ Answer(c[1]) => NotOf(m, d, SaidId(c[1])) /\ SaidId(c[1]) \in f
<1>1. /\ 1 \in DOMAIN c
      /\ \A k \in DOMAIN d : k + 1 \in DOMAIN c /\ d[k] = c[k + 1] /\ 1 < k + 1 /\ k \in Nat
  BY Zenon DEF Shrunk
<1>2. \A j, k \in Nat : j + 1 = k + 1 => j = k
  BY SMT
<1>3. AnswersIn(d, f)
  BY <1>1, Zenon DEF UnderWay, AnswersIn
<1>4. AnswersOnce(d)
  <2> SUFFICES ASSUME NEW j \in DOMAIN d, NEW k \in DOMAIN d,
                      Answer(d[j]), Answer(d[k]), SaidId(d[j]) = SaidId(d[k])
               PROVE  j = k
    BY Zenon DEF AnswersOnce
  <2>1. j + 1 = k + 1
    BY <1>1, Zenon DEF UnderWay, AnswersOnce
  <2> QED
    BY <1>1, <1>2, <2>1, Zenon
<1>5. Apart(m, d)
  <2> SUFFICES ASSUME NEW j \in DOMAIN m, NEW k \in DOMAIN d,
                      Token(m[j]), Answer(d[k]), m[j].id = SaidId(d[k])
               PROVE  FALSE
    BY Zenon DEF Apart
  <2> QED
    BY <1>1, Zenon DEF UnderWay, Apart
<1>6. ASSUME Answer(c[1]) PROVE NotOf(m, d, SaidId(c[1])) /\ SaidId(c[1]) \in f
  <2>1. ASSUME NEW k \in DOMAIN d, Answer(d[k]), SaidId(d[k]) = SaidId(c[1]) PROVE FALSE
    <3>1. k + 1 = 1
      BY <1>1, <1>6, <2>1, Zenon DEF UnderWay, AnswersOnce
    <3> QED
      BY <1>1, <3>1
  <2>2. ASSUME NEW k \in DOMAIN m, Token(m[k]), m[k].id = SaidId(c[1]) PROVE FALSE
    BY <1>1, <1>6, <2>2, Zenon DEF UnderWay, Apart
  <2>3. SaidId(c[1]) \in f
    BY <1>1, <1>6, Zenon DEF UnderWay, AnswersIn
  <2> QED
    BY <2>1, <2>2, <2>3, Zenon DEF NotOf
<1>7. UnderWay(m, d, f)
  BY <1>3, <1>4, <1>5, Zenon DEF UnderWay
<1> QED
  BY <1>6, <1>7

\* What is answered is not counted any more.
LEMMA WayEnds ==
    ASSUME NEW m, NEW c, NEW f, UnderWay(m, c, f), NEW id, NotOf(m, c, id)
    PROVE  UnderWay(m, c, f \ {id})
<1>1. TokensIn(m, f \ {id}) /\ AnswersIn(c, f \ {id})
  BY Zenon DEF UnderWay, TokensIn, AnswersIn, NotOf
<1> QED
  BY <1>1, Zenon DEF UnderWay

\* What is not counted yet is not under way.
LEMMA WayFresh ==
    ASSUME NEW m, NEW c, NEW f, UnderWay(m, c, f), NEW id, id \notin f
    PROVE  NotOf(m, c, id)
BY Zenon DEF UnderWay, TokensIn, AnswersIn, NotOf

---------------------------------------------------------------------------
\* The counter.
Right(count, f, unc) ==
    /\ IsFiniteSet(f)
    /\ count \in Nat
    /\ count <= Cardinality(f)
    /\ ~unc => count = Cardinality(f)

\* A message that is written is counted, unless it is sent again.
LEMMA RightAdds ==
    ASSUME NEW count, NEW f, NEW unc, Right(count, f, unc), NEW id, NEW b, b \/ id \notin f
    PROVE  Right(count + (IF b THEN 0 ELSE 1), f \cup {id}, unc \/ b)
<1> DEFINE g == f \cup {id}
           new == count + (IF b THEN 0 ELSE 1)
<1>1. /\ IsFiniteSet(g)
      /\ Cardinality(g) = IF id \in f THEN Cardinality(f) ELSE Cardinality(f) + 1
  BY FS_AddElement DEF Right
<1>2. Cardinality(f) \in Nat
  BY FS_CardinalityType DEF Right
<1>3. count \in Nat /\ count <= Cardinality(f) /\ (~unc => count = Cardinality(f))
  BY Zenon DEF Right
<1> HIDE DEF g
<1>4. CASE b
  <2>1. new = count
    BY <1>3, <1>4
  <2>2. count <= Cardinality(g)
    BY <1>1, <1>2, <1>3
  <2> HIDE DEF new
  <2>3. Right(new, g, unc \/ b)
    BY <1>1, <1>3, <1>4, <2>1, <2>2, Zenon DEF Right
  <2> QED
    BY <2>3 DEF g, new
<1>5. CASE ~b
  <2>1. new = count + 1
    BY <1>5
  <2>2. id \notin f
    BY <1>5
  <2>3. count + 1 \in Nat /\ count + 1 <= Cardinality(g) /\ (~unc => count + 1 = Cardinality(g))
    BY <1>1, <1>2, <1>3, <2>2
  <2> HIDE DEF new
  <2>4. Right(new, g, unc \/ b)
    BY <1>1, <1>5, <2>1, <2>3, Zenon DEF Right
  <2> QED
    BY <2>4 DEF g, new
<1> QED
  BY <1>4, <1>5

\* An answer is taken off the counter.
LEMMA RightEnds ==
    ASSUME NEW count, NEW f, NEW unc, Right(count, f, unc), NEW id, unc \/ id \in f
    PROVE  Right(NotNegative(count - 1), f \ {id}, unc)
<1> DEFINE g == f \ {id}
           new == NotNegative(count - 1)
<1>1. /\ IsFiniteSet(g)
      /\ Cardinality(g) = IF id \in f THEN Cardinality(f) - 1 ELSE Cardinality(f)
  BY FS_RemoveElement DEF Right
<1>2. Cardinality(f) \in Nat /\ Cardinality(g) \in Nat
  BY <1>1, FS_CardinalityType DEF Right
<1>3. count \in Nat /\ count <= Cardinality(f) /\ (~unc => count = Cardinality(f))
  BY Zenon DEF Right
<1>4. /\ new \in Nat
      /\ count - 1 >= 0 => new = count - 1
      /\ count - 1 <= 0 => new = 0
  BY <1>3, NotNegativeIs
<1> HIDE DEF g, new
<1>5. new <= Cardinality(g)
  BY <1>1, <1>2, <1>3, <1>4
<1>6. ASSUME ~unc PROVE new = Cardinality(g)
  BY <1>1, <1>2, <1>3, <1>4, <1>6
<1>7. Right(new, g, unc)
  BY <1>1, <1>4, <1>5, <1>6, Zenon DEF Right
<1> QED
  BY <1>7 DEF g, new

\* The counter of a new connection.
LEMMA RightStarts == Right(0, {}, FALSE)
BY FS_EmptySet DEF Right

---------------------------------------------------------------------------
\* The outbox, what is meant and what arrives grow and shrink.

\* The next identifier is a new one.
LEMMA LaterIds ==
    ASSUME NEW last \in Nat
    PROVE  /\ 0..last \subseteq 0..(last + 1) /\ 1..last \subseteq 1..(last + 1)
           /\ last + 1 \in 0..(last + 1) /\ last + 1 \in 1..(last + 1) /\ last + 1 \notin 1..last
           /\ last + 1 \notin 0..last /\ last + 1 > 0 /\ last + 1 # 0 /\ last + 1 \in Nat
           /\ 0 \in 0..last /\ 0 \notin 1..last
BY SMT

\* It leaves the outbox as it is,
LEMMA LaterItems ==
    ASSUME NEW last \in Nat, NEW o, Items(o, last)
    PROVE  Items(o, last + 1)
<1>1. \A i \in DOMAIN o : ItemOK(o[i], last + 1)
  <2> TAKE i \in DOMAIN o
  <2>1. ItemOK(o[i], last)
    BY Zenon DEF Items
  <2>2. o[i].id \in 0..(last + 1)
    BY <2>1, LaterIds DEF ItemOK
  <2> QED
    BY <2>1, <2>2, Zenon DEF ItemOK
<1> QED
  BY <1>1, Zenon DEF Items

\* ... what is meant,
LEMMA LaterMeanings ==
    ASSUME NEW last \in Nat, NEW m, Meanings(m, last)
    PROVE  Meanings(m, last + 1)
<1>1. \A k \in DOMAIN m : MeantOK(m[k], last + 1)
  BY LaterIds, Zenon DEF Meanings, MeantOK
<1> QED
  BY <1>1, Zenon DEF Meanings

\* ... and what arrives.
LEMMA LaterArriving ==
    ASSUME NEW last \in Nat, NEW c, Arriving(c, last)
    PROVE  Arriving(c, last + 1)
<1>1. \A k \in DOMAIN c : HeardOK(c[k], last + 1)
  BY LaterIds, Zenon DEF Arriving, HeardOK
<1> QED
  BY <1>1, Zenon DEF Arriving

\* What is meant grows by a sound message,
LEMMA MeaningsGrow ==
    ASSUME NEW last, NEW m, Meanings(m, last), NEW n, NEW r, Grown(n, m, r), MeantOK(r, last)
    PROVE  Meanings(n, last)
BY Zenon DEF Meanings, Grown

\* ... and shrinks by one.
LEMMA MeaningsShrink ==
    ASSUME NEW last, NEW m, Meanings(m, last), NEW n, Shrunk(n, m)
    PROVE  Meanings(n, last) /\ MeantOK(m[1], last)
BY Zenon DEF Meanings, Shrunk

\* What arrives grows by a sound message,
LEMMA ArrivingGrow ==
    ASSUME NEW last, NEW c, Arriving(c, last), NEW d, NEW x, Grown(d, c, x), HeardOK(x, last)
    PROVE  Arriving(d, last)
BY Zenon DEF Arriving, Grown

\* ... and shrinks by one.
LEMMA ArrivingShrink ==
    ASSUME NEW last, NEW c, Arriving(c, last), NEW d, Shrunk(d, c)
    PROVE  Arriving(d, last) /\ HeardOK(c[1], last)
BY Zenon DEF Arriving, Shrunk

\* Nothing arrives.
LEMMA ArrivingNone ==
    ASSUME NEW last
    PROVE  Arriving(<<>>, last)
BY EmptyIs, Zenon DEF Arriving

\* The bytes of an item say what its record says.
ItemCarries(x) ==
    IF x.type = PUBLISH THEN PublishWire(x.bytes, x.record) ELSE Carries(x.bytes, x.record)
Carried(o) == \A i \in DOMAIN o : ItemCarries(o[i])

\* The outbox grows by an item with a new identifier.
LEMMA ItemsGrow ==
    ASSUME NEW last, NEW o, Items(o, last), NEW n, NEW x, Grown(n, o, x), ItemOK(x, last),
           x.id # 0 => \A i \in DOMAIN o : o[i].id # x.id
    PROVE  Items(n, last)
<1> DEFINE z == Len(o) + 1
<1>1. /\ IsSeq(n) /\ DOMAIN n = DOMAIN o \cup {z} /\ n[z] = x
      /\ \A k \in DOMAIN o : n[k] = o[k]
  BY Zenon DEF Grown
<1> HIDE DEF z
<1>2. \A i \in DOMAIN n : ItemOK(n[i], last)
  BY <1>1, Zenon DEF Items
<1>3. ASSUME NEW i \in DOMAIN n, NEW j \in DOMAIN n, n[i].id = n[j].id, n[i].id # 0
      PROVE  i = j
  <2>1. CASE i \in DOMAIN o /\ j \in DOMAIN o
    BY <1>1, <1>3, <2>1, Zenon DEF Items
  <2>2. CASE i = z /\ j \in DOMAIN o
    BY <1>1, <1>3, <2>2, Zenon
  <2>3. CASE j = z /\ i \in DOMAIN o
    BY <1>1, <1>3, <2>3, Zenon
  <2> QED
    BY <1>1, <2>1, <2>2, <2>3, Zenon
<1> QED
  BY <1>1, <1>2, <1>3, Zenon DEF Items

\* Items leave the outbox.
LEMMA ItemsEmb ==
    ASSUME NEW last, NEW o, Items(o, last), Carried(o), NEW n, Emb(n, o)
    PROVE  Items(n, last) /\ Carried(n) /\ Continues(n, o, last)
           /\ \A f : Queued(o, f) => Queued(n, f)
<1>1. PICK h : /\ \A k \in DOMAIN n : h[k] \in DOMAIN o /\ n[k] = o[h[k]]
               /\ \A k, l \in DOMAIN n : h[k] = h[l] => k = l
  BY Zenon DEF Emb
<1>2. IsSeq(n)
  BY Zenon DEF Emb
<1>3. \A i \in DOMAIN n : ItemOK(n[i], last)
  BY <1>1, Zenon DEF Items
<1>4. ASSUME NEW i \in DOMAIN n, NEW j \in DOMAIN n, n[i].id = n[j].id, n[i].id # 0
      PROVE  i = j
  <2>1. h[i] \in DOMAIN o /\ h[j] \in DOMAIN o /\ n[i] = o[h[i]] /\ n[j] = o[h[j]]
    BY <1>1, Zenon
  <2>2. o[h[i]].id = o[h[j]].id /\ o[h[i]].id # 0
    BY <1>4, <2>1, Zenon
  <2>3. h[i] = h[j]
    BY <2>1, <2>2, Zenon DEF Items
  <2> QED
    BY <1>1, <2>3, Zenon
<1>5. Items(n, last)
  BY <1>2, <1>3, <1>4, Zenon DEF Items
<1>6. Carried(n)
  BY <1>1, Zenon DEF Carried
<1>7. Continues(n, o, last)
  <2> SUFFICES ASSUME NEW i \in DOMAIN n PROVE \E j \in DOMAIN o : Like(n[i], o[j])
    BY Zenon DEF Continues
  <2>1. h[i] \in DOMAIN o /\ n[i] = o[h[i]]
    BY <1>1, Zenon
  <2>2. Like(n[i], o[h[i]])
    BY <2>1, Zenon DEF Like
  <2> QED
    BY <2>1, <2>2, Zenon
<1>8. \A f : Queued(o, f) => Queued(n, f)
  BY <1>1, Zenon DEF Queued
<1> QED
  BY <1>5, <1>6, <1>7, <1>8

\* An item is replaced by one that goes on with the same publication.
LEMMA ItemsSwap ==
    ASSUME NEW last, NEW o, Items(o, last), Carried(o), NEW n, NEW i, NEW x, Swapped(n, o, i, x),
           i \in DOMAIN o => ItemOK(x, last) /\ ItemCarries(x) /\ Like(x, o[i])
    PROVE  Items(n, last) /\ Carried(n) /\ Continues(n, o, last)
           /\ \A f : Queued(o, f) /\ x.pending # "QUEUED" => Queued(n, f)
<1>1. /\ IsSeq(n) /\ DOMAIN n = DOMAIN o
      /\ \A k \in DOMAIN o : n[k] = IF k = i THEN x ELSE o[k]
  BY Zenon DEF Swapped
<1>2. \A k \in DOMAIN o : n[k].id = o[k].id /\ Like(n[k], o[k])
  <2> TAKE k \in DOMAIN o
  <2>1. CASE k = i
    BY <1>1, <2>1, Zenon DEF Like
  <2>2. CASE k # i
    BY <1>1, <2>2, Zenon DEF Like
  <2> QED
    BY <2>1, <2>2
<1>3. \A k \in DOMAIN n : ItemOK(n[k], last) /\ ItemCarries(n[k])
  <2> TAKE k \in DOMAIN n
  <2>1. CASE k = i
    BY <1>1, <2>1, Zenon
  <2>2. CASE k # i
    BY <1>1, <2>2, Zenon DEF Items, Carried
  <2> QED
    BY <2>1, <2>2
<1>4. \A k, l \in DOMAIN n : n[k].id = n[l].id /\ n[k].id # 0 => k = l
  BY <1>1, <1>2, Zenon DEF Items
<1>5. Items(n, last)
  BY <1>1, <1>3, <1>4, Zenon DEF Items
<1>6. Carried(n)
  BY <1>3, Zenon DEF Carried
<1>7. Continues(n, o, last)
  BY <1>1, <1>2, Zenon DEF Continues
<1>8. ASSUME NEW f, Queued(o, f), x.pending # "QUEUED", NEW k \in DOMAIN n,
             n[k].pending = "QUEUED"
      PROVE  n[k].id \notin f
  <2>1. k # i /\ n[k] = o[k] /\ k \in DOMAIN o
    BY <1>1, <1>8, Zenon
  <2> QED
    BY <1>8, <2>1, Zenon DEF Queued
<1>9. \A f : Queued(o, f) /\ x.pending # "QUEUED" => Queued(n, f)
  BY <1>8, Zenon DEF Queued
<1> QED
  BY <1>5, <1>6, <1>7, <1>9

\* The same outbox goes on.
LEMMA ItemsSame ==
    ASSUME NEW last, NEW o
    PROVE  Continues(o, o, last)
BY Zenon DEF Continues, Like

---------------------------------------------------------------------------
\* The invariant.

\* The bytes, and the configuration that more bytes are made of.
Wires ==
    /\ StreamOf(toBroker, meant)
    /\ Carried(outbox)
    /\ info \in Info5
    /\ connect_property \in esp_mqtt5_connection_property_storage_t
    /\ server.response_info \in Seq(Nat)
    /\ state # "down" => fragmented_msg_data_offset = 0

\* The identifiers are those that were given.
GivenIds ==
    /\ last_message_id \in Nat
    /\ Items(outbox, last_message_id)
    /\ Meanings(meant, last_message_id)
    /\ Arriving(toClient, last_message_id)
    /\ got \subseteq 1..last_message_id
    /\ inflight \subseteq 1..last_message_id
    /\ state = "down" => toClient = <<>>
    /\ state \in {"down", "connecting", "CONNECTED"}

\* A publication of QoS 2 is published once.
Twice == Once(outbox, meant, got, held) /\ ~twice

\* The counter counts what is under way.
Count ==
    /\ uncounted \in BOOLEAN
    /\ state = "connecting" => inflight = {} /\ ~uncounted
    /\ Queued(outbox, inflight)
    /\ ~uncounted => UnderWay(meant, toClient, inflight)
    /\ state = "CONNECTED" => Right(send_publish_packet_count, inflight, uncounted)

\* The inductive invariant.
IInv == Wires /\ GivenIds /\ Twice /\ Count

\* The invariant holds at first.
LEMMA Starts == Init => IInv
<1> SUFFICES ASSUME Init PROVE IInv
  OBVIOUS
<1>1. Wires
  <2>1. StreamOf(toBroker, meant)
    BY StreamStarts, Zenon DEF Init
  <2>2. Carried(outbox)
    BY EmptyIs, Zenon DEF Init, Carried
  <2>3. info \in Info5
    <3>1. Info \in mqtt_connect_info_t
      BY Mqtt5DataAssumption
    <3>2. Seq(Byte) \subseteq Seq(Nat)
      BY Wide
    <3>3. Info \in Info5
      BY <3>1, <3>2, Zenon DEF mqtt_connect_info_t, Info5
    <3> QED
      BY <3>3, Zenon DEF Init
  <2>4. connect_property \in esp_mqtt5_connection_property_storage_t
    <3> DEFINE q == [NoConnectProperty EXCEPT !.maximum_packet_size = InLength]
               n == Merged(q, ConnectConfig, NoConnectProperty)
               D == DOMAIN q
    <3>1. ConnectConfig \in esp_mqtt5_connection_property_storage_t
      BY Mqtt5DataAssumption
    <3>2. InLength \in Nat
      BY InLengthType, Zenon
    <3>3. q \in esp_mqtt5_connection_property_storage_t
      <4>1. <<>> \in Seq(esp_mqtt5_user_property_item_t)
        OBVIOUS
      <4> HIDE DEF esp_mqtt5_user_property_item_t
      <4> QED
        BY <3>2, <4>1 DEF NoConnectProperty, esp_mqtt5_connection_property_storage_t
    <3>4. n \in esp_mqtt5_connection_property_storage_t
      BY <3>1, <3>3 DEF Merged, esp_mqtt5_connection_property_storage_t
    <3>5. connect_property = n
      BY Zenon DEF Init, esp_mqtt5_client_set_connect_property
    <3> QED
      BY <3>4, <3>5, Zenon
  <2>5. server.response_info \in Seq(Nat)
    <3>1. DefaultServer.response_info = <<>>
      BY DEF DefaultServer
    <3>2. server = DefaultServer
      BY Zenon DEF Init
    <3> QED
      BY <3>1, <3>2, Empty5, Zenon
  <2>6. state = "down"
    BY Zenon DEF Init
  <2> QED
    BY <2>1, <2>2, <2>3, <2>4, <2>5, <2>6, Zenon DEF Wires
<1>2. GivenIds
  <2>1. last_message_id = 0 /\ outbox = <<>> /\ meant = <<>> /\ toClient = <<>> /\ got = {}
        /\ inflight = {} /\ state = "down"
    BY Zenon DEF Init
  <2>2. Items(<<>>, 0) /\ Meanings(<<>>, 0) /\ Arriving(<<>>, 0)
    BY EmptyIs, Zenon DEF Items, Meanings, Arriving
  <2>3. 0 \in Nat /\ {} \subseteq 1..0
    OBVIOUS
  <2> QED
    BY <2>1, <2>2, <2>3, Zenon DEF GivenIds
<1>3. Twice
  <2>1. Once(<<>>, <<>>, {}, {})
    <3>1. DOMAIN <<>> = {}
      BY EmptyIs
    <3>2. Released(<<>>, <<>>) /\ InOrder(<<>>) /\ HeldOnTheWay(<<>>, {}, {})
      BY <3>1, Zenon DEF Released, InOrder, HeldOnTheWay
    <3>3. HeldInOutbox(<<>>, {}, {}) /\ OneQos(<<>>) /\ QosOfItem(<<>>, <<>>)
      BY <3>1, Zenon DEF HeldInOutbox, OneQos, QosOfItem
    <3> QED
      BY <3>2, <3>3, Zenon DEF Once
  <2>2. outbox = <<>> /\ meant = <<>> /\ got = {} /\ held = {} /\ twice = FALSE
    BY Zenon DEF Init
  <2> QED
    BY <2>1, <2>2, Zenon DEF Twice
<1>4. Count
  <2>1. outbox = <<>> /\ meant = <<>> /\ toClient = <<>> /\ inflight = {} /\ uncounted = FALSE
        /\ state = "down"
    BY Zenon DEF Init
  <2>2. UnderWay(<<>>, <<>>, {})
    BY EmptyIs, WayNone, Zenon
  <2>3. Queued(<<>>, {})
    BY EmptyIs, Zenon DEF Queued
  <2>4. "down" # "connecting" /\ "down" # "CONNECTED" /\ FALSE \in BOOLEAN
    OBVIOUS
  <2> QED
    BY <2>1, <2>2, <2>3, <2>4, Zenon DEF Count
<1> QED
  BY <1>1, <1>2, <1>3, <1>4, Zenon DEF IInv

---------------------------------------------------------------------------
\* The calls.

\* What a publication means.
LEMMA MeansIs ==
    ASSUME NEW p, NEW id
    PROVE  /\ Means(p, id).type = "PUBLISH" /\ Means(p, id).qos = p.qos
           /\ Means(p, id).id = id
BY DEF Means

\* What is given to the outbox, and what is written, is the message.
LEMMA PublishSends ==
    ASSUME Wires, last_message_id \in Nat, NEW p \in Publications \cup Stored,
           NEW m, m = make_publish(p), m.message # Failed
    PROVE  \E g :
              /\ PublishWire(g, Means(p, MessageId(p)))
              /\ Kept(m, p) = g
              /\ fragmented_msg_data_offset = 0 =>
                    m.message \o SubSeq(p.data, Len(m.message) - NotNegative(m.offset) + 1,
                                        Len(p.data)) = g
              /\ ~m.fragmented /\ fragmented_msg_data_offset = 0 => NotNegative(m.offset) = 0
<1> DEFINE id == last_message_id + 1
           r == Means(p, MessageId(p))
           rest == SubSeq(p.data, Len(m.message) - NotNegative(m.offset) + 1, Len(p.data))
<1>1. /\ p.topic \in Seq(Byte) /\ p.data \in Seq(Byte) /\ p.qos \in 0..2 /\ p.retain \in BOOLEAN
      /\ p.property \in esp_mqtt5_publish_property_config_t
      /\ OutLength + Len(p.data) <= MaxRemaining
  <2>1. p \in PublicationType /\ OutLength + Len(p.data) <= MaxRemaining
    BY Mqtt5DataAssumption
  <2> QED
    BY <2>1, Zenon DEF PublicationType
<1>2. id \in Nat
  OBVIOUS
<1>3. r.type = "PUBLISH" /\ r.qos = p.qos /\ r.id = IF p.qos > 0 THEN id ELSE 0
  BY MeansIs, ZenonT(30) DEF MessageId
<1>4. server.response_info \in Seq(Nat)
  BY Zenon DEF Wires
<1>5. m = mqtt5_msg_publish(p.topic, p.data, p.qos, p.retain, id, p.property,
                            server.response_info, fragmented_msg_data_offset)
  BY Zenon DEF make_publish
<1> HIDE DEF id, r, rest
<1>6. PICK g : PublishWire(g, r) /\ Builds(m, g, p.data, fragmented_msg_data_offset)
  <2> DEFINE topic == p.topic
             data == p.data
             qos == p.qos
             retain == p.retain
             property == p.property
             rinfo == server.response_info
  <2>1. /\ topic \in Seq(Byte) /\ data \in Seq(Byte) /\ qos \in 0..2 /\ retain \in BOOLEAN
        /\ property \in esp_mqtt5_publish_property_config_t
        /\ OutLength + Len(data) <= MaxRemaining /\ rinfo \in Seq(Nat)
        /\ m.message # Failed
    BY <1>1, <1>4, Zenon
  <2>2. r.type = "PUBLISH" /\ r.qos = qos /\ r.id = IF qos > 0 THEN id ELSE 0
    BY <1>3, Zenon
  <2>3. m = mqtt5_msg_publish(topic, data, qos, retain, id, property, rinfo,
                              fragmented_msg_data_offset)
    BY <1>5, Zenon
  <2> HIDE DEF topic, data, qos, retain, property, rinfo
  <2>4. \E g : PublishWire(g, r) /\ Builds(m, g, data, fragmented_msg_data_offset)
    BY <1>2, <2>1, <2>2, <2>3, PublishBuilds
  <2> QED
    BY <2>4, Zenon DEF data
<1>7. g \in Seq(Nat)
  BY <1>6, PublishCarries, CarriesBytes, Zenon
<1>8. g \o <<>> = g
  BY <1>7
<1>9. CASE m.fragmented
  <2>1. /\ NotNegative(m.offset) = m.offset
        /\ m.message \o SubSeq(p.data, Len(m.message) - m.offset + 1, Len(p.data)) = g
    BY <1>6, <1>9, Zenon DEF Builds
  <2>2. Kept(m, p) = g
    BY <1>9, <2>1, Zenon DEF Kept
  <2>3. m.message \o rest = g
    BY <2>1, Zenon DEF rest
  <2> QED
    BY <1>6, <1>9, <2>2, <2>3, Zenon DEF r, rest
<1>10. CASE ~m.fragmented
  <2>1. m.message = g
    BY <1>6, <1>10, Zenon DEF Builds
  <2>2. Kept(m, p) = g
    BY <1>8, <1>10, <2>1, Zenon DEF Kept
  <2>3. ASSUME fragmented_msg_data_offset = 0
        PROVE  m.message \o rest = g /\ NotNegative(m.offset) = 0
    <3>1. NotNegative(m.offset) = 0 /\ SubSeq(p.data, Len(m.message) - 0 + 1, Len(p.data)) = <<>>
      BY <1>6, <1>10, <2>3, Zenon DEF Builds
    <3>2. rest = <<>>
      BY <3>1, Zenon DEF rest
    <3> QED
      BY <1>8, <2>1, <3>1, <3>2, Zenon
  <2> QED
    BY <1>6, <2>2, <2>3, Zenon DEF r, rest
<1> QED
  BY <1>9, <1>10

\* A message is appended to the stream.
LEMMA WiresAppend ==
    ASSUME Meanings(meant, last_message_id), StreamOf(toBroker, meant),
           NEW g, NEW r, Carries(g, r), NEW b, NEW m, b = toBroker \o g, m = Append(meant, r)
    PROVE  StreamOf(b, m) /\ Grown(m, meant, r)
<1>1. PICK R : meant \in Seq(R)
  BY Zenon DEF Meanings, IsSeq
<1>2. StreamOf(toBroker \o g, Append(meant, r))
  BY <1>1, StreamGrows5, Zenon
<1>3. Grown(Append(meant, r), meant, r)
  BY AppendIs, Zenon DEF Meanings
<1> QED
  BY <1>2, <1>3, Zenon

\* An item with the next identifier.
LEMMA NewItem ==
    ASSUME IInv, NEW x, NEW n, n = Append(outbox, x), NEW later \in Nat,
           Items(outbox, later), ItemOK(x, later), x.id = last_message_id + 1 \/ x.id = 0, ItemCarries(x)
    PROVE  /\ Grown(n, outbox, x)
           /\ Items(n, later) /\ Carried(n)
           /\ Continues(n, outbox, last_message_id)
           /\ Once(n, meant, got, held)
           /\ Queued(n, inflight)
<1> DEFINE last == last_message_id
           z == Len(outbox) + 1
<1>1. last \in Nat /\ Items(outbox, last) /\ Meanings(meant, last) /\ got \subseteq 1..last
      /\ inflight \subseteq 1..last /\ Once(outbox, meant, got, held) /\ Queued(outbox, inflight)
      /\ Carried(outbox)
  BY Zenon DEF IInv, GivenIds, Twice, Count, Wires
<1> HIDE DEF last
<1>2. x.id = last + 1 \/ x.id = 0
  BY DEF last
<1>3. Grown(n, outbox, x)
  BY <1>1, AppendIs, Zenon DEF Items
<1>4. /\ IsSeq(n) /\ DOMAIN n = DOMAIN outbox \cup {z} /\ n[z] = x
      /\ \A k \in DOMAIN outbox : n[k] = outbox[k]
  BY <1>3, Zenon DEF Grown
<1>6. \A i \in DOMAIN outbox : outbox[i].id # last + 1
  <2>1. \A i \in DOMAIN outbox : outbox[i].id \in 0..last
    <3>1. \A i \in DOMAIN outbox : ItemOK(outbox[i], last)
      BY <1>1, Zenon DEF Items
    <3> QED
      BY <3>1, Zenon DEF ItemOK
  <2>2. last + 1 \notin 0..last
    BY <1>1, LaterIds, Zenon
  <2> QED
    BY <2>1, <2>2
<1>7. Items(n, later)
  BY <1>2, <1>3, <1>6, ItemsGrow, Zenon
<1>8. x.id \notin 1..last
  BY <1>1, <1>2, LaterIds, Zenon
<1> HIDE DEF z
<1>9. Carried(n)
  BY <1>1, <1>4, Zenon DEF Carried
<1>10. Continues(n, outbox, last)
  BY <1>4, <1>8, ItemsSame, Zenon DEF Continues
<1>12. Once(n, meant, got, held)
  BY <1>1, <1>7, <1>10, OnceContinues, Zenon
<1>13. Queued(n, inflight)
  BY <1>1, <1>4, <1>8, Zenon DEF Queued
<1> QED
  BY <1>3, <1>7, <1>9, <1>10, <1>12, <1>13, Zenon DEF last

\* A flag is TRUE or FALSE.
LEMMA BitType ==
    ASSUME NEW byte, NEW weight
    PROVE  Bit(byte, weight) \in BOOLEAN
BY DEF Bit

\* The counter, by the flag of the first byte that was written.
LEMMA Increments ==
    ASSUME NEW id, NEW first, esp_mqtt5_increment_packet_counter(id, first)
    PROVE  \E b \in BOOLEAN :
              /\ b = Bit(first, 8)
              /\ send_publish_packet_count' = send_publish_packet_count + IF b THEN 0 ELSE 1
              /\ uncounted' = (uncounted \/ b)
              /\ inflight' = inflight \cup {id}
<1> DEFINE b == Bit(first, 8)
<1>1. b \in BOOLEAN
  BY BitType, Zenon
<1>2. /\ send_publish_packet_count' = send_publish_packet_count + IF b THEN 0 ELSE 1
      /\ uncounted' = (uncounted \/ b)
      /\ inflight' = inflight \cup {id}
  BY Zenon DEF esp_mqtt5_increment_packet_counter
<1> HIDE DEF b
<1>3. \E c \in BOOLEAN :
        /\ c = b
        /\ send_publish_packet_count' = send_publish_packet_count + IF c THEN 0 ELSE 1
        /\ uncounted' = (uncounted \/ c)
        /\ inflight' = inflight \cup {id}
  BY <1>1, <1>2, Zenon
<1> QED
  BY <1>3, Zenon DEF b

\* A message with an identifier is counted.
LEMMA CountsMore ==
    ASSUME uncounted \in BOOLEAN, NEW b \in BOOLEAN, uncounted' = (uncounted \/ b),
           NEW id, inflight' = inflight \cup {id}, b \/ id \notin inflight,
           send_publish_packet_count' = send_publish_packet_count + IF b THEN 0 ELSE 1,
           Right(send_publish_packet_count, inflight, uncounted)
    PROVE  /\ uncounted' \in BOOLEAN
           /\ Right(send_publish_packet_count', inflight', uncounted')
           /\ ~uncounted' => ~uncounted /\ ~b
<1>1. Right(send_publish_packet_count + (IF b THEN 0 ELSE 1), inflight \cup {id}, uncounted \/ b)
  BY RightAdds, Zenon
<1>2. uncounted' \in BOOLEAN /\ (~uncounted' => ~uncounted /\ ~b)
  OBVIOUS
<1>3. Right(send_publish_packet_count', inflight', uncounted')
  BY <1>1, Zenon
<1> QED
  BY <1>2, <1>3

\* esp_mqtt_client_publish, while connected.
LEMMA PublishStep ==
    ASSUME IInv, NEW p \in Publications, Publish(p)
    PROVE  IInv'
<1> DEFINE last == last_message_id
           m == make_publish(p)
           r == Means(p, MessageId(p))
           rest == SubSeq(p.data, Len(m.message) - NotNegative(m.offset) + 1, Len(p.data))
           x == Item(MessageId(p), PUBLISH, p.qos, Kept(m, p), "TRANSMITTED", r)
<1>1. /\ info' = info /\ connect_property' = connect_property /\ server' = server
      /\ got' = got /\ held' = held /\ twice' = twice
      /\ state' = state /\ toClient' = toClient /\ fragmented_msg_data_offset' = 0
      /\ state = "CONNECTED"
  BY DEF Publish, Calls, broker
<1>2. PublishMessage(p, m)
  BY Zenon DEF Publish
<1>3. /\ m.message # Failed
      /\ last' = last + IF p.qos > 0 THEN 1 ELSE 0
      /\ outbox' = IF p.qos = 0 /\ ~p.store THEN outbox ELSE Append(outbox, x)
      /\ toBroker' = toBroker \o (m.message \o rest)
      /\ meant' = Append(meant, r)
  BY <1>2, Zenon DEF PublishMessage, Publishable, Enqueues, Transmits, Writes
<1>4. IF p.qos > 0
      THEN \E first : esp_mqtt5_increment_packet_counter(r.id, first)
      ELSE UNCHANGED <<send_publish_packet_count, inflight, uncounted>>
  BY <1>2, Zenon DEF PublishMessage, Transmits
<1>5. /\ p.qos \in 0..2 /\ ~p.store
  <2>1. p \in PublicationType /\ ~p.store
    BY Mqtt5DataAssumption
  <2> QED
    BY <2>1, Zenon DEF PublicationType
<1>6. /\ last \in Nat /\ Items(outbox, last) /\ Meanings(meant, last) /\ Arriving(toClient, last)
      /\ got \subseteq 1..last /\ inflight \subseteq 1..last
  BY Zenon DEF IInv, GivenIds
<1>7. Once(outbox, meant, got, held) /\ ~twice
  BY Zenon DEF IInv, Twice
<1>8. /\ uncounted \in BOOLEAN /\ Queued(outbox, inflight)
      /\ ~uncounted => UnderWay(meant, toClient, inflight)
      /\ Right(send_publish_packet_count, inflight, uncounted)
  BY <1>1, Zenon DEF IInv, Count
<1>9. /\ StreamOf(toBroker, meant) /\ Carried(outbox) /\ fragmented_msg_data_offset = 0
      /\ info \in Info5 /\ connect_property \in esp_mqtt5_connection_property_storage_t
      /\ server.response_info \in Seq(Nat) /\ Wires
  <2>1. "CONNECTED" # "down"
    OBVIOUS
  <2> QED
    BY <1>1, <2>1, Zenon DEF IInv, Wires
<1>10. r.type = "PUBLISH" /\ r.qos = p.qos /\ r.id = MessageId(p)
  BY MeansIs, Zenon
<1> HIDE DEF m
<1>11. PICK g : PublishWire(g, r) /\ Kept(m, p) = g /\ m.message \o rest = g
  BY <1>3, <1>6, <1>9, PublishSends, Zenon DEF m
<1>12. Carries(g, r)
  BY <1>11, PublishCarries, Zenon
<1>13. /\ x.id = MessageId(p) /\ x.type = PUBLISH /\ x.qos = p.qos /\ x.bytes = Kept(m, p)
       /\ x.pending = "TRANSMITTED" /\ x.record = r /\ DOMAIN x = Fields
  <2> DEFINE k == Kept(m, p)
             id == MessageId(p)
             q == p.qos
  <2>1. x = Item(id, PUBLISH, q, k, "TRANSMITTED", r)
    OBVIOUS
  <2> HIDE DEF x, k, id, q, r
  <2>2. /\ x.id = id /\ x.type = PUBLISH /\ x.qos = q /\ x.bytes = k
        /\ x.pending = "TRANSMITTED" /\ x.record = r /\ DOMAIN x = Fields
    BY <2>1 DEF Item, Fields
  <2> QED
    BY <2>2, Zenon DEF k, id, q
<1> HIDE DEF r, rest, x, last
<1>14. StreamOf(toBroker', meant') /\ Grown(meant', meant, r)
  <2>1. toBroker' = toBroker \o g
    BY <1>3, <1>11, Zenon
  <2> QED
    BY <1>3, <1>6, <1>9, <1>12, <2>1, WiresAppend, Zenon DEF last
<1>15. CASE p.qos > 0
  <2>1. p.qos # 0 /\ last' = last + 1 /\ outbox' = Append(outbox, x) /\ MessageId(p) = last + 1
        /\ last + 1 \in Nat
    BY <1>3, <1>5, <1>6, <1>15 DEF MessageId, last
  <2>2. ItemOK(x, last + 1)
    <3>1. MessageId(p) \in 0..(last + 1) /\ MessageId(p) > 0 /\ MessageId(p) # 0
      BY <1>6, <2>1, LaterIds, Zenon
    <3>2. "TRANSMITTED" \in Pending
      BY DEF Pending
    <3>3. PUBLISH \in {PUBLISH, SUBSCRIBE, UNSUBSCRIBE}
      OBVIOUS
    <3> QED
      BY <1>5, <1>10, <1>13, <1>15, <3>1, <3>2, <3>3, Zenon DEF ItemOK
  <2>3. ItemCarries(x)
    BY <1>11, <1>13, Zenon DEF ItemCarries
  <2>4. /\ Grown(outbox', outbox, x)
        /\ Items(outbox', last + 1) /\ Carried(outbox')
        /\ Once(outbox', meant, got, held)
        /\ Queued(outbox', inflight)
    <3>1. Items(outbox, last + 1)
      BY <1>6, LaterItems, Zenon
    <3> QED
      BY <1>13, <2>1, <2>2, <2>3, <3>1, NewItem, Zenon DEF last
  <2>5. Token(r)
    BY <1>10, <1>15, Zenon DEF Token
  <2>6. MeantOK(r, last + 1)
    <3>1. r.id \in 1..(last + 1) /\ r.qos \in 0..2
      BY <1>5, <1>6, <1>10, <2>1, LaterIds, Zenon
    <3>2. "PUBLISH" # "PUBREC" /\ "PUBLISH" # "SUBSCRIBE" /\ "PUBLISH" # "UNSUBSCRIBE"
      OBVIOUS
    <3> QED
      BY <1>10, <3>1, <3>2 DEF MeantOK
  <2>7. Meanings(meant', last + 1) /\ Arriving(toClient', last + 1)
    BY <1>1, <1>6, <1>14, <2>6, LaterMeanings, LaterArriving, MeaningsGrow, Zenon
  <2>8. Once(outbox', meant', got, held)
    <3> DEFINE i == Len(outbox) + 1
    <3>1. i \in DOMAIN outbox' /\ outbox'[i] = x
      BY <2>4, Zenon DEF Grown
    <3>2. "TRANSMITTED" # "ACKNOWLEDGED"
      OBVIOUS
    <3> HIDE DEF i
    <3>3. outbox'[i].type = PUBLISH /\ outbox'[i].pending # "ACKNOWLEDGED"
          /\ r.qos = outbox'[i].qos /\ r.id = outbox'[i].id
      BY <1>10, <1>13, <3>1, <3>2, Zenon
    <3>4. r.qos > 0
      BY <1>10, <1>15, Zenon
    <3> QED
      BY <1>10, <1>14, <2>1, <2>4, <3>1, <3>3, <3>4, OncePublish, Zenon
  <2>9. \E first : esp_mqtt5_increment_packet_counter(r.id, first)
    BY <1>4, <1>15, Zenon DEF r
  <2>10. PICK b \in BOOLEAN :
              /\ send_publish_packet_count' = send_publish_packet_count + IF b THEN 0 ELSE 1
              /\ uncounted' = (uncounted \/ b)
              /\ inflight' = inflight \cup {r.id}
    BY <2>9, Increments, Zenon
  <2>11. r.id = last + 1 /\ r.id \notin inflight
    <3>1. last + 1 \notin inflight
      BY <1>6, LaterIds, Zenon
    <3> QED
      BY <1>10, <2>1, <3>1, Zenon
  <2>12. /\ uncounted' \in BOOLEAN
         /\ Right(send_publish_packet_count', inflight', uncounted')
         /\ ~uncounted' => ~uncounted
    BY <1>8, <2>10, <2>11, CountsMore, Zenon
  <2>13. ASSUME ~uncounted' PROVE UnderWay(meant', toClient', inflight')
    <3>1. UnderWay(meant, toClient, inflight)
      BY <1>8, <2>12, <2>13, Zenon
    <3>2. NotOf(meant, toClient, r.id)
      BY <2>11, <3>1, WayFresh, Zenon
    <3> QED
      BY <1>1, <1>14, <2>10, <3>1, <3>2, WayToken, Zenon
  <2>14. Queued(outbox', inflight')
    <3> SUFFICES ASSUME NEW i \in DOMAIN outbox', outbox'[i].pending = "QUEUED"
                 PROVE  outbox'[i].id \notin inflight'
      BY Zenon DEF Queued
    <3>1. outbox'[i].id \notin inflight
      BY <2>4, Zenon DEF Queued
    <3>2. i \in DOMAIN outbox /\ outbox'[i] = outbox[i]
      <4>1. "QUEUED" # "TRANSMITTED"
        OBVIOUS
      <4> QED
        BY <1>13, <2>4, <4>1, Zenon DEF Grown
    <3>3. ItemOK(outbox[i], last)
      BY <1>6, <3>2, Zenon DEF Items
    <3>4. outbox[i].id \in 0..last
      BY <3>3, Zenon DEF ItemOK
    <3>5. outbox[i].id # last + 1
      BY <1>6, <3>4
    <3> QED
      BY <2>10, <2>11, <3>1, <3>2, <3>5, Zenon
  <2>15. inflight' \subseteq 1..(last + 1) /\ got' \subseteq 1..(last + 1)
    BY <1>1, <1>6, <2>10, <2>11, LaterIds, ZenonT(30)
  <2>16. Wires'
    BY <1>1, <1>9, <1>14, <2>4, Zenon DEF Wires
  <2>17. GivenIds'
    <3>1. state' # "down" /\ state' \in {"down", "connecting", "CONNECTED"}
      BY <1>1
    <3> QED
      BY <2>1, <2>4, <2>7, <2>15, <3>1, Zenon DEF GivenIds, last
  <2>18. Twice'
    BY <1>1, <1>7, <2>8, Zenon DEF Twice
  <2>19. Count'
    <3>1. state' # "connecting"
      BY <1>1
    <3> QED
      BY <2>12, <2>13, <2>14, <3>1, Zenon DEF Count
  <2> QED
    BY <2>16, <2>17, <2>18, <2>19, Zenon DEF IInv
<1>16. CASE ~(p.qos > 0)
  <2>1. p.qos = 0 /\ last' = last /\ outbox' = outbox
    BY <1>3, <1>5, <1>6, <1>16 DEF last
  <2>2. /\ send_publish_packet_count' = send_publish_packet_count /\ inflight' = inflight
        /\ uncounted' = uncounted
    BY <1>4, <1>16
  <2>3. ~Token(r)
    <3>1. "PUBLISH" # "PUBREL"
      OBVIOUS
    <3> QED
      BY <1>10, <1>16, <3>1, Zenon DEF Token
  <2>4. MeantOK(r, last)
    <3>1. "PUBLISH" # "PUBREC" /\ "PUBLISH" # "SUBSCRIBE" /\ "PUBLISH" # "UNSUBSCRIBE"
      OBVIOUS
    <3> QED
      BY <1>5, <1>10, <2>3, <3>1 DEF MeantOK
  <2>5. Meanings(meant', last)
    BY <1>6, <1>14, <2>4, MeaningsGrow, Zenon
  <2>6. Once(outbox', meant', got, held)
    BY <1>7, <1>14, <2>1, <2>3, OnceQuiet, Zenon
  <2>7. ~uncounted => UnderWay(meant', toClient, inflight)
    BY <1>8, <1>14, <2>3, WayQuiet, Zenon
  <2>8. Wires'
    BY <1>1, <1>9, <1>14, <2>1, Zenon DEF Wires
  <2>9. GivenIds'
    <3>1. state' # "down" /\ state' \in {"down", "connecting", "CONNECTED"}
      BY <1>1
    <3> QED
      BY <1>1, <1>6, <2>1, <2>2, <2>5, <3>1, Zenon DEF GivenIds, last
  <2>10. Twice'
    BY <1>1, <1>7, <2>6, Zenon DEF Twice
  <2>11. Count'
    <3>1. state' # "connecting"
      BY <1>1
    <3> QED
      BY <1>1, <1>8, <2>1, <2>2, <2>7, <3>1, Zenon DEF Count
  <2> QED
    BY <2>8, <2>9, <2>10, <2>11, Zenon DEF IInv
<1> QED
  BY <1>15, <1>16

\* A publication that is stored for later.
LEMMA EnqueueStep ==
    ASSUME StoredFits, IInv, NEW p \in Publications \cup Stored, Enqueue(p),
           state = "down" \/ p \in Stored
    PROVE  IInv'
<1> DEFINE last == last_message_id
           later == last_message_id'
           m == make_publish(p)
           r == Means(p, MessageId(p))
           x == Item(MessageId(p), PUBLISH, p.qos, Kept(m, p), "QUEUED", r)
<1>1. /\ info' = info /\ connect_property' = connect_property /\ server' = server
      /\ got' = got /\ held' = held /\ twice' = twice
      /\ state' = state /\ toClient' = toClient /\ toBroker' = toBroker /\ meant' = meant
      /\ send_publish_packet_count' = send_publish_packet_count
      /\ inflight' = inflight /\ uncounted' = uncounted
      /\ state # "connecting"
  BY DEF Enqueue, Calls, broker, network
<1>2. EnqueueMessage(p, m) /\ (p.qos > 0 \/ p.store)
  BY Zenon DEF Enqueue
<1>3. /\ m.message # Failed
      /\ last' = last + IF p.qos > 0 THEN 1 ELSE 0
      /\ outbox' = IF p.qos = 0 /\ ~p.store THEN outbox ELSE Append(outbox, x)
      /\ fragmented_msg_data_offset' = NotNegative(m.offset)
  BY <1>2, Zenon DEF EnqueueMessage, Publishable, Enqueues
<1>4. /\ p.topic \in Seq(Byte) /\ p.data \in Seq(Byte) /\ p.qos \in 0..2 /\ p.retain \in BOOLEAN
      /\ p.property \in esp_mqtt5_publish_property_config_t
  <2>1. p \in PublicationType
    BY Mqtt5DataAssumption
  <2> QED
    BY <2>1, Zenon DEF PublicationType
<1>5. outbox' = Append(outbox, x)
  BY <1>2, <1>3, <1>4
<1>6. /\ last \in Nat /\ Items(outbox, last) /\ Meanings(meant, last) /\ Arriving(toClient, last)
      /\ got \subseteq 1..last /\ inflight \subseteq 1..last
      /\ state = "down" => toClient = <<>>
      /\ state \in {"down", "connecting", "CONNECTED"}
  BY Zenon DEF IInv, GivenIds
<1>7. /\ StreamOf(toBroker, meant) /\ Carried(outbox)
      /\ state # "down" => fragmented_msg_data_offset = 0
      /\ info \in Info5 /\ connect_property \in esp_mqtt5_connection_property_storage_t
      /\ server.response_info \in Seq(Nat) /\ Wires
  BY Zenon DEF IInv, Wires
<1>8. r.type = "PUBLISH" /\ r.qos = p.qos /\ r.id = MessageId(p)
  BY MeansIs, Zenon
<1>9. later = last \/ later = last + 1
  BY <1>3, <1>6
<1>10. /\ later \in Nat /\ Items(outbox, later) /\ Meanings(meant, later)
       /\ Arriving(toClient, later) /\ 1..last \subseteq 1..later
  <2>1. CASE later = last
    BY <1>6, <2>1, Zenon
  <2>2. CASE later = last + 1
    BY <1>6, <2>2, LaterIds, LaterItems, LaterMeanings, LaterArriving, Zenon
  <2> QED
    BY <1>9, <2>1, <2>2
<1> HIDE DEF m
<1>11. PICK g : /\ PublishWire(g, r) /\ Kept(m, p) = g
                /\ ~m.fragmented /\ fragmented_msg_data_offset = 0 => NotNegative(m.offset) = 0
  BY <1>3, <1>6, <1>7, PublishSends, Zenon DEF m
<1>12. /\ x.id = MessageId(p) /\ x.type = PUBLISH /\ x.qos = p.qos /\ x.bytes = Kept(m, p)
       /\ x.pending = "QUEUED" /\ x.record = r /\ DOMAIN x = Fields
  <2> DEFINE k == Kept(m, p)
             id == MessageId(p)
             q == p.qos
  <2>1. x = Item(id, PUBLISH, q, k, "QUEUED", r)
    OBVIOUS
  <2> HIDE DEF x, k, id, q, r
  <2>2. /\ x.id = id /\ x.type = PUBLISH /\ x.qos = q /\ x.bytes = k
        /\ x.pending = "QUEUED" /\ x.record = r /\ DOMAIN x = Fields
    BY <2>1 DEF Item, Fields
  <2> QED
    BY <2>2, Zenon DEF k, id, q
\* While connected, it is a message that fits the buffer.
<1>13. state' # "down" => fragmented_msg_data_offset' = 0
  <2> SUFFICES ASSUME state # "down" PROVE NotNegative(m.offset) = 0
    BY <1>1, <1>3, Zenon
  <2>1. p \in Stored /\ fragmented_msg_data_offset = 0
    BY <1>7, Zenon
  <2>2. /\ p.property.response_topic = <<>>
        /\ ~mqtt5_msg_publish(p.topic, p.data, p.qos, p.retain, 0, p.property, <<>>, 0).fragmented
    BY <2>1, Zenon DEF StoredFits
  <2>3. ~m.fragmented
    <3> DEFINE topic == p.topic
               data == p.data
               qos == p.qos
               retain == p.retain
               property == p.property
               rinfo == server.response_info
               id == last_message_id + 1
    <3>1. /\ topic \in Seq(Byte) /\ data \in Seq(Byte) /\ qos \in 0..2 /\ retain \in BOOLEAN
          /\ property \in esp_mqtt5_publish_property_config_t
          /\ rinfo \in Seq(Nat) /\ property.response_topic = <<>>
          /\ ~mqtt5_msg_publish(topic, data, qos, retain, 0, property, <<>>, 0).fragmented
      BY <1>4, <1>7, <2>2, Zenon
    <3>2. id \in Nat
      BY <1>6
    <3>3. m = mqtt5_msg_publish(topic, data, qos, retain, id, property, rinfo, 0)
      BY <2>1, Zenon DEF m, make_publish
    <3> HIDE DEF topic, data, qos, retain, property, rinfo, id
    <3> QED
      BY <3>1, <3>2, <3>3, StaysWhole
  <2> QED
    BY <1>11, <2>1, <2>3, Zenon
<1>14. \/ MessageId(p) = 0 /\ p.qos = 0
       \/ MessageId(p) = last + 1 /\ p.qos > 0 /\ later = last + 1
  BY <1>3, <1>4, <1>6 DEF MessageId
<1> HIDE DEF r, x, last, later
<1>15. ItemOK(x, later)
  <2>1. MessageId(p) \in 0..later
    BY <1>6, <1>10, <1>14
  <2>2. p.qos > 0 <=> MessageId(p) > 0
    BY <1>4, <1>6, <1>14
  <2>3. "QUEUED" \in Pending /\ PUBLISH \in {PUBLISH, SUBSCRIBE, UNSUBSCRIBE}
    BY DEF Pending
  <2> QED
    BY <1>4, <1>8, <1>12, <2>1, <2>2, <2>3, Zenon DEF ItemOK
<1>16. ItemCarries(x)
  BY <1>11, <1>12, Zenon DEF ItemCarries
<1>17. /\ Items(outbox', later) /\ Carried(outbox')
       /\ Once(outbox', meant, got, held)
       /\ Queued(outbox', inflight)
  <2>1. x.id = last + 1 \/ x.id = 0
    BY <1>12, <1>14, Zenon
  <2> QED
    BY <1>5, <1>10, <1>15, <1>16, <2>1, NewItem, Zenon DEF last
<1>18. Wires'
  BY <1>1, <1>7, <1>13, <1>17, Zenon DEF Wires
<1>19. GivenIds'
  BY <1>1, <1>6, <1>10, <1>17, Zenon DEF GivenIds, later
<1>20. Twice'
  BY <1>1, <1>17, Zenon DEF IInv, Twice
<1>21. Count'
  BY <1>1, <1>17, Zenon DEF IInv, Count
<1> QED
  BY <1>18, <1>19, <1>20, <1>21, Zenon DEF IInv

\* Building a message that begins the buffer does not move the offset from 0.
LEMMA AfterBuildingIs ==
    ASSUME fragmented_msg_data_offset = 0, NEW g, NEW r, Carries(g, r)
    PROVE  AfterBuilding(g) = 0
<1>1. PICK b, body : Wire(g, b, body) /\ Len(body) <= MaxRemaining
  BY Zenon DEF Carries
<1>2. body \in Seq(Nat) /\ g \in Seq(Nat)
  BY <1>1, Zenon DEF Wire
<1>3. g \o <<>> = g /\ <<>> \in Seq(Nat) /\ Len(body) \in Nat
  BY <1>2
<1>4. FixedHeaderLen(g \o <<>>) = LenBytes(Len(body)) + 1
  BY <1>1, <1>3, WireHeader, Zenon
<1> DEFINE n == LenBytes(Len(body))
           h == FixedHeaderLen(g)
<1>5. n \in 1..4
  BY <1>3, LenBytesType
<1>6. h = n + 1
  BY <1>3, <1>4, Zenon
<1> HIDE DEF n, h
<1>7. 0 - (5 - h) \in Int /\ 0 - (5 - h) <= 0
  BY <1>5, <1>6
<1>8. NotNegative(0 - (5 - h)) = 0
  BY <1>7, NotNegativeIs
<1>9. AfterBuilding(g) = NotNegative(0 - (5 - h))
  BY DEF AfterBuilding, MQTT5_MAX_FIXED_HEADER_SIZE, h
<1> QED
  BY <1>8, <1>9

\* What SUBSCRIBE and UNSUBSCRIBE have in common.
LEMMA RequestsStep ==
    ASSUME IInv, NEW type \in {SUBSCRIBE, UNSUBSCRIBE}, NEW message, NEW r,
           Requests(type, message, r), Carries(message, r),
           r.type \in {"SUBSCRIBE", "UNSUBSCRIBE"}, r.id = last_message_id + 1,
           fragmented_msg_data_offset' = 0
    PROVE  IInv'
<1> DEFINE last == last_message_id
           x == Item(last + 1, type, 0, message, "TRANSMITTED", r)
<1>1. /\ info' = info /\ connect_property' = connect_property /\ server' = server
      /\ got' = got /\ held' = held /\ twice' = twice
      /\ state' = state /\ toClient' = toClient
      /\ send_publish_packet_count' = send_publish_packet_count
      /\ inflight' = inflight /\ uncounted' = uncounted
      /\ state = "CONNECTED"
  BY DEF Requests, Calls, broker
<1>2. /\ last' = last + 1
      /\ outbox' = Append(outbox, x)
      /\ toBroker' = toBroker \o message
      /\ meant' = Append(meant, r)
  BY Zenon DEF Requests, Writes
<1>3. /\ last \in Nat /\ Items(outbox, last) /\ Meanings(meant, last) /\ Arriving(toClient, last)
      /\ got \subseteq 1..last /\ inflight \subseteq 1..last
  BY Zenon DEF IInv, GivenIds
<1>4. /\ StreamOf(toBroker, meant) /\ Carried(outbox)
      /\ info \in Info5 /\ connect_property \in esp_mqtt5_connection_property_storage_t
      /\ server.response_info \in Seq(Nat)
  BY Zenon DEF IInv, Wires
<1>5. /\ uncounted \in BOOLEAN
      /\ ~uncounted => UnderWay(meant, toClient, inflight)
      /\ Right(send_publish_packet_count, inflight, uncounted)
  BY <1>1, Zenon DEF IInv, Count
<1>6. /\ x.id = last + 1 /\ x.type = type /\ x.qos = 0 /\ x.bytes = message
      /\ x.pending = "TRANSMITTED" /\ x.record = r /\ DOMAIN x = Fields
  <2> HIDE DEF last
  <2> QED
    BY DEF Item, Fields
<1>7. StreamOf(toBroker', meant') /\ Grown(meant', meant, r)
  BY <1>2, <1>3, <1>4, WiresAppend, Zenon
<1> HIDE DEF x, last
<1>8. /\ last + 1 \in Nat /\ last + 1 \in 0..(last + 1) /\ last + 1 # 0
      /\ 1..last \subseteq 1..(last + 1)
  BY <1>3, LaterIds, Zenon
<1>9. /\ Items(outbox, last + 1) /\ Meanings(meant, last + 1) /\ Arriving(toClient, last + 1)
  BY <1>3, LaterItems, LaterMeanings, LaterArriving, Zenon
<1>10. type # PUBLISH
  BY DEF PUBLISH, SUBSCRIBE, UNSUBSCRIBE
<1>11. ItemOK(x, last + 1)
  <2>1. "TRANSMITTED" \in Pending /\ "TRANSMITTED" # "QUEUED" /\ 0 \in 0..2
    BY DEF Pending
  <2>2. r.id = last + 1
    BY DEF last
  <2>3. type \in {PUBLISH, SUBSCRIBE, UNSUBSCRIBE}
    OBVIOUS
  <2> QED
    BY <1>6, <1>8, <1>10, <2>1, <2>2, <2>3, Zenon DEF ItemOK
<1>12. ItemCarries(x)
  BY <1>6, <1>10, Zenon DEF ItemCarries
<1>13. /\ Items(outbox', last + 1) /\ Carried(outbox')
       /\ Once(outbox', meant, got, held)
       /\ Queued(outbox', inflight)
  BY <1>2, <1>6, <1>8, <1>9, <1>11, <1>12, NewItem, Zenon DEF last
<1>14. /\ "SUBSCRIBE" # "PUBLISH" /\ "SUBSCRIBE" # "PUBREL"
       /\ "UNSUBSCRIBE" # "PUBLISH" /\ "UNSUBSCRIBE" # "PUBREL"
  OBVIOUS
<1>15. r.type # "PUBLISH" /\ r.type # "PUBREL"
  BY <1>14
<1>16. ~Token(r)
  BY <1>15, Zenon DEF Token
<1>17. MeantOK(r, last + 1)
  BY <1>8, <1>15, <1>16, Zenon DEF MeantOK, last
<1>18. Meanings(meant', last + 1)
  BY <1>7, <1>9, <1>17, MeaningsGrow, Zenon
<1>19. Once(outbox', meant', got, held)
  BY <1>7, <1>13, <1>16, OnceQuiet, Zenon
<1>20. ~uncounted => UnderWay(meant', toClient, inflight)
  BY <1>5, <1>7, <1>16, WayQuiet, Zenon
<1>21. Wires'
  BY <1>1, <1>4, <1>7, <1>13, Zenon DEF Wires
<1>22. GivenIds'
  <2>1. state' # "down" /\ state' \in {"down", "connecting", "CONNECTED"}
    BY <1>1
  <2>2. got' \subseteq 1..(last + 1) /\ inflight' \subseteq 1..(last + 1)
    BY <1>1, <1>3, <1>8, Zenon
  <2> QED
    BY <1>1, <1>2, <1>8, <1>9, <1>13, <1>18, <2>1, <2>2, Zenon DEF GivenIds, last
<1>23. Twice'
  BY <1>1, <1>19, Zenon DEF IInv, Twice
<1>24. Count'
  <2>1. state' # "connecting"
    BY <1>1
  <2> QED
    BY <1>1, <1>5, <1>13, <1>20, <2>1, Zenon DEF Count
<1> QED
  BY <1>21, <1>22, <1>23, <1>24, Zenon DEF IInv

\* esp_mqtt_client_subscribe.
LEMMA SubscribeStep ==
    ASSUME IInv, NEW s \in Subscriptions, esp_mqtt_client_subscribe(s)
    PROVE  IInv'
<1> DEFINE id == last_message_id + 1
           message == mqtt5_msg_subscribe(<<[filter |-> s.filter, qos |-> s.qos]>>, id, s.property)
           r == [type |-> "SUBSCRIBE", id |-> id,
                 filter |-> SharedTopic(s.property, s.filter), qos |-> s.qos,
                 no_local_flag |-> s.property.no_local_flag,
                 retain_as_published_flag |-> s.property.retain_as_published_flag,
                 retain_handle |-> s.property.retain_handle,
                 subscribe_id |-> s.property.subscribe_id,
                 user_property |-> s.property.user_property, whole |-> TRUE]
<1>1. SubscribeMessage(s, message)
  BY Zenon DEF esp_mqtt_client_subscribe
<1>2. Requests(SUBSCRIBE, message, r) /\ fragmented_msg_data_offset' = AfterBuilding(message)
  BY <1>1, Zenon DEF SubscribeMessage
<1>3. r.type = "SUBSCRIBE" /\ r.id = id
  BY Zenon
<1> HIDE DEF r
<1>4. message # Failed /\ state = "CONNECTED"
  BY <1>2, Zenon DEF Requests
<1>5. /\ s.filter \in Seq(Byte) /\ s.qos \in 0..2
      /\ s.property \in esp_mqtt5_subscribe_property_config_t
  <2>1. s \in [filter : Seq(Byte), qos : 0..2, property : esp_mqtt5_subscribe_property_config_t]
    BY Mqtt5DataAssumption
  <2> QED
    BY <2>1, Zenon
<1>6. id \in Nat
  BY DEF IInv, GivenIds
<1>7. Carries(message, r)
  <2> DEFINE filter == s.filter
             qos == s.qos
             property == s.property
  <2>1. /\ filter \in Seq(Byte) /\ qos \in 0..2
        /\ property \in esp_mqtt5_subscribe_property_config_t
    BY <1>5, Zenon
  <2>2. message = mqtt5_msg_subscribe(<<[filter |-> filter, qos |-> qos]>>, id, property)
    BY Zenon
  <2> HIDE DEF filter, qos, property, message, id
  <2> QED
    BY <1>3, <1>4, <1>6, <2>1, <2>2, SubscribeCarries
<1> HIDE DEF message
<1>8. fragmented_msg_data_offset' = 0
  <2>1. "CONNECTED" # "down"
    OBVIOUS
  <2>2. fragmented_msg_data_offset = 0
    BY <1>4, <2>1, Zenon DEF IInv, Wires
  <2> QED
    BY <1>2, <1>7, <2>2, AfterBuildingIs, Zenon
<1> QED
  BY <1>2, <1>3, <1>7, <1>8, RequestsStep

\* esp_mqtt_client_unsubscribe.
LEMMA UnsubscribeStep ==
    ASSUME IInv, NEW u \in Unsubscriptions, esp_mqtt_client_unsubscribe(u)
    PROVE  IInv'
<1> DEFINE id == last_message_id + 1
           message == mqtt5_msg_unsubscribe(u.filter, id, u.property)
           r == [type |-> "UNSUBSCRIBE", id |-> id,
                 filter |-> SharedTopic(u.property, u.filter),
                 user_property |-> u.property.user_property]
<1>1. Requests(UNSUBSCRIBE, message, r) /\ fragmented_msg_data_offset' = 0
  BY Zenon DEF esp_mqtt_client_unsubscribe
<1>2. r.type = "UNSUBSCRIBE" /\ r.id = id
  BY Zenon
<1> HIDE DEF r
<1>3. message # Failed
  BY <1>1, Zenon DEF Requests
<1>4. u.filter \in Seq(Byte) /\ u.property \in esp_mqtt5_unsubscribe_property_config_t
  <2>1. u \in [filter : Seq(Byte), property : esp_mqtt5_unsubscribe_property_config_t]
    BY Mqtt5DataAssumption
  <2> QED
    BY <2>1, Zenon
<1>5. id \in Nat
  BY DEF IInv, GivenIds
<1>6. Carries(message, r)
  BY <1>2, <1>3, <1>4, <1>5, UnsubscribeCarries
<1> HIDE DEF message
<1> QED
  BY <1>1, <1>2, <1>6, RequestsStep

\* What IInv says, part by part.
LEMMA Parts ==
    ASSUME IInv
    PROVE  /\ StreamOf(toBroker, meant) /\ Carried(outbox)
           /\ info \in Info5 /\ connect_property \in esp_mqtt5_connection_property_storage_t
           /\ server.response_info \in Seq(Nat)
           /\ state # "down" => fragmented_msg_data_offset = 0
           /\ last_message_id \in Nat /\ Items(outbox, last_message_id)
           /\ Meanings(meant, last_message_id) /\ Arriving(toClient, last_message_id)
           /\ got \subseteq 1..last_message_id /\ inflight \subseteq 1..last_message_id
           /\ state = "down" => toClient = <<>>
           /\ Once(outbox, meant, got, held) /\ ~twice
           /\ uncounted \in BOOLEAN /\ Queued(outbox, inflight)
           /\ ~uncounted => UnderWay(meant, toClient, inflight)
           /\ state = "CONNECTED" => Right(send_publish_packet_count, inflight, uncounted)
           /\ state = "connecting" => inflight = {} /\ ~uncounted
           /\ state \in {"down", "connecting", "CONNECTED"}
BY Zenon DEF IInv, Wires, GivenIds, Twice, Count

---------------------------------------------------------------------------
\* The task: connecting, receiving and sending again.

\* The states differ.
LEMMA Differ ==
    /\ "down" # "connecting" /\ "down" # "CONNECTED" /\ "connecting" # "CONNECTED"
    /\ "connecting" # "down" /\ "CONNECTED" # "down" /\ "CONNECTED" # "connecting"
OBVIOUS

\* A message that no answer is counted for.
LEMMA QuietType ==
    ASSUME NEW r, r.type \in {"CONNECT", "DISCONNECT"}, NEW last
    PROVE  ~Token(r) /\ MeantOK(r, last)
<1>1. r.type # "PUBLISH" /\ r.type # "PUBREL" /\ r.type \notin {"PUBREC", "SUBSCRIBE", "UNSUBSCRIBE"}
  OBVIOUS
<1>2. ~Token(r)
  BY <1>1, Zenon DEF Token
<1> QED
  BY <1>1, <1>2, Zenon DEF MeantOK

\* esp_mqtt_client_disconnect.
LEMMA DisconnectStep ==
    ASSUME IInv, NEW d \in Disconnections, Disconnect(d)
    PROVE  IInv'
<1> DEFINE p == esp_mqtt5_client_set_disconnect_property(NoDisconnectProperty, d)
           message == mqtt5_msg_disconnect(p)
           r == [type |-> "DISCONNECT", disconnect_reason |-> d.disconnect_reason,
                 session_expiry_interval |-> d.session_expiry_interval,
                 user_property |-> d.user_property]
<1>1. /\ info' = info /\ connect_property' = connect_property /\ server' = server
      /\ got' = got /\ held' = held /\ twice' = twice
      /\ outbox' = outbox /\ last_message_id' = last_message_id
      /\ inflight' = inflight /\ uncounted' = uncounted
      /\ state' = "down" /\ toClient' = <<>>
  BY DEF Disconnect, Calls, broker, AbortConnection
<1>2. DisconnectMessage(d, message)
  BY Zenon DEF Disconnect
<1>3. message # Failed /\ toBroker' = toBroker \o message /\ meant' = Append(meant, r)
  BY <1>2, Zenon DEF DisconnectMessage, Writes
<1>4. r.type = "DISCONNECT" /\ r.type \in {"CONNECT", "DISCONNECT"}
  BY Zenon
<1>5. p \in esp_mqtt5_disconnect_property_config_t
  <2>1. d \in esp_mqtt5_disconnect_property_config_t
    BY Mqtt5DataAssumption
  <2>2. NoDisconnectProperty \in esp_mqtt5_disconnect_property_config_t
    <3>1. <<>> \in Seq(esp_mqtt5_user_property_item_t)
      OBVIOUS
    <3> HIDE DEF esp_mqtt5_user_property_item_t
    <3> QED
      BY <3>1 DEF NoDisconnectProperty, esp_mqtt5_disconnect_property_config_t, Byte
  <2> DEFINE n == Merged(NoDisconnectProperty, d, NoDisconnectProperty)
  <2>3. n \in esp_mqtt5_disconnect_property_config_t
    BY <2>1, <2>2 DEF Merged, esp_mqtt5_disconnect_property_config_t
  <2> QED
    BY <2>3, Zenon DEF esp_mqtt5_client_set_disconnect_property
<1> HIDE DEF p, r
<1>6. Carries(message, r)
  BY <1>3, <1>4, <1>5, DisconnectCarries
<1> HIDE DEF message
<1>7. StreamOf(toBroker', meant') /\ Grown(meant', meant, r)
  BY <1>3, <1>6, Parts, WiresAppend, Zenon
<1>8. ~Token(r) /\ MeantOK(r, last_message_id)
  BY <1>4, QuietType
<1>9. Meanings(meant', last_message_id)
  BY <1>7, <1>8, Parts, MeaningsGrow, Zenon
<1>10. Once(outbox, meant', got, held)
  BY <1>7, <1>8, Parts, OnceQuiet, Zenon
<1>11. ~uncounted => UnderWay(meant', <<>>, inflight)
  BY <1>7, <1>8, Parts, WayQuiet, WayCut, Zenon
<1>12. Wires'
  BY <1>1, <1>7, Parts, Zenon DEF Wires
<1>13. GivenIds'
  BY <1>1, <1>9, Parts, ArrivingNone, Zenon DEF GivenIds
<1>14. Twice'
  BY <1>1, <1>10, Parts, Zenon DEF Twice
<1>15. Count'
  BY <1>1, <1>11, Parts, Differ, Zenon DEF Count
<1> QED
  BY <1>12, <1>13, <1>14, <1>15, Zenon DEF IInv

\* The client connects: a new stream, and nothing is counted.
LEMMA ConnectStep ==
    ASSUME IInv, Connect
    PROVE  IInv'
<1> DEFINE message == mqtt5_msg_connect(info, connect_property, WillProperty)
           r == [type |-> "CONNECT", version |-> <<0, 4, 77, 81, 84, 84, 5>>,
                 info |-> info, property |-> connect_property,
                 will_property |-> WillProperty]
<1>1. /\ info' = info /\ connect_property' = connect_property /\ server' = server
      /\ got' = got /\ held' = held /\ twice' = twice
      /\ outbox' = outbox /\ last_message_id' = last_message_id
      /\ inflight' = {} /\ uncounted' = FALSE /\ fragmented_msg_data_offset' = 0
      /\ state = "down" /\ state' = "connecting" /\ toClient' = toClient
  BY DEF Connect
<1>2. message # Failed /\ toBroker' = message /\ meant' = <<r>>
  BY Zenon DEF Connect, ConnectMessage
<1>3. r.type = "CONNECT" /\ r.type \in {"CONNECT", "DISCONNECT"}
  BY Zenon
<1>4. WillProperty \in esp_mqtt5_connection_will_property_storage_t
  BY Mqtt5DataAssumption
<1> HIDE DEF r
<1>5. Carries(message, r)
  BY <1>2, <1>3, <1>4, Parts, ConnectCarries, Zenon
<1> HIDE DEF message
<1>6. StreamOf(toBroker', meant')
  BY <1>2, <1>5, StreamOfOne, Zenon
<1>7. IsSeq(meant') /\ \A k \in DOMAIN meant' : meant'[k] = r
  <2>1. <<r>> \in Seq({r}) /\ \A k \in DOMAIN <<r>> : <<r>>[k] = r
    OBVIOUS
  <2> QED
    BY <1>2, <2>1, Zenon DEF IsSeq
<1>8. ~Token(r) /\ MeantOK(r, last_message_id)
  BY <1>3, QuietType
<1>9. Meanings(meant', last_message_id)
  BY <1>7, <1>8, Zenon DEF Meanings
<1>10. Once(outbox, meant', got, held)
  BY <1>3, <1>7, Parts, OnceConnect, Zenon
<1>11. UnderWay(meant', toClient, {})
  <2>1. DOMAIN toClient = {}
    BY <1>1, Parts, EmptyIs, Zenon
  <2> QED
    BY <1>7, <1>8, <2>1, WayNone, Zenon
<1>12. Wires'
  BY <1>1, <1>6, Parts, Zenon DEF Wires
<1>13. GivenIds'
  <2>1. {} \subseteq 1..last_message_id
    OBVIOUS
  <2>2. state' # "down" /\ state' \in {"down", "connecting", "CONNECTED"}
    BY <1>1
  <2> QED
    BY <1>1, <1>9, <2>1, <2>2, Parts, Zenon DEF GivenIds
<1>14. Twice'
  BY <1>1, <1>10, Parts, Zenon DEF Twice
<1>15. Count'
  <2>1. Queued(outbox, {})
    BY Zenon DEF Queued
  <2>2. FALSE \in BOOLEAN /\ state' # "CONNECTED"
    BY <1>1
  <2> QED
    BY <1>1, <1>11, <2>1, <2>2, Zenon DEF Count
<1> QED
  BY <1>12, <1>13, <1>14, <1>15, Zenon DEF IInv

\* The connection is lost.
LEMMA LinkGoesStep ==
    ASSUME IInv, LinkGoes
    PROVE  IInv'
<1>1. /\ info' = info /\ connect_property' = connect_property /\ server' = server
      /\ got' = got /\ held' = held /\ twice' = twice
      /\ outbox' = outbox /\ last_message_id' = last_message_id
      /\ toBroker' = toBroker /\ meant' = meant
      /\ inflight' = inflight /\ uncounted' = uncounted
      /\ state' = "down" /\ toClient' = <<>>
  BY DEF LinkGoes, AbortConnection, broker, history
<1>2. ~uncounted => UnderWay(meant, <<>>, inflight)
  BY Parts, WayCut, Zenon
<1>3. Wires'
  BY <1>1, Parts, Zenon DEF Wires
<1>4. GivenIds'
  BY <1>1, Parts, ArrivingNone, Zenon DEF GivenIds
<1>5. Twice'
  BY <1>1, Parts, Zenon DEF Twice
<1>6. Count'
  BY <1>1, <1>2, Parts, Differ, Zenon DEF Count
<1> QED
  BY <1>3, <1>4, <1>5, <1>6, Zenon DEF IInv

\* What is received is a message of the broker.
LEMMA FirstHeard ==
    ASSUME IInv, toClient # <<>>
    PROVE  /\ Shrunk(Tail(toClient), toClient)
           /\ Arriving(Tail(toClient), last_message_id)
           /\ in = toClient[1].bytes /\ in \in Seq(Nat)
           /\ SaidType(toClient[1]) = mqtt_get_type(in)
           /\ SaidId(toClient[1]) = InId /\ InId \in Nat
           /\ Answer(toClient[1]) => InId \in 1..last_message_id
<1> DEFINE x == toClient[1]
<1>1. Shrunk(Tail(toClient), toClient) /\ Head(toClient) = x
  BY Parts, TailShrinks, Zenon DEF Arriving
<1>2. Arriving(Tail(toClient), last_message_id) /\ HeardOK(x, last_message_id)
  BY <1>1, Parts, ArrivingShrink, Zenon
<1>3. in = x.bytes
  BY <1>1, Zenon DEF in
<1>4. InId = SaidId(x)
  BY <1>3, Zenon DEF InId, SaidId
<1>5. PICK type \in 0..15 : FromBroker(x.bytes, type)
  BY <1>2, Zenon DEF HeardOK
<1>6. PICK flags, body : flags \in 0..15 /\ Wire(x.bytes, 16 * type + flags, body)
  BY <1>5, Zenon DEF FromBroker
<1>7. mqtt5_get_id(x.bytes, Len(x.bytes)) \in Nat
  BY <1>6, IdIsNumber, Zenon
<1>8. x.bytes \in Seq(Nat)
  BY <1>5, TypeSaid, Zenon
<1> QED
  BY <1>1, <1>2, <1>3, <1>4, <1>7, <1>8, Zenon DEF SaidType, SaidId, HeardOK

\* CONNACK: the configuration of the server is kept, and the counter starts.
LEMMA ConnAckStep ==
    ASSUME IInv, ReceivesConnAck
    PROVE  IInv'
<1>1. /\ got' = got /\ held' = held /\ twice' = twice
      /\ outbox' = outbox /\ last_message_id' = last_message_id
      /\ toBroker' = toBroker /\ meant' = meant
      /\ inflight' = inflight /\ uncounted' = uncounted
      /\ fragmented_msg_data_offset' = fragmented_msg_data_offset
      /\ state = "connecting" /\ toClient # <<>>
  BY DEF ReceivesConnAck, Hears, broker
<1>2. inflight = {} /\ ~uncounted /\ fragmented_msg_data_offset = 0
  BY <1>1, Parts, Differ, Zenon
<1> DEFINE c == mqtt5_msg_parse_connack_property(in, info, connect_property, server)
<1>3. HearsConnAck(c)
  BY Zenon DEF ReceivesConnAck
<1>4. c.ok => ConnAckTyped(c)
  BY <1>1, FirstHeard, Parts, ConnAckType, Zenon
<1> HIDE DEF c
<1>5. /\ info' \in Info5
      /\ connect_property' \in esp_mqtt5_connection_property_storage_t
      /\ server'.response_info \in Seq(Nat)
  <2>1. CASE c.ok
    <3>1. info' = c.info /\ connect_property' = c.property /\ server' = c.server
      BY <1>3, <2>1, Zenon DEF HearsConnAck
    <3> QED
      BY <1>4, <2>1, <3>1, Zenon DEF ConnAckTyped
  <2>2. CASE ~c.ok
    <3>1. info' = info /\ connect_property' = connect_property /\ server' = server
      BY <1>3, <2>2, Zenon DEF HearsConnAck
    <3> QED
      BY <3>1, Parts, Zenon
  <2> QED
    BY <2>1, <2>2
<1>6. \/ state' = "CONNECTED" /\ toClient' = Tail(toClient) /\ send_publish_packet_count' = 0
      \/ state' = "down" /\ toClient' = <<>>
  BY <1>3, Zenon DEF HearsConnAck, CounterStarts, AbortConnection
<1>7. /\ Arriving(toClient', last_message_id)
      /\ UnderWay(meant, toClient', inflight)
  <2>1. UnderWay(meant, toClient, inflight)
    BY <1>2, Parts, Zenon
  <2>2. CASE toClient' = Tail(toClient)
    BY <1>1, <2>1, <2>2, FirstHeard, WayTaken, Zenon
  <2>3. CASE toClient' = <<>>
    BY <2>1, <2>3, ArrivingNone, WayCut, Zenon
  <2> QED
    BY <1>6, <2>2, <2>3
<1>8. Wires'
  BY <1>1, <1>2, <1>5, Parts, Zenon DEF Wires
<1>9. GivenIds'
  <2>1. state' = "down" => toClient' = <<>>
    BY <1>6, Differ, Zenon
  <2>2. state' \in {"down", "connecting", "CONNECTED"}
    BY <1>6, Zenon
  <2> QED
    BY <1>1, <1>7, <2>1, <2>2, Parts, Zenon DEF GivenIds
<1>10. Twice'
  BY <1>1, Parts, Zenon DEF Twice
<1>11. Count'
  <2>1. state' = "CONNECTED" => Right(send_publish_packet_count', inflight', uncounted')
    <3>1. uncounted' = FALSE /\ inflight' = {}
      BY <1>1, <1>2, Parts
    <3> QED
      BY <1>6, <3>1, RightStarts, Differ, Zenon
  <2>2. state' # "connecting"
    BY <1>6
  <2> QED
    BY <1>1, <1>7, <2>1, <2>2, Parts, Zenon DEF Count
<1> QED
  BY <1>8, <1>9, <1>10, <1>11, Zenon DEF IInv

\* What receiving leaves alone.
LEMMA ReceivesIs ==
    ASSUME NEW type, Receives(type)
    PROVE  /\ info' = info /\ connect_property' = connect_property /\ server' = server
           /\ got' = got /\ held' = held /\ twice' = twice
           /\ last_message_id' = last_message_id
           /\ state = "CONNECTED" /\ toClient # <<>> /\ mqtt_get_type(in) = type
BY DEF Receives, Hears, broker, in

\* What the client keeps while it only answers.
Keeps ==
    /\ info' = info /\ connect_property' = connect_property /\ server' = server
    /\ got' = got /\ held' = held /\ twice' = twice
    /\ last_message_id' = last_message_id
    /\ state = "CONNECTED" /\ toClient # <<>>
    /\ outbox' = outbox /\ inflight' = inflight /\ uncounted' = uncounted
    /\ send_publish_packet_count' = send_publish_packet_count

\* A message is taken and nothing is answered, or the connection is given up.
LEMMA TakenStep ==
    ASSUME IInv, Keeps, UNCHANGED <<toBroker, meant>>,
           fragmented_msg_data_offset' = fragmented_msg_data_offset,
           \/ state' = state /\ toClient' = Tail(toClient)
           \/ state' = "down" /\ toClient' = <<>>
    PROVE  IInv'
<1>1. toBroker' = toBroker /\ meant' = meant /\ fragmented_msg_data_offset = 0
  BY Parts, Differ DEF Keeps
<1>2. /\ Arriving(toClient', last_message_id)
      /\ ~uncounted => UnderWay(meant, toClient', inflight)
  <2>1. CASE toClient' = Tail(toClient)
    BY <2>1, Parts, FirstHeard, WayTaken, Zenon DEF Keeps
  <2>2. CASE toClient' = <<>>
    BY <2>2, Parts, ArrivingNone, WayCut, Zenon
  <2> QED
    BY <2>1, <2>2
<1>3. Wires'
  BY <1>1, Parts, Zenon DEF Wires, Keeps
<1>4. GivenIds'
  <2>1. state' \in {"down", "connecting", "CONNECTED"}
    BY DEF Keeps
  <2>2. state' = "down" => toClient' = <<>>
    BY Differ, Zenon DEF Keeps
  <2> QED
    BY <1>1, <1>2, <2>1, <2>2, Parts, Zenon DEF GivenIds, Keeps
<1>5. Twice'
  BY <1>1, Parts, Zenon DEF Twice, Keeps
<1>6. Count'
  BY <1>1, <1>2, Parts, Differ, Zenon DEF Count, Keeps
<1> QED
  BY <1>3, <1>4, <1>5, <1>6, Zenon DEF IInv

\* An answer that is not counted for.
LEMMA AnswersStep ==
    ASSUME IInv, Keeps, NEW message, NEW r, WritesBack(message, r), Carries(message, r),
           ~Token(r), MeantOK(r, last_message_id)
    PROVE  IInv'
<1>1. /\ state' = state /\ toClient' = Tail(toClient)
      /\ toBroker' = toBroker \o message /\ meant' = Append(meant, r)
      /\ fragmented_msg_data_offset' = AfterBuilding(message)
  BY Zenon DEF WritesBack, Goes, Writes
<1>2. fragmented_msg_data_offset = 0
  BY Parts, Differ, Zenon DEF Keeps
<1>3. fragmented_msg_data_offset' = 0
  BY <1>1, <1>2, AfterBuildingIs, Zenon
<1>4. StreamOf(toBroker', meant') /\ Grown(meant', meant, r)
  BY <1>1, Parts, WiresAppend, Zenon
<1>5. Meanings(meant', last_message_id)
  BY <1>4, Parts, MeaningsGrow, Zenon
<1>6. Once(outbox, meant', got, held)
  BY <1>4, Parts, OnceQuiet, Zenon
<1>7. ASSUME ~uncounted PROVE UnderWay(meant', toClient', inflight)
  <2>1. UnderWay(meant', toClient, inflight)
    BY <1>4, <1>7, Parts, WayQuiet, Zenon
  <2> QED
    BY <1>1, <2>1, FirstHeard, WayTaken, Zenon DEF Keeps
<1>8. Wires'
  BY <1>3, <1>4, Parts, Zenon DEF Wires, Keeps
<1>9. GivenIds'
  <2>1. Arriving(toClient', last_message_id)
    BY <1>1, FirstHeard, Zenon DEF Keeps
  <2>2. state' \in {"down", "connecting", "CONNECTED"} /\ state' # "down"
    BY <1>1 DEF Keeps
  <2> QED
    BY <1>5, <2>1, <2>2, Parts, Zenon DEF GivenIds, Keeps
<1>10. Twice'
  BY <1>6, Parts, Zenon DEF Twice, Keeps
<1>11. Count'
  BY <1>1, <1>7, Parts, Differ, Zenon DEF Count, Keeps
<1> QED
  BY <1>8, <1>9, <1>10, <1>11, Zenon DEF IInv

\* PUBACK, PUBREC and PUBCOMP.
LEMMA AckIs ==
    ASSUME NEW name, NEW id
    PROVE  Ack(name, id).type = name /\ Ack(name, id).id = id
BY DEF Ack

\* The answers of the client are not counted.
LEMMA QuietAck ==
    ASSUME NEW name \in {"PUBACK", "PUBREC", "PUBCOMP"}, NEW id \in Nat, NEW last
    PROVE  ~Token(Ack(name, id)) /\ MeantOK(Ack(name, id), last)
<1> DEFINE r == Ack(name, id)
<1>1. r.type = name /\ r.id = id
  BY AckIs, Zenon
<1> HIDE DEF r
<1>2. r.type # "PUBLISH" /\ r.type # "PUBREL"
  BY <1>1
<1>3. ~Token(r)
  BY <1>2, Zenon DEF Token
<1>4. MeantOK(r, last)
  BY <1>1, <1>2, <1>3, Zenon DEF MeantOK
<1> QED
  BY <1>3, <1>4 DEF r

\* A PUBLISH is received.
LEMMA PublishHeardStep ==
    ASSUME IInv, ReceivesPublish
    PROVE  IInv'
<1>1. /\ Receives(PUBLISH)
      /\ outbox' = outbox /\ inflight' = inflight /\ uncounted' = uncounted
      /\ send_publish_packet_count' = send_publish_packet_count
  BY DEF ReceivesPublish
<1>2. Keeps
  BY <1>1, ReceivesIs, Zenon DEF Keeps
<1>3. PICK buffer, qos, heard : HearsPublish(buffer, qos, InId, heard)
  <2>1. \E buffer, id : id = InId /\ \E heard : HearsPublish(buffer, mqtt_get_qos(buffer), id, heard)
    BY Zenon DEF ReceivesPublish
  <2> QED
    BY <2>1, Zenon
<1>4. \/ Goes /\ NothingBack
      \/ WritesBack(mqtt5_msg_puback(InId), Ack("PUBACK", InId))
      \/ WritesBack(mqtt5_msg_pubrec(InId), Ack("PUBREC", InId))
      \/ AbortConnection /\ NothingBack
  BY <1>3, Zenon DEF HearsPublish
<1>5. InId \in Nat
  BY <1>2, FirstHeard, Zenon DEF Keeps
<1>6. CASE Goes /\ NothingBack
  BY <1>2, <1>6, TakenStep DEF Goes, NothingBack
<1>7. CASE AbortConnection /\ NothingBack
  BY <1>2, <1>7, TakenStep DEF AbortConnection, NothingBack
<1>8. CASE WritesBack(mqtt5_msg_puback(InId), Ack("PUBACK", InId))
  <2>1. "PUBACK" \in {"PUBACK", "PUBREC", "PUBCOMP"}
    OBVIOUS
  <2> QED
    BY <1>2, <1>5, <1>8, <2>1, AcksCarry, QuietAck, AnswersStep, Zenon
<1>9. CASE WritesBack(mqtt5_msg_pubrec(InId), Ack("PUBREC", InId))
  <2>1. "PUBREC" \in {"PUBACK", "PUBREC", "PUBCOMP"}
    OBVIOUS
  <2> QED
    BY <1>2, <1>5, <1>9, <2>1, AcksCarry, QuietAck, AnswersStep, Zenon
<1> QED
  BY <1>4, <1>6, <1>7, <1>8, <1>9

\* A PUBREL is received.
LEMMA PubrelHeardStep ==
    ASSUME IInv, ReceivesPubrel
    PROVE  IInv'
<1>1. /\ Receives(PUBREL)
      /\ outbox' = outbox /\ inflight' = inflight /\ uncounted' = uncounted
      /\ send_publish_packet_count' = send_publish_packet_count
      /\ WritesBack(mqtt5_msg_pubcomp(InId), Ack("PUBCOMP", InId))
  BY DEF ReceivesPubrel, PubrelOf
<1>2. Keeps
  BY <1>1, ReceivesIs, Zenon DEF Keeps
<1>3. InId \in Nat
  BY <1>2, FirstHeard, Zenon DEF Keeps
<1>4. "PUBCOMP" \in {"PUBACK", "PUBREC", "PUBCOMP"}
  OBVIOUS
<1> QED
  BY <1>1, <1>2, <1>3, <1>4, AcksCarry, QuietAck, AnswersStep, Zenon

\* A DISCONNECT is received.
LEMMA DisconnectHeardStep ==
    ASSUME IInv, ReceivesDisconnect
    PROVE  IInv'
<1>1. /\ Receives(DISCONNECT)
      /\ outbox' = outbox /\ inflight' = inflight /\ uncounted' = uncounted
      /\ send_publish_packet_count' = send_publish_packet_count
      /\ Goes /\ UNCHANGED <<toBroker, meant>>
      /\ fragmented_msg_data_offset' = fragmented_msg_data_offset
  BY DEF ReceivesDisconnect
<1>2. Keeps
  BY <1>1, ReceivesIs, Zenon DEF Keeps
<1> QED
  BY <1>1, <1>2, TakenStep DEF Goes

\* The oldest item of a kind, if there is one.
LEMMA OldestItem ==
    ASSUME NEW last, Items(outbox, last), NEW S \in SUBSET (DOMAIN outbox)
    PROVE  /\ S # {} => Oldest(S) \in S
           /\ S = {} => Oldest(S) = 0
           /\ 0 \notin DOMAIN outbox
           /\ Oldest(S) # 0 => Oldest(S) \in S
<1>1. IsSeq(outbox)
  BY Zenon DEF Items
<1>2. Len(outbox) \in Nat /\ DOMAIN outbox = 1..Len(outbox)
  BY <1>1, SeqIs, Zenon
<1>3. S \in SUBSET Nat /\ 0 \notin DOMAIN outbox
  BY <1>2
<1> QED
  BY <1>3, OldestIs, Zenon

\* What leaves the outbox takes nothing else with it.
LEMMA RemovedIs ==
    ASSUME IInv, NEW i \in DOMAIN outbox, NEW n, n = RemoveAt(outbox, i)
    PROVE  /\ Items(n, last_message_id) /\ Carried(n)
           /\ Once(n, meant, got, held)
           /\ Queued(n, inflight)
<1>1. /\ last_message_id \in Nat /\ Items(outbox, last_message_id) /\ Carried(outbox)
      /\ Once(outbox, meant, got, held) /\ Queued(outbox, inflight)
      /\ Meanings(meant, last_message_id) /\ got \subseteq 1..last_message_id
  BY Parts, Zenon
<1>2. IsSeq(outbox)
  BY <1>1, Zenon DEF Items
<1>3. Emb(n, outbox)
  BY <1>2, RemoveIs, Zenon
<1>4. /\ Items(n, last_message_id) /\ Carried(n) /\ Continues(n, outbox, last_message_id)
      /\ Queued(n, inflight)
  BY <1>1, <1>3, ItemsEmb, Zenon
<1>5. Once(n, meant, got, held)
  BY <1>1, <1>4, OnceContinues, Zenon
<1> QED
  BY <1>4, <1>5, Zenon

LEMMA DeleteIs ==
    ASSUME IInv, NEW id, NEW type, NEW n, n = outbox_delete(id, type)
    PROVE  /\ Items(n, last_message_id) /\ Carried(n)
           /\ Once(n, meant, got, held)
           /\ Queued(n, inflight)
<1> DEFINE S == {i \in DOMAIN outbox : outbox[i].id = id /\ outbox[i].type = type}
           i == Oldest(S)
<1>1. n = IF i = 0 THEN outbox ELSE RemoveAt(outbox, i)
  BY Zenon DEF outbox_delete, Find
<1>2. S \in SUBSET (DOMAIN outbox)
  BY Zenon
<1> HIDE DEF S
<1>3. i # 0 => i \in DOMAIN outbox
  BY <1>2, Parts, OldestItem, Zenon
<1> HIDE DEF i
<1>4. CASE i = 0
  BY <1>1, <1>4, Parts, Zenon
<1>5. CASE i # 0
  BY <1>1, <1>3, <1>5, RemovedIs, Zenon
<1> QED
  BY <1>4, <1>5

\* An item is deleted for its age.
LEMMA ExpireStep ==
    ASSUME IInv, NEW i \in DOMAIN outbox, Expire(i)
    PROVE  IInv'
<1>1. /\ state' = state /\ info' = info /\ connect_property' = connect_property
      /\ server' = server /\ send_publish_packet_count' = send_publish_packet_count
      /\ fragmented_msg_data_offset' = fragmented_msg_data_offset
      /\ last_message_id' = last_message_id /\ toBroker' = toBroker /\ meant' = meant
      /\ toClient' = toClient /\ held' = held /\ got' = got /\ twice' = twice
      /\ inflight' = inflight /\ uncounted' = uncounted
  BY DEF Expire, network, broker
<1>2. /\ Items(outbox', last_message_id) /\ Carried(outbox')
      /\ Once(outbox', meant, got, held) /\ Queued(outbox', inflight)
  BY RemovedIs, Zenon DEF Expire
<1>3. Wires' /\ GivenIds'
  BY <1>1, <1>2, Parts, Zenon DEF Wires, GivenIds
<1>4. Twice' /\ Count'
  BY <1>1, <1>2, Parts, Zenon DEF Twice, Count
<1> QED
  BY <1>3, <1>4, Zenon DEF IInv

\* PUBACK, PUBCOMP, SUBACK and UNSUBACK.
LEMMA FinishStep ==
    ASSUME IInv, NEW type, NEW initiator, NEW told, Finishes(type, initiator, told),
           \/ Counted /\ type \in {PUBACK, PUBREC, PUBCOMP}
           \/ NotCounted
    PROVE  IInv'
<1> DEFINE last == last_message_id
           f == inflight
           x == toClient[1]
<1>1. Receives(type) /\ Goes /\ FinishesId(initiator, InId, told)
      /\ UNCHANGED <<fragmented_msg_data_offset, toBroker, meant, uncounted>>
  BY DEF Finishes
<1>2. /\ info' = info /\ connect_property' = connect_property /\ server' = server
      /\ got' = got /\ held' = held /\ twice' = twice /\ last' = last
      /\ state = "CONNECTED" /\ toClient # <<>> /\ mqtt_get_type(in) = type
  BY <1>1, ReceivesIs, Zenon
<1>3. /\ fragmented_msg_data_offset' = fragmented_msg_data_offset
      /\ toBroker' = toBroker /\ meant' = meant /\ uncounted' = uncounted
      /\ state' = state /\ toClient' = Tail(toClient)
  BY <1>1 DEF Goes
<1>4. outbox' = outbox_delete(InId, initiator)
  BY <1>1, Zenon DEF FinishesId
<1>5. /\ Items(outbox', last) /\ Carried(outbox')
      /\ Once(outbox', meant, got, held) /\ Queued(outbox', f)
  BY <1>4, DeleteIs, Zenon
<1>6. /\ Shrunk(Tail(toClient), toClient) /\ Arriving(Tail(toClient), last)
      /\ SaidId(x) = InId /\ SaidType(x) = type
  BY <1>2, FirstHeard, Zenon
<1>7. ASSUME ~uncounted
      PROVE  /\ UnderWay(meant, Tail(toClient), f)
             /\ Answer(x) => NotOf(meant, Tail(toClient), InId) /\ InId \in f
  BY <1>6, <1>7, Parts, WayTaken, Zenon
<1>8. Right(send_publish_packet_count, f, uncounted) /\ f \subseteq 1..last
  BY <1>2, Parts, Zenon
<1>9. /\ inflight' \subseteq f /\ Right(send_publish_packet_count', inflight', uncounted)
      /\ ~uncounted => UnderWay(meant, Tail(toClient), inflight')
  <2>1. CASE Counted /\ type \in {PUBACK, PUBREC, PUBCOMP}
    <3>1. /\ send_publish_packet_count' = NotNegative(send_publish_packet_count - 1)
          /\ inflight' = f \ {InId}
      BY <2>1, Zenon DEF Counted, esp_mqtt5_decrement_packet_counter
    <3>2. Answer(x)
      BY <1>6, <2>1, Zenon DEF Answer
    <3>3. uncounted \/ InId \in f
      BY <1>7, <3>2, Zenon
    <3>4. Right(send_publish_packet_count', inflight', uncounted)
      BY <1>8, <3>1, <3>3, RightEnds, Zenon
    <3>5. ~uncounted => UnderWay(meant, Tail(toClient), inflight')
      BY <1>7, <3>1, <3>2, WayEnds, Zenon
    <3>6. inflight' \subseteq f
      BY <3>1
    <3> QED
      BY <3>4, <3>5, <3>6
  <2>2. CASE NotCounted
    <3>1. send_publish_packet_count' = send_publish_packet_count /\ inflight' = f
      BY <2>2 DEF NotCounted
    <3> QED
      BY <1>7, <1>8, <3>1, Zenon
  <2> QED
    BY <2>1, <2>2
<1>10. Wires'
  BY <1>2, <1>3, <1>5, Parts, Zenon DEF Wires
<1>11. GivenIds'
  <2>1. state' \in {"down", "connecting", "CONNECTED"} /\ state' # "down"
    BY <1>2, <1>3
  <2>2. inflight' \subseteq 1..last
    BY <1>8, <1>9, Zenon
  <2> QED
    BY <1>2, <1>3, <1>5, <1>6, <2>1, <2>2, Parts, Zenon DEF GivenIds
<1>12. Twice'
  BY <1>2, <1>3, <1>5, Parts, Zenon DEF Twice
<1>13. Count'
  <2>1. Queued(outbox', inflight')
    BY <1>5, <1>9, Zenon DEF Queued
  <2> QED
    BY <1>2, <1>3, <1>9, <2>1, Parts, Differ, Zenon DEF Count
<1> QED
  BY <1>10, <1>11, <1>12, <1>13, Zenon DEF IInv

\* PUBACK, PUBCOMP, SUBACK and UNSUBACK are received.
LEMMA AckStep ==
    ASSUME IInv,
           ReceivesPuback \/ ReceivesPubcomp \/ ReceivesSuback \/ ReceivesUnsuback
    PROVE  IInv'
<1>1. PUBACK \in {PUBACK, PUBREC, PUBCOMP} /\ PUBCOMP \in {PUBACK, PUBREC, PUBCOMP}
  BY Zenon
<1>2. CASE ReceivesPuback
  BY <1>1, <1>2, FinishStep, Zenon DEF ReceivesPuback
<1>3. CASE ReceivesPubcomp
  BY <1>1, <1>3, FinishStep, Zenon DEF ReceivesPubcomp
<1>4. CASE ReceivesSuback
  BY <1>4, FinishStep, Zenon DEF ReceivesSuback
<1>5. CASE ReceivesUnsuback
  BY <1>5, FinishStep, Zenon DEF ReceivesUnsuback
<1> QED
  BY <1>2, <1>3, <1>4, <1>5

\* An item whose state is another.
LEMMA Repended ==
    ASSUME NEW y, DOMAIN y = Fields, NEW p, NEW x, x = [y EXCEPT !.pending = p]
    PROVE  /\ DOMAIN x = Fields /\ x.pending = p
           /\ x.id = y.id /\ x.type = y.type /\ x.qos = y.qos
           /\ x.bytes = y.bytes /\ x.record = y.record
<1>1. DOMAIN x = DOMAIN y /\ \A v \in DOMAIN y : x[v] = IF v = "pending" THEN p ELSE y[v]
  BY Zenon
<1>2. /\ "id" \in Fields /\ "type" \in Fields /\ "qos" \in Fields
      /\ "bytes" \in Fields /\ "pending" \in Fields /\ "record" \in Fields
  BY Zenon DEF Fields
<1>3. /\ "id" # "pending" /\ "type" # "pending" /\ "qos" # "pending"
      /\ "bytes" # "pending" /\ "record" # "pending"
  OBVIOUS
<1>4. x["pending"] = p
  BY <1>1, <1>2, Zenon
<1>5. /\ x["id"] = y["id"] /\ x["type"] = y["type"] /\ x["qos"] = y["qos"]
      /\ x["bytes"] = y["bytes"] /\ x["record"] = y["record"]
  BY <1>1, <1>2, <1>3, Zenon
<1>6. DOMAIN x = Fields
  BY <1>1, Zenon
<1> QED
  BY <1>4, <1>5, <1>6

\* An item goes on.
LEMMA RependedOK ==
    ASSUME NEW last, NEW y, ItemOK(y, last), ItemCarries(y), NEW p \in Pending, p # "QUEUED",
           y.pending = "ACKNOWLEDGED" => p = "ACKNOWLEDGED",
           y.id # 0,
           NEW x, x = [y EXCEPT !.pending = p]
    PROVE  ItemOK(x, last) /\ ItemCarries(x) /\ Like(x, y) /\ x.pending # "QUEUED"
<1>1. DOMAIN y = Fields
  BY Zenon DEF ItemOK
<1>2. /\ DOMAIN x = Fields /\ x.pending = p
      /\ x.id = y.id /\ x.type = y.type /\ x.qos = y.qos
      /\ x.bytes = y.bytes /\ x.record = y.record
  BY <1>1, Repended
<1>3. ItemOK(x, last)
  BY <1>2, Zenon DEF ItemOK
<1>4. ItemCarries(x)
  BY <1>2, Zenon DEF ItemCarries
<1>5. Like(x, y)
  BY <1>2, Zenon DEF Like
<1> QED
  BY <1>2, <1>3, <1>4, <1>5, Zenon

\* PUBREC is received: from now on the publication is not sent again.
LEMMA PubrecStep ==
    ASSUME IInv, ReceivesPubrec
    PROVE  IInv'
<1> DEFINE last == last_message_id
           id == InId
           r == Ack("PUBREL", id)
           S == {j \in DOMAIN outbox : outbox[j].id = id}
           k == Oldest(S)
           y == outbox[k]
           x == [y EXCEPT !.pending = "ACKNOWLEDGED"]
<1>1. /\ Receives(PUBREC) /\ WritesBack(mqtt5_msg_pubrel(id), r) /\ SetsAcknowledged(id)
      /\ send_publish_packet_count' = send_publish_packet_count
      /\ inflight' = inflight /\ uncounted' = uncounted
  BY DEF ReceivesPubrec, PubrecOf
<1>2. /\ info' = info /\ connect_property' = connect_property /\ server' = server
      /\ got' = got /\ held' = held /\ twice' = twice /\ last' = last
      /\ state = "CONNECTED" /\ toClient # <<>> /\ mqtt_get_type(in) = PUBREC
  BY <1>1, ReceivesIs, Zenon
<1>3. /\ state' = state /\ toClient' = Tail(toClient)
      /\ toBroker' = toBroker \o mqtt5_msg_pubrel(id) /\ meant' = Append(meant, r)
      /\ fragmented_msg_data_offset' = AfterBuilding(mqtt5_msg_pubrel(id))
  BY <1>1, Zenon DEF WritesBack, Goes, Writes
<1>4. outbox' = [j \in DOMAIN outbox |-> IF j = k THEN x ELSE outbox[j]]
  <2>1. outbox' = [j \in DOMAIN outbox |->
                      IF j = k THEN [outbox[j] EXCEPT !.pending = "ACKNOWLEDGED"] ELSE outbox[j]]
    BY <1>1, Zenon DEF SetsAcknowledged
  <2> HIDE DEF k
  <2> QED
    BY <2>1
<1>5. /\ Shrunk(Tail(toClient), toClient) /\ Arriving(Tail(toClient), last)
      /\ SaidId(toClient[1]) = id /\ SaidType(toClient[1]) = PUBREC /\ id \in Nat
      /\ Answer(toClient[1]) => id \in 1..last
  BY <1>2, FirstHeard, Zenon
<1>6. Answer(toClient[1])
  BY <1>5, Zenon DEF Answer
<1>7. last \in Nat /\ Items(outbox, last) /\ Carried(outbox) /\ Meanings(meant, last)
      /\ Once(outbox, meant, got, held) /\ got \subseteq 1..last /\ Queued(outbox, inflight)
  BY Parts, Zenon
<1>8. id \in 1..last /\ id # 0
  BY <1>5, <1>6, <1>7
<1>9. S \in SUBSET (DOMAIN outbox)
  BY Zenon
<1>10. \A j \in DOMAIN outbox : j \in S <=> outbox[j].id = id
  BY Zenon
<1>11. r.type = "PUBREL" /\ r.id = id
  BY AckIs, Zenon
<1>12. Carries(mqtt5_msg_pubrel(id), r)
  BY <1>5, AcksCarry, Zenon
<1> HIDE DEF S, r
<1>13. k \in S \/ (S = {} /\ k = 0 /\ 0 \notin DOMAIN outbox)
  BY <1>7, <1>9, OldestItem, Zenon
<1> HIDE DEF k, id, last
<1>14. Swapped(outbox', outbox, k, x)
  <2>1. IsSeq(outbox)
    BY <1>7, Zenon DEF Items
  <2> HIDE DEF x
  <2> QED
    BY <1>4, <2>1, SwapIs
<1>15. /\ Items(outbox', last) /\ Carried(outbox') /\ Continues(outbox', outbox, last)
       /\ Queued(outbox', inflight)
       /\ \A i \in DOMAIN outbox' : outbox'[i].id = id => outbox'[i].pending = "ACKNOWLEDGED"
  <2>1. CASE k \in S
    <3>1. k \in DOMAIN outbox /\ y.id = id
      BY <1>9, <1>10, <2>1, Zenon
    <3>2. ItemOK(y, last) /\ ItemCarries(y)
      BY <1>7, <3>1, Zenon DEF Items, Carried
    <3>3. y.id # 0
      BY <1>8, <3>1, Zenon
    <3>4. "ACKNOWLEDGED" \in Pending /\ "ACKNOWLEDGED" # "QUEUED"
      BY DEF Pending
    <3>5. ItemOK(x, last) /\ ItemCarries(x) /\ Like(x, y) /\ x.pending # "QUEUED"
      BY <3>2, <3>3, <3>4, RependedOK
    <3>6. x.pending = "ACKNOWLEDGED"
      <4>1. DOMAIN y = Fields
        BY <3>2, Zenon DEF ItemOK
      <4> QED
        BY <4>1, Repended
    <3> HIDE DEF x, y
    <3>7. /\ Items(outbox', last) /\ Carried(outbox') /\ Continues(outbox', outbox, last)
          /\ Queued(outbox', inflight)
      BY <1>7, <1>14, <3>1, <3>5, ItemsSwap, Zenon DEF y
    <3>8. ASSUME NEW i \in DOMAIN outbox', outbox'[i].id = id
          PROVE  outbox'[i].pending = "ACKNOWLEDGED"
      <4>1. CASE i = k
        BY <1>14, <3>1, <3>6, <3>8, <4>1, Zenon DEF Swapped
      <4>2. CASE i # k
        <5>1. i \in DOMAIN outbox /\ outbox[i].id = id
          BY <1>14, <3>8, <4>2, Zenon DEF Swapped
        <5>2. outbox[k].id = id
          BY <3>1, Zenon DEF y
        <5> QED
          BY <1>7, <1>8, <3>1, <4>2, <5>1, <5>2, Zenon DEF Items
      <4> QED
        BY <4>1, <4>2
    <3> QED
      BY <3>7, <3>8
  <2>2. CASE S = {} /\ k = 0 /\ 0 \notin DOMAIN outbox
    <3> DEFINE z == [pending |-> "ACKNOWLEDGED"]
    <3>1. Swapped(outbox', outbox, k, z)
      BY <1>14, <2>2, Zenon DEF Swapped
    <3>2. z.pending # "QUEUED"
      OBVIOUS
    <3> HIDE DEF z
    <3>3. /\ Items(outbox', last) /\ Carried(outbox') /\ Continues(outbox', outbox, last)
          /\ Queued(outbox', inflight)
      BY <1>7, <2>2, <3>1, <3>2, ItemsSwap, Zenon
    <3>4. \A i \in DOMAIN outbox' : outbox'[i].id # id
      BY <1>10, <1>14, <2>2, Zenon DEF Swapped
    <3> QED
      BY <3>3, <3>4, Zenon
  <2> QED
    BY <1>13, <2>1, <2>2
<1>16. StreamOf(toBroker', meant') /\ Grown(meant', meant, r)
  BY <1>3, <1>12, Parts, WiresAppend, Zenon
<1>17. fragmented_msg_data_offset' = 0
  <2>1. fragmented_msg_data_offset = 0
    BY <1>2, Parts, Differ, Zenon
  <2> QED
    BY <1>3, <1>12, <2>1, AfterBuildingIs, Zenon
<1>18. Once(outbox', meant', got, held)
  <2>1. Once(outbox', meant, got, held)
    BY <1>7, <1>15, OnceContinues, Zenon
  <2> QED
    BY <1>11, <1>15, <1>16, <2>1, OncePubrel, Zenon
<1>19. Meanings(meant', last)
  <2>1. "PUBREL" # "PUBLISH" /\ "PUBREL" # "PUBREC" /\ "PUBREL" # "SUBSCRIBE" /\ "PUBREL" # "UNSUBSCRIBE"
    OBVIOUS
  <2>2. r.type # "PUBLISH" /\ r.type # "PUBREC" /\ r.type # "SUBSCRIBE" /\ r.type # "UNSUBSCRIBE"
    BY <1>11, <2>1, Zenon
  <2>3. MeantOK(r, last)
    BY <1>8, <1>11, <2>2, Zenon DEF MeantOK
  <2> QED
    BY <1>7, <1>16, <2>3, MeaningsGrow, Zenon
<1>20. ASSUME ~uncounted PROVE UnderWay(meant', toClient', inflight)
  <2>1. UnderWay(meant, toClient, inflight)
    BY <1>20, Parts, Zenon
  <2>2. UnderWay(meant, toClient', inflight) /\ NotOf(meant, toClient', id) /\ id \in inflight
    BY <1>3, <1>5, <1>6, <2>1, WayTaken, Zenon
  <2>3. UnderWay(meant', toClient', inflight \cup {id})
    BY <1>11, <1>16, <2>2, WayToken, Zenon
  <2>4. inflight \cup {id} = inflight
    BY <2>2
  <2> QED
    BY <2>3, <2>4, Zenon
<1>21. Wires'
  BY <1>2, <1>15, <1>16, <1>17, Parts, Zenon DEF Wires
<1>22. GivenIds'
  <2>1. state' \in {"down", "connecting", "CONNECTED"} /\ state' # "down"
    BY <1>2, <1>3
  <2> QED
    BY <1>1, <1>2, <1>3, <1>5, <1>15, <1>19, <2>1, Parts, Zenon DEF GivenIds, last
<1>23. Twice'
  BY <1>2, <1>18, Parts, Zenon DEF Twice
<1>24. Count'
  BY <1>1, <1>2, <1>3, <1>15, <1>20, Parts, Differ, Zenon DEF Count
<1> QED
  BY <1>21, <1>22, <1>23, <1>24, Zenon DEF IInv

\* A publication of the outbox that is written, as a message.
LEMMA WrittenIs ==
    ASSUME NEW last \in Nat, NEW y, ItemOK(y, last), y.type = PUBLISH
    PROVE  /\ y.record.type = "PUBLISH" /\ y.record.qos = y.qos /\ y.record.id = y.id
           /\ MeantOK(y.record, last)
           /\ y.qos > 0 => Token(y.record) /\ y.id \in 1..last /\ y.id # 0
           /\ ~(y.qos > 0) => ~Token(y.record)
<1> DEFINE r == y.record
           id == y.id
           qos == y.qos
<1>1. r.type = "PUBLISH" /\ r.qos = qos /\ r.id = id /\ id \in 0..last /\ qos \in 0..2
      /\ (qos > 0 <=> id > 0)
  BY Zenon DEF ItemOK
<1> HIDE DEF r, id, qos
<1>2. /\ r.type # "PUBREL" /\ r.type # "PUBREC" /\ r.type # "SUBSCRIBE" /\ r.type # "UNSUBSCRIBE"
  BY <1>1
<1>3. qos > 0 => id \in 1..last /\ id # 0
  BY <1>1
<1>4. Token(r) <=> qos > 0
  BY <1>1, <1>2, Zenon DEF Token
<1>5. MeantOK(r, last)
  BY <1>1, <1>2, <1>3, <1>4, Zenon DEF MeantOK
<1> QED
  BY <1>1, <1>3, <1>4, <1>5, Zenon DEF r, id, qos

\* The item the client sends next.
LEMMA FirstIs ==
    ASSUME IInv, NEW pending, NEW i, i = First(pending)
    PROVE  /\ i # 0 => i \in DOMAIN outbox /\ outbox[i].pending = pending
                       /\ ItemOK(outbox[i], last_message_id) /\ ItemCarries(outbox[i])
           /\ i = 0 => \A k \in DOMAIN outbox : outbox[k].pending # pending
<1> DEFINE S == {k \in DOMAIN outbox : outbox[k].pending = pending}
<1>1. i = Oldest(S)
  BY Zenon DEF First
<1>2. S \in SUBSET (DOMAIN outbox) /\ \A k \in DOMAIN outbox : outbox[k].pending = pending <=> k \in S
  BY Zenon
<1> HIDE DEF S
<1>3. Items(outbox, last_message_id) /\ Carried(outbox)
  BY Parts, Zenon
<1>4. /\ S # {} => i \in S
      /\ i # 0 => i \in S
      /\ 0 \notin DOMAIN outbox
  BY <1>1, <1>2, <1>3, OldestItem, Zenon
<1>5. CASE i # 0
  <2>1. i \in DOMAIN outbox /\ outbox[i].pending = pending
    BY <1>2, <1>4, <1>5, Zenon
  <2> QED
    BY <1>3, <1>5, <2>1, Zenon DEF Items, Carried
<1>6. CASE i = 0
  <2>1. S = {}
    BY <1>2, <1>4, <1>6, Zenon
  <2> QED
    BY <1>2, <1>6, <2>1, Zenon
<1> QED
  BY <1>5, <1>6

\* What was queued is sent.
LEMMA ResendStep ==
    ASSUME IInv, ResendQueued
    PROVE  IInv'
<1> DEFINE i == First("QUEUED")
           y == outbox[i]
           r == y.record
           last == last_message_id
<1>1. /\ info' = info /\ connect_property' = connect_property /\ server' = server
      /\ got' = got /\ held' = held /\ twice' = twice /\ last' = last
      /\ state' = state /\ toClient' = toClient /\ state = "CONNECTED"
      /\ fragmented_msg_data_offset' = fragmented_msg_data_offset
      /\ i # 0
  BY DEF ResendQueued, Resends, broker
<1>2. toBroker' = toBroker \o y.bytes /\ meant' = Append(meant, r)
  BY Zenon DEF ResendQueued, Writes
<1>3. /\ outbox' = AfterResend(i)
      /\ IF y.qos > 0
         THEN esp_mqtt5_increment_packet_counter(y.id, y.bytes[1])
         ELSE UNCHANGED <<send_publish_packet_count, inflight, uncounted>>
  BY Zenon DEF ResendQueued
<1>4. i \in DOMAIN outbox /\ y.pending = "QUEUED" /\ ItemOK(y, last) /\ ItemCarries(y)
  BY <1>1, FirstIs, Zenon
<1> HIDE DEF i
<1>5. /\ last \in Nat /\ Items(outbox, last) /\ Carried(outbox) /\ Meanings(meant, last)
      /\ Once(outbox, meant, got, held) /\ got \subseteq 1..last /\ Queued(outbox, inflight)
      /\ uncounted \in BOOLEAN /\ inflight \subseteq 1..last
      /\ Right(send_publish_packet_count, inflight, uncounted)
      /\ ~uncounted => UnderWay(meant, toClient, inflight)
  BY <1>1, Parts, Zenon
<1>6. y.type = PUBLISH
  BY <1>4, Zenon DEF ItemOK
<1>7. /\ r.type = "PUBLISH" /\ r.qos = y.qos /\ r.id = y.id
      /\ MeantOK(r, last)
      /\ y.qos > 0 => Token(r) /\ y.id \in 1..last /\ y.id # 0
      /\ ~(y.qos > 0) => ~Token(r)
  BY <1>4, <1>5, <1>6, WrittenIs, Zenon
<1>8. Carries(y.bytes, r)
  BY <1>4, <1>6, PublishCarries, Zenon DEF ItemCarries
<1>9. StreamOf(toBroker', meant') /\ Grown(meant', meant, r)
  BY <1>2, <1>8, Parts, WiresAppend, Zenon
<1>10. Meanings(meant', last)
  BY <1>5, <1>7, <1>9, MeaningsGrow, Zenon
<1>11. y.qos \in 0..2
  BY <1>4, Zenon DEF ItemOK
<1>12. IsSeq(outbox)
  BY <1>5, Zenon DEF Items
<1> HIDE DEF r
<1>13. ASSUME ~(y.qos > 0)
       PROVE  /\ Items(outbox', last) /\ Carried(outbox') /\ Once(outbox', meant', got, held)
              /\ Queued(outbox', inflight') /\ uncounted' \in BOOLEAN /\ inflight' \subseteq 1..last
              /\ Right(send_publish_packet_count', inflight', uncounted')
              /\ ~uncounted' => UnderWay(meant', toClient, inflight')
  <2>1. y.qos = 0
    BY <1>11, <1>13
  <2>2. outbox' = RemoveAt(outbox, i)
    BY <1>3, <2>1, Zenon DEF AfterResend
  <2>3. /\ send_publish_packet_count' = send_publish_packet_count
        /\ inflight' = inflight /\ uncounted' = uncounted
    BY <1>3, <1>13
  <2>4. Emb(outbox', outbox)
    BY <1>4, <1>12, <2>2, RemoveIs, Zenon
  <2>5. /\ Items(outbox', last) /\ Carried(outbox') /\ Continues(outbox', outbox, last)
        /\ Queued(outbox', inflight)
    BY <1>5, <2>4, ItemsEmb, Zenon
  <2>6. Once(outbox', meant, got, held)
    BY <1>5, <2>5, OnceContinues, Zenon
  <2>7. Once(outbox', meant', got, held)
    BY <1>7, <1>9, <1>13, <2>6, OnceQuiet, Zenon
  <2>8. ~uncounted => UnderWay(meant', toClient, inflight)
    BY <1>5, <1>7, <1>9, <1>13, WayQuiet, Zenon
  <2> QED
    BY <1>5, <2>3, <2>5, <2>7, <2>8, Zenon
<1>14. ASSUME y.qos > 0
       PROVE  /\ Items(outbox', last) /\ Carried(outbox') /\ Once(outbox', meant', got, held)
              /\ Queued(outbox', inflight') /\ uncounted' \in BOOLEAN /\ inflight' \subseteq 1..last
              /\ Right(send_publish_packet_count', inflight', uncounted')
              /\ ~uncounted' => UnderWay(meant', toClient, inflight')
  <2> DEFINE x == [y EXCEPT !.pending = "TRANSMITTED"]
  <2>1. y.qos # 0
    BY <1>11, <1>14
  <2>2. outbox' = [outbox EXCEPT ![i] = x]
    BY <1>3, <2>1 DEF AfterResend
  <2>3. "TRANSMITTED" \in Pending /\ "TRANSMITTED" # "QUEUED" /\ "TRANSMITTED" # "ACKNOWLEDGED"
        /\ "QUEUED" # "ACKNOWLEDGED"
    BY DEF Pending
  <2>4. ItemOK(x, last) /\ ItemCarries(x) /\ Like(x, y) /\ x.pending # "QUEUED"
    <3>1. y.id # 0
      BY <1>7, <1>14, Zenon
    <3>2. y.pending = "ACKNOWLEDGED" => "TRANSMITTED" = "ACKNOWLEDGED"
      BY <1>4, <2>3, Zenon
    <3> QED
      BY <1>4, <2>3, <3>1, <3>2, RependedOK
  <2>5. x.pending = "TRANSMITTED"
    <3>1. DOMAIN y = Fields
      BY <1>4, Zenon DEF ItemOK
    <3> QED
      BY <3>1, Repended
  <2> HIDE DEF x
  <2>6. Swapped(outbox', outbox, i, x)
    BY <1>12, <2>2, ExceptIs, Zenon
  <2>7. /\ Items(outbox', last) /\ Carried(outbox') /\ Continues(outbox', outbox, last)
        /\ Queued(outbox', inflight)
    BY <1>5, <2>4, <2>6, ItemsSwap, Zenon
  <2>8. Once(outbox', meant, got, held)
    BY <1>5, <2>7, OnceContinues, Zenon
  <2>9. i \in DOMAIN outbox' /\ outbox'[i] = x
    BY <1>4, <2>6, Zenon DEF Swapped
  <2>10. x.type = y.type /\ x.qos = y.qos /\ x.id = y.id
    BY <2>4, Zenon DEF Like
  <2>11. Once(outbox', meant', got, held)
    <3>1. /\ outbox'[i].type = PUBLISH /\ outbox'[i].pending # "ACKNOWLEDGED"
          /\ r.qos = outbox'[i].qos /\ r.id = outbox'[i].id /\ r.qos > 0
      BY <1>6, <1>7, <1>14, <2>3, <2>5, <2>9, <2>10, Zenon
    <3> QED
      BY <1>5, <1>7, <1>9, <2>7, <2>8, <2>9, <3>1, OncePublish, Zenon
  <2>12. y.id \notin inflight
    BY <1>4, <1>5, Zenon DEF Queued
  <2>13. PICK b \in BOOLEAN :
              /\ send_publish_packet_count' = send_publish_packet_count + IF b THEN 0 ELSE 1
              /\ uncounted' = (uncounted \/ b)
              /\ inflight' = inflight \cup {y.id}
    BY <1>3, <1>14, Increments, Zenon
  <2>14. /\ uncounted' \in BOOLEAN
         /\ Right(send_publish_packet_count', inflight', uncounted')
         /\ ~uncounted' => ~uncounted
    <3> DEFINE id == y.id
    <3>1. inflight' = inflight \cup {id} /\ id \notin inflight
      BY <2>12, <2>13, Zenon
    <3> HIDE DEF id
    <3> QED
      BY <1>5, <2>13, <3>1, CountsMore, Zenon
  <2>15. ASSUME ~uncounted' PROVE UnderWay(meant', toClient, inflight')
    <3>1. UnderWay(meant, toClient, inflight)
      BY <1>5, <2>14, <2>15, Zenon
    <3>2. NotOf(meant, toClient, r.id)
      BY <1>7, <2>12, <3>1, WayFresh, Zenon
    <3> QED
      BY <1>7, <1>9, <2>13, <3>1, <3>2, WayToken, Zenon
  <2>16. Queued(outbox', inflight')
    <3> SUFFICES ASSUME NEW k \in DOMAIN outbox', outbox'[k].pending = "QUEUED"
                 PROVE  outbox'[k].id \notin inflight'
      BY Zenon DEF Queued
    <3>1. outbox'[k].id \notin inflight
      BY <2>7, Zenon DEF Queued
    <3>2. k # i
      BY <2>3, <2>5, <2>9, Zenon
    <3>3. outbox'[k].id # y.id
      BY <1>7, <1>14, <2>7, <2>9, <2>10, <3>2, Zenon DEF Items
    <3> QED
      BY <2>13, <3>1, <3>3
  <2>17. inflight' \subseteq 1..last
    <3>1. y.id \in 1..last
      BY <1>7, <1>14, Zenon
    <3> QED
      BY <1>5, <2>13, <3>1
  <2> QED
    BY <2>7, <2>11, <2>14, <2>15, <2>16, <2>17, Zenon
<1>15. /\ Items(outbox', last) /\ Carried(outbox') /\ Once(outbox', meant', got, held)
       /\ Queued(outbox', inflight') /\ uncounted' \in BOOLEAN /\ inflight' \subseteq 1..last
       /\ Right(send_publish_packet_count', inflight', uncounted')
       /\ ~uncounted' => UnderWay(meant', toClient, inflight')
  BY <1>13, <1>14, Zenon
<1> HIDE DEF y, last
<1>16. Wires'
  BY <1>1, <1>9, <1>15, Parts, Zenon DEF Wires
<1>17. GivenIds'
  <2>1. state' \in {"down", "connecting", "CONNECTED"} /\ state' # "down"
    BY <1>1
  <2> QED
    BY <1>1, <1>10, <1>15, <2>1, Parts, Zenon DEF GivenIds, last
<1>18. Twice'
  BY <1>1, <1>15, Parts, Zenon DEF Twice
<1>19. Count'
  BY <1>1, <1>15, Differ, Zenon DEF Count
<1> QED
  BY <1>16, <1>17, <1>18, <1>19, Zenon DEF IInv

\* An item whose bytes are others.
LEMMA Rebytes ==
    ASSUME NEW y, DOMAIN y = Fields, NEW g, NEW x, x = [y EXCEPT !.bytes = g]
    PROVE  /\ DOMAIN x = Fields /\ x.bytes = g
           /\ x.id = y.id /\ x.type = y.type /\ x.qos = y.qos
           /\ x.pending = y.pending /\ x.record = y.record
<1>1. DOMAIN x = DOMAIN y /\ \A v \in DOMAIN y : x[v] = IF v = "bytes" THEN g ELSE y[v]
  BY Zenon
<1>2. /\ "id" \in Fields /\ "type" \in Fields /\ "qos" \in Fields
      /\ "bytes" \in Fields /\ "pending" \in Fields /\ "record" \in Fields
  BY Zenon DEF Fields
<1>3. /\ "id" # "bytes" /\ "type" # "bytes" /\ "qos" # "bytes"
      /\ "pending" # "bytes" /\ "record" # "bytes"
  OBVIOUS
<1>4. x["bytes"] = g
  BY <1>1, <1>2, Zenon
<1>5. /\ x["id"] = y["id"] /\ x["type"] = y["type"] /\ x["qos"] = y["qos"]
      /\ x["pending"] = y["pending"] /\ x["record"] = y["record"]
  BY <1>1, <1>2, <1>3, Zenon
<1>6. DOMAIN x = Fields
  BY <1>1, Zenon
<1> QED
  BY <1>4, <1>5, <1>6

\* The flag of a message that is sent again is set.
LEMMA DupIsSet ==
    ASSUME NEW g, NEW r, PublishWire(g, r), ~Bit(g[1], 8)
    PROVE  Bit([g EXCEPT ![1] = @ + 8][1], 8)
<1>1. PICK b, body : Wire(g, b, body)
  BY Zenon DEF PublishWire
<1>2. g \in Seq(Nat) /\ Len(g) = 1 + LenBytes(Len(body)) + Len(body) /\ body \in Seq(Nat)
  BY <1>1, Zenon DEF Wire
<1>3. LenBytes(Len(body)) \in 1..4
  <2>1. Len(body) \in Nat
    BY <1>2, Len5, Zenon
  <2> QED
    BY <2>1, LenBytesType
<1>4. 1 \in DOMAIN g /\ g[1] \in Nat
  BY <1>2, <1>3
<1>5. [g EXCEPT ![1] = @ + 8][1] = g[1] + 8
  BY <1>4
<1>6. \A n \in Nat : (n \div 8) % 2 # 1 => ((n + 8) \div 8) % 2 = 1
  <2> TAKE n \in Nat
  <2> DEFINE q == n \div 8
  <2>1. (n + 8) \div 8 = q + 1 /\ q \in Nat
    BY SMT
  <2>2. \A p \in Nat : p % 2 # 1 => (p + 1) % 2 = 1
    BY SMT
  <2> HIDE DEF q
  <2>3. q % 2 # 1 => ((n + 8) \div 8) % 2 = 1
    BY <2>1, <2>2
  <2> QED
    BY <2>3 DEF q
<1> DEFINE n == g[1]
<1>7. (n \div 8) % 2 # 1
  BY Zenon DEF Bit
<1>8. n \in Nat
  BY <1>4
<1> HIDE DEF n
<1>9. ((n + 8) \div 8) % 2 = 1
  BY <1>6, <1>7, <1>8, Zenon
<1>10. Bit(n + 8, 8)
  BY <1>9, Zenon DEF Bit
<1> QED
  BY <1>5, <1>10, Zenon DEF n

\* What is sent again is the item, with the flag if it is a publication.
LEMMA AgainIs ==
    ASSUME NEW last \in Nat, NEW y, ItemOK(y, last), ItemCarries(y), y.pending = "TRANSMITTED",
           NEW x, x = mqtt_set_dup(y)
    PROVE  /\ ItemOK(x, last) /\ ItemCarries(x) /\ Like(x, y) /\ x.pending = "TRANSMITTED"
           /\ x.type = y.type
           /\ x.type = PUBLISH => Bit(x.bytes[1], 8)
           /\ Carries(x.bytes, x.record)
<1>1. CASE y.type = PUBLISH /\ ~Bit(y.bytes[1], 8)
  <2> DEFINE h == y.bytes
             g == [h EXCEPT ![1] = @ + 8]
  <2>1. x = [y EXCEPT !.bytes[1] = @ + 8]
    BY <1>1, Zenon DEF mqtt_set_dup
  <2>2. x = [y EXCEPT !.bytes = g]
    BY <2>1
  <2>3. PublishWire(h, y.record) /\ ~Bit(h[1], 8)
    BY <1>1, Zenon DEF ItemCarries
  <2> HIDE DEF h
  <2>4. PublishWire(g, y.record) /\ Bit(g[1], 8)
    BY <2>3, DupCarries, DupIsSet
  <2>5. DOMAIN y = Fields
    BY Zenon DEF ItemOK
  <2> HIDE DEF g
  <2>6. /\ DOMAIN x = Fields /\ x.bytes = g
        /\ x.id = y.id /\ x.type = y.type /\ x.qos = y.qos
        /\ x.pending = y.pending /\ x.record = y.record
    BY <2>2, <2>5, Rebytes
  <2>7. ItemOK(x, last)
    BY <2>6, Zenon DEF ItemOK
  <2>8. ItemCarries(x) /\ Carries(x.bytes, x.record)
    BY <1>1, <2>4, <2>6, PublishCarries, Zenon DEF ItemCarries
  <2>9. Like(x, y)
    BY <2>6, Zenon DEF Like
  <2>10. Bit(x.bytes[1], 8)
    BY <2>4, <2>6, Zenon
  <2> QED
    BY <2>6, <2>7, <2>8, <2>9, <2>10, Zenon
<1>2. CASE ~(y.type = PUBLISH /\ ~Bit(y.bytes[1], 8))
  <2>1. x = y
    BY <1>2, Zenon DEF mqtt_set_dup
  <2>2. Carries(y.bytes, y.record)
    BY PublishCarries, Zenon DEF ItemCarries
  <2>3. Like(y, y)
    BY Zenon DEF Like
  <2> QED
    BY <1>2, <2>1, <2>2, <2>3, Zenon
<1> QED
  BY <1>1, <1>2

\* What is sent again means what it meant.
LEMMA AgainMeans ==
    ASSUME NEW last \in Nat, NEW x, ItemOK(x, last), x.pending = "TRANSMITTED"
    PROVE  /\ MeantOK(x.record, last)
           /\ x.type = PUBLISH =>
                 /\ x.record.type = "PUBLISH" /\ x.record.qos = x.qos /\ x.record.id = x.id
                 /\ x.qos > 0 /\ x.id \in 1..last
           /\ x.type # PUBLISH => ~Token(x.record)
<1>1. x.id \in 0..last /\ x.id # 0
  <2>1. "TRANSMITTED" # "QUEUED"
    OBVIOUS
  <2> QED
    BY <2>1, Zenon DEF ItemOK
<1> DEFINE id == x.id
           r == x.record
<1>2. id \in 1..last /\ id > 0
  BY <1>1
<1> HIDE DEF id, r
<1>3. CASE x.type = PUBLISH
  <2>1. x.qos > 0
    BY <1>2, <1>3, Zenon DEF ItemOK, id
  <2> QED
    BY <1>2, <1>3, <2>1, WrittenIs, Zenon DEF id
<1>4. CASE x.type # PUBLISH
  <2>1. r.type \in {"SUBSCRIBE", "UNSUBSCRIBE"} /\ r.id = id
    BY <1>4, Zenon DEF ItemOK, r, id
  <2>2. r.type # "PUBLISH" /\ r.type # "PUBREL"
    BY <2>1
  <2>3. ~Token(r)
    BY <2>2, Zenon DEF Token
  <2>4. id \in Nat
    BY <1>2
  <2>5. MeantOK(r, last)
    BY <2>1, <2>2, <2>3, <2>4, Zenon DEF MeantOK
  <2> QED
    BY <1>4, <2>3, <2>5, Zenon DEF r
<1> QED
  BY <1>3, <1>4

\* A stream is bytes.
LEMMA StreamBytes ==
    ASSUME NEW bytes, NEW records, StreamOf(bytes, records), IsSeq(records)
    PROVE  bytes \in Seq(Nat)
<1>1. PICK f : Strm(f, bytes, records)
  BY Zenon DEF StreamOf
<1>2. f \in [0..Len(records) -> Seq(Nat)] /\ f[0] = bytes
  BY <1>1, Zenon DEF Strm
<1>3. 0 \in 0..Len(records)
  <2>1. Len(records) \in Nat
    BY SeqIs, Zenon
  <2> QED
    BY <2>1
<1> QED
  BY <1>2, <1>3, Zenon

\* A stream, its meaning and an outbox that go together.
Sent(o, b, m, last) ==
    /\ StreamOf(b, m)
    /\ Items(o, last) /\ Carried(o) /\ Meanings(m, last)
    /\ Once(o, m, got, held)

\* x is sent again, and the outbox is n.
SentAgain(x, n, last) ==
    /\ Sent(n, toBroker \o x.bytes, Append(meant, x.record), last)
    /\ Grown(Append(meant, x.record), meant, x.record)
    /\ DOMAIN n = DOMAIN outbox
    /\ \A k \in DOMAIN n : n[k].id = outbox[k].id /\ n[k].pending = outbox[k].pending
    /\ x.type = PUBLISH => Bit(x.bytes[1], 8) /\ x.id \in 1..last
    /\ x.type # PUBLISH => ~Token(x.record)

\* A message is sent again.
LEMMA AgainHalf ==
    ASSUME NEW last \in Nat, Sent(outbox, toBroker, meant, last), got \subseteq 1..last,
           NEW i \in DOMAIN outbox, outbox[i].pending = "TRANSMITTED",
           NEW x, x = mqtt_set_dup(outbox[i]), NEW n, n = [outbox EXCEPT ![i] = x]
    PROVE  SentAgain(x, n, last)
<1> DEFINE y == outbox[i]
           r == x.record
           m == Append(meant, r)
<1>1. /\ StreamOf(toBroker, meant) /\ Items(outbox, last) /\ Carried(outbox)
      /\ Meanings(meant, last) /\ Once(outbox, meant, got, held)
  BY Zenon DEF Sent
<1>2. ItemOK(y, last) /\ ItemCarries(y) /\ IsSeq(outbox) /\ IsSeq(meant)
  BY <1>1, Zenon DEF Items, Carried, Meanings
<1>3. /\ ItemOK(x, last) /\ ItemCarries(x) /\ Like(x, y) /\ x.pending = "TRANSMITTED"
      /\ x.type = PUBLISH => Bit(x.bytes[1], 8)
      /\ Carries(x.bytes, r)
  BY <1>2, AgainIs, Zenon
<1>4. /\ MeantOK(r, last)
      /\ x.type = PUBLISH =>
            r.type = "PUBLISH" /\ r.qos = x.qos /\ r.id = x.id /\ x.qos > 0 /\ x.id \in 1..last
      /\ x.type # PUBLISH => ~Token(r)
  BY <1>3, AgainMeans, Zenon
<1>5. Swapped(n, outbox, i, x)
  BY <1>2, ExceptIs, Zenon
<1>6. Items(n, last) /\ Carried(n) /\ Continues(n, outbox, last)
  BY <1>1, <1>3, <1>5, ItemsSwap, Zenon
<1>7. Once(n, meant, got, held)
  BY <1>1, <1>6, OnceContinues, Zenon
<1>8. StreamOf(toBroker \o x.bytes, m)
  <2>1. PICK R : meant \in Seq(R)
    BY <1>2, Zenon DEF IsSeq
  <2> QED
    BY <1>1, <1>3, <2>1, StreamGrows5, Zenon
<1>9. Grown(m, meant, r)
  BY <1>2, AppendIs, Zenon
<1>10. Meanings(m, last)
  BY <1>1, <1>4, <1>9, MeaningsGrow, Zenon
<1>11. Once(n, m, got, held)
  <2>1. CASE x.type = PUBLISH
    <3>1. i \in DOMAIN n /\ n[i] = x
      BY <1>5, Zenon DEF Swapped
    <3>2. "TRANSMITTED" # "ACKNOWLEDGED"
      OBVIOUS
    <3>3. /\ n[i].type = PUBLISH /\ n[i].pending # "ACKNOWLEDGED"
          /\ r.type = "PUBLISH" /\ r.qos = n[i].qos /\ r.id = n[i].id /\ r.qos > 0
      BY <1>3, <1>4, <2>1, <3>1, <3>2, Zenon
    <3> QED
      BY <1>6, <1>7, <1>9, <3>1, <3>3, OncePublish, Zenon
  <2>2. CASE x.type # PUBLISH
    BY <1>4, <1>7, <1>9, <2>2, OnceQuiet, Zenon
  <2> QED
    BY <2>1, <2>2
<1>12. Sent(n, toBroker \o x.bytes, m, last)
  BY <1>6, <1>8, <1>10, <1>11, Zenon DEF Sent
<1>13. /\ DOMAIN n = DOMAIN outbox
       /\ \A k \in DOMAIN n : n[k].id = outbox[k].id /\ n[k].pending = outbox[k].pending
  <2>1. /\ DOMAIN n = DOMAIN outbox
        /\ \A k \in DOMAIN outbox : n[k] = IF k = i THEN x ELSE outbox[k]
    BY <1>5, Zenon DEF Swapped
  <2>2. x.id = y.id /\ x.pending = y.pending
    BY <1>3, Zenon DEF Like
  <2> SUFFICES ASSUME NEW k \in DOMAIN n
               PROVE  n[k].id = outbox[k].id /\ n[k].pending = outbox[k].pending
    BY <2>1, Zenon
  <2>3. CASE k = i
    BY <2>1, <2>2, <2>3, Zenon
  <2>4. CASE k # i
    BY <2>1, <2>4, Zenon
  <2> QED
    BY <2>3, <2>4
<1> QED
  BY <1>3, <1>4, <1>9, <1>12, <1>13, Zenon DEF SentAgain

\* PUBREL of the item at j is sent again.
LEMMA ReleaseHalf ==
    ASSUME NEW last \in Nat, NEW o, NEW b, NEW m, Sent(o, b, m, last),
           NEW j \in DOMAIN o, o[j].pending = "ACKNOWLEDGED",
           NEW id, id = o[j].id
    PROVE  /\ Sent(o, b \o mqtt5_msg_pubrel(id), Append(m, Ack("PUBREL", id)), last)
           /\ Carries(mqtt5_msg_pubrel(id), Ack("PUBREL", id))
<1> DEFINE r == Ack("PUBREL", id)
           n == Append(m, r)
<1>1. /\ StreamOf(b, m) /\ Items(o, last) /\ Carried(o)
      /\ Meanings(m, last) /\ Once(o, m, got, held)
  BY Zenon DEF Sent
<1>2. ItemOK(o[j], last) /\ IsSeq(m)
  BY <1>1, Zenon DEF Items, Meanings
<1>3. id \in 0..last /\ id # 0
  <2>1. "ACKNOWLEDGED" # "QUEUED"
    OBVIOUS
  <2> QED
    BY <1>2, <2>1, Zenon DEF ItemOK
<1>4. id \in 1..last /\ id \in Nat
  BY <1>3
<1>5. r.type = "PUBREL" /\ r.id = id
  BY AckIs, Zenon
<1>6. Carries(mqtt5_msg_pubrel(id), r)
  BY <1>4, AcksCarry, Zenon
<1> HIDE DEF r
<1>7. r.type # "PUBLISH" /\ r.type # "PUBREC" /\ r.type # "SUBSCRIBE" /\ r.type # "UNSUBSCRIBE"
  BY <1>5
<1>8. MeantOK(r, last)
  BY <1>4, <1>5, <1>7, Zenon DEF MeantOK
<1>9. Grown(n, m, r)
  BY <1>2, AppendIs, Zenon
<1>10. StreamOf(b \o mqtt5_msg_pubrel(id), n)
  <2>1. PICK R : m \in Seq(R)
    BY <1>2, Zenon DEF IsSeq
  <2> QED
    BY <1>1, <1>6, <2>1, StreamGrows5, Zenon
<1>11. Meanings(n, last)
  BY <1>1, <1>8, <1>9, MeaningsGrow, Zenon
<1>12. \A i \in DOMAIN o : o[i].qos = 2 /\ o[i].id = r.id => o[i].pending = "ACKNOWLEDGED"
  BY <1>1, <1>3, <1>5, Zenon DEF Items
<1>13. Once(o, n, got, held)
  BY <1>1, <1>5, <1>9, <1>12, OncePubrel, Zenon
<1>14. Sent(o, b \o mqtt5_msg_pubrel(id), n, last)
  BY <1>1, <1>10, <1>11, <1>13, Zenon DEF Sent
<1> QED
  BY <1>6, <1>14, Zenon DEF r

\* A counter that may lack a message.
LEMMA WeakerRight ==
    ASSUME NEW count, NEW f, NEW unc, NEW more, Right(count, f, unc), ~more => ~unc
    PROVE  Right(count, f, more)
BY Zenon DEF Right

\* The oldest message and the oldest PUBREL are sent again.
LEMMA RetransmitStep ==
    ASSUME IInv, NEW publish, NEW pubrel, Retransmit(publish, pubrel)
    PROVE  IInv'
<1> DEFINE last == last_message_id
           i == Due(publish, "TRANSMITTED")
           j == Due(pubrel, "ACKNOWLEDGED")
           x == Again(i)
           rel == Release(j)
           b == IF i = 0 THEN toBroker ELSE toBroker \o x.bytes
           m == IF i = 0 THEN meant ELSE Append(meant, x.record)
           id == outbox[j].id
<1>1. /\ info' = info /\ connect_property' = connect_property /\ server' = server
      /\ got' = got /\ held' = held /\ twice' = twice /\ last' = last
      /\ state' = state /\ toClient' = toClient /\ state = "CONNECTED"
      /\ First("QUEUED") = 0
  BY DEF Retransmit, Resends, broker
<1>2. RetransmitOf(i, j, x, rel)
  BY Zenon DEF Retransmit, RetransmitItems
<1>3. i = 0 \/ i = First("TRANSMITTED")
  BY Zenon DEF Due
<1>4. j = 0 \/ j = First("ACKNOWLEDGED")
  BY Zenon DEF Due
<1> HIDE DEF i, j
<1>5. /\ outbox' = IF i = 0 THEN outbox ELSE [outbox EXCEPT ![i] = x]
      /\ toBroker' = toBroker \o (IF i = 0 THEN <<>> ELSE x.bytes)
                              \o (IF j = 0 THEN <<>> ELSE rel)
      /\ meant' = meant \o (IF i = 0 THEN <<>> ELSE <<x.record>>)
                        \o (IF j = 0 THEN <<>> ELSE <<Ack("PUBREL", id)>>)
      /\ fragmented_msg_data_offset' =
           IF j = 0 THEN fragmented_msg_data_offset ELSE AfterBuilding(rel)
  BY <1>2, Zenon DEF RetransmitOf
<1>6. \/ /\ i # 0 /\ x.type = PUBLISH
         /\ esp_mqtt5_increment_packet_counter(x.id, x.bytes[1])
      \/ /\ ~(i # 0 /\ x.type = PUBLISH)
         /\ send_publish_packet_count' = send_publish_packet_count /\ inflight' = inflight
         /\ uncounted' = (uncounted \/ j # 0)
  BY <1>2 DEF RetransmitOf
<1>7. i # 0 => x = mqtt_set_dup(outbox[i])
  BY Zenon DEF Again
<1>8. j # 0 => rel = mqtt5_msg_pubrel(id)
  BY Zenon DEF Release
<1>9. i # 0 => i \in DOMAIN outbox /\ outbox[i].pending = "TRANSMITTED"
  BY <1>3, FirstIs, Zenon
<1>10. j # 0 => j \in DOMAIN outbox /\ outbox[j].pending = "ACKNOWLEDGED"
  BY <1>4, FirstIs, Zenon
<1>11. \A k \in DOMAIN outbox : outbox[k].pending # "QUEUED"
  BY <1>1, FirstIs, Zenon
<1> HIDE DEF x, rel
<1>12. /\ last \in Nat /\ Sent(outbox, toBroker, meant, last) /\ got \subseteq 1..last
       /\ IsSeq(meant) /\ toBroker \in Seq(Nat)
       /\ uncounted \in BOOLEAN /\ inflight \subseteq 1..last
       /\ Right(send_publish_packet_count, inflight, uncounted)
       /\ ~uncounted => UnderWay(meant, toClient, inflight)
       /\ fragmented_msg_data_offset = 0
  <2>1. IsSeq(meant)
    BY Parts, Zenon DEF Meanings
  <2> QED
    BY <1>1, <2>1, Parts, StreamBytes, Differ, Zenon DEF Sent
<1> HIDE DEF last
\* After the first of the two.
<1>13. /\ Sent(outbox', b, m, last)
       /\ DOMAIN outbox' = DOMAIN outbox
       /\ \A k \in DOMAIN outbox' : outbox'[k].id = outbox[k].id
                                     /\ outbox'[k].pending = outbox[k].pending
       /\ i # 0 /\ x.type = PUBLISH => Bit(x.bytes[1], 8) /\ x.id \in 1..last
       /\ i # 0 /\ x.type # PUBLISH => ~Token(x.record) /\ Grown(m, meant, x.record)
  <2>1. CASE i = 0
    <3>1. outbox' = outbox /\ b = toBroker /\ m = meant
      BY <1>5, <2>1, Zenon
    <3> QED
      BY <1>12, <2>1, <3>1, Zenon
  <2>2. CASE i # 0
    <3>1. outbox' = [outbox EXCEPT ![i] = x] /\ b = toBroker \o x.bytes /\ m = Append(meant, x.record)
      BY <1>5, <2>2, Zenon
    <3> DEFINE n == outbox'
    <3>2. n = [outbox EXCEPT ![i] = x]
      BY <3>1, Zenon
    <3> HIDE DEF n, b, m
    <3>3. /\ Sent(n, toBroker \o x.bytes, Append(meant, x.record), last)
          /\ Grown(Append(meant, x.record), meant, x.record)
          /\ DOMAIN n = DOMAIN outbox
          /\ \A k \in DOMAIN n : n[k].id = outbox[k].id /\ n[k].pending = outbox[k].pending
          /\ x.type = PUBLISH => Bit(x.bytes[1], 8) /\ x.id \in 1..last
          /\ x.type # PUBLISH => ~Token(x.record)
      <4>1. i \in DOMAIN outbox /\ outbox[i].pending = "TRANSMITTED" /\ x = mqtt_set_dup(outbox[i])
        BY <1>7, <1>9, <2>2, Zenon
      <4>2. SentAgain(x, n, last)
        BY <1>12, <3>2, <4>1, AgainHalf
      <4> QED
        BY <4>2, Zenon DEF SentAgain
    <3> QED
      BY <3>1, <3>3, Zenon DEF n
  <2> QED
    BY <2>1, <2>2
<1>14. b \in Seq(Nat) /\ IsSeq(m)
  <2>1. StreamOf(b, m) /\ IsSeq(m)
    BY <1>13, Zenon DEF Sent, Meanings
  <2> QED
    BY <2>1, StreamBytes, Zenon
<1>15. /\ toBroker' = b \o (IF j = 0 THEN <<>> ELSE rel)
       /\ meant' = m \o (IF j = 0 THEN <<>> ELSE <<Ack("PUBREL", id)>>)
  <2>1. CASE i = 0
    <3>1. toBroker \o <<>> = toBroker
      BY <1>12
    <3>2. meant \o <<>> = meant
      BY <1>12, ConcatIs, Zenon
    <3> QED
      BY <1>5, <2>1, <3>1, <3>2, Zenon
  <2>2. CASE i # 0
    <3>1. meant \o <<x.record>> = Append(meant, x.record)
      BY <1>12, ConcatIs, Zenon
    <3> QED
      BY <1>5, <2>2, <3>1, Zenon
  <2> QED
    BY <2>1, <2>2
<1> HIDE DEF b, m
\* After both.
<1>16. /\ Sent(outbox', toBroker', meant', last)
       /\ fragmented_msg_data_offset' = 0
       /\ j = 0 => meant' = m
  <2>1. CASE j = 0
    <3>1. b \o <<>> = b
      BY <1>14
    <3>2. m \o <<>> = m
      BY <1>14, ConcatIs, Zenon
    <3> QED
      BY <1>5, <1>12, <1>13, <1>15, <2>1, <3>1, <3>2, Zenon
  <2>2. CASE j # 0
    <3>1. /\ j \in DOMAIN outbox' /\ outbox'[j].pending = "ACKNOWLEDGED" /\ outbox'[j].id = id
      BY <1>10, <1>13, <2>2, Zenon
    <3> DEFINE n == outbox'
               ack == Ack("PUBREL", id)
    <3> HIDE DEF n, id
    <3>2. /\ j \in DOMAIN n /\ n[j].pending = "ACKNOWLEDGED" /\ id = n[j].id /\ Sent(n, b, m, last)
      BY <1>13, <3>1, Zenon DEF n
    <3>3. /\ Sent(n, b \o mqtt5_msg_pubrel(id), Append(m, ack), last)
          /\ Carries(mqtt5_msg_pubrel(id), ack)
      BY <1>12, <3>2, ReleaseHalf, Zenon
    <3>4. m \o <<ack>> = Append(m, ack)
      BY <1>14, ConcatIs, Zenon
    <3>5. toBroker' = b \o mqtt5_msg_pubrel(id) /\ meant' = Append(m, ack)
      BY <1>8, <1>15, <2>2, <3>4, Zenon
    <3>6. fragmented_msg_data_offset' = AfterBuilding(mqtt5_msg_pubrel(id))
      BY <1>5, <1>8, <2>2, Zenon
    <3>7. fragmented_msg_data_offset' = 0
      BY <1>12, <3>3, <3>6, AfterBuildingIs, Zenon
    <3> QED
      BY <2>2, <3>3, <3>5, <3>7, Zenon DEF n
  <2> QED
    BY <2>1, <2>2
<1>17. /\ uncounted' \in BOOLEAN /\ inflight' \subseteq 1..last
       /\ Right(send_publish_packet_count', inflight', uncounted')
       /\ ~uncounted' => UnderWay(meant', toClient, inflight')
  <2>1. CASE i # 0 /\ x.type = PUBLISH /\ esp_mqtt5_increment_packet_counter(x.id, x.bytes[1])
    <3> DEFINE y == x.id
               f == x.bytes[1]
    <3>1. esp_mqtt5_increment_packet_counter(y, f) /\ y \in 1..last /\ Bit(f, 8)
      BY <1>13, <2>1, Zenon
    <3> HIDE DEF y, f
    <3>2. PICK c \in BOOLEAN :
             /\ c = Bit(f, 8)
             /\ send_publish_packet_count' = send_publish_packet_count + IF c THEN 0 ELSE 1
             /\ uncounted' = (uncounted \/ c)
             /\ inflight' = inflight \cup {y}
      BY <3>1, Increments, Zenon
    <3>3. c
      BY <3>1, <3>2
    <3>4. /\ uncounted' \in BOOLEAN
          /\ Right(send_publish_packet_count', inflight', uncounted')
      BY <1>12, <3>2, <3>3, CountsMore, Zenon
    <3>5. uncounted'
      BY <3>2, <3>3
    <3>6. inflight' \subseteq 1..last
      BY <1>12, <3>1, <3>2
    <3> QED
      BY <3>4, <3>5, <3>6
  <2>2. CASE /\ ~(i # 0 /\ x.type = PUBLISH)
             /\ send_publish_packet_count' = send_publish_packet_count /\ inflight' = inflight
             /\ uncounted' = (uncounted \/ j # 0)
    <3>1. uncounted' \in BOOLEAN /\ (~uncounted' => ~uncounted /\ j = 0)
      BY <2>2
    <3>2. Right(send_publish_packet_count', inflight', uncounted')
      BY <1>12, <2>2, <3>1, WeakerRight, Zenon
    <3>3. ASSUME ~uncounted' PROVE UnderWay(meant', toClient, inflight')
      <4>1. UnderWay(meant, toClient, inflight) /\ meant' = m
        BY <1>12, <1>16, <3>1, <3>3, Zenon
      <4>2. CASE i = 0
        BY <2>2, <4>1, <4>2, Zenon DEF m
      <4>3. CASE i # 0
        <5>1. ~Token(x.record) /\ Grown(m, meant, x.record)
          BY <1>13, <2>2, <4>3, Zenon
        <5> QED
          BY <2>2, <4>1, <5>1, WayQuiet, Zenon
      <4> QED
        BY <4>2, <4>3
    <3> QED
      BY <1>12, <2>2, <3>1, <3>2, <3>3, Zenon
  <2> QED
    BY <1>6, <2>1, <2>2
<1>18. Queued(outbox', inflight')
  BY <1>11, <1>13, Zenon DEF Queued
<1>19. Wires'
  BY <1>1, <1>16, Parts, Zenon DEF Wires, Sent
<1>20. GivenIds'
  <2>1. state' \in {"down", "connecting", "CONNECTED"} /\ state' # "down"
    BY <1>1
  <2> QED
    BY <1>1, <1>16, <1>17, <2>1, Parts, Zenon DEF GivenIds, Sent, last
<1>21. Twice'
  BY <1>1, <1>16, Parts, Zenon DEF Twice, Sent
<1>22. Count'
  BY <1>1, <1>17, <1>18, Differ, Zenon DEF Count
<1> QED
  BY <1>19, <1>20, <1>21, <1>22, Zenon DEF IInv

---------------------------------------------------------------------------
\* The broker.

\* A message of the broker that ends no publication.
LEMMA SaidOther ==
    ASSUME NEW x, NEW type \in 0..15, FromBroker(x.bytes, type),
           type \notin {PUBACK, PUBREC, PUBCOMP}, NEW last
    PROVE  HeardOK(x, last) /\ ~Answer(x)
<1>1. SaidType(x) = type
  BY TypeSaid, Zenon DEF SaidType
<1>2. ~Answer(x)
  BY <1>1, Zenon DEF Answer
<1> QED
  BY <1>2, Zenon DEF HeardOK

\* x is the answer to a message that means q.
Replies(x, q, last) ==
    /\ HeardOK(x, last)
    /\ Token(q) => Answer(x) /\ SaidId(x) = q.id
    /\ ~Token(q) => ~Answer(x)

\* A reply named so.
LEMMA ReplyNamed ==
    ASSUME NEW name \in DOMAIN AnswerCode, NEW id \in Nat, NEW q, NEW last, q.id = id,
           Token(q) => id \in 1..last,
           Token(q) <=> AnswerCode[name] \in {PUBACK, PUBREC, PUBCOMP}
    PROVE  \E x : Reply(name, id) = <<x>> /\ Replies(x, q, last)
<1>1. PICK x : Reply(name, id) = <<x>> /\ AnswersWith(x, AnswerCode[name], id)
  BY ReplySays, Zenon
<1> DEFINE type == AnswerCode[name]
<1>2. type \in 0..15
  BY DEF AnswerCode
<1> HIDE DEF type
<1>3. FromBroker(x.bytes, type) /\ SaidType(x) = type /\ SaidId(x) = id
  BY <1>1, Zenon DEF AnswersWith, type
<1>4. Answer(x) <=> Token(q)
  BY <1>3, Zenon DEF Answer, type
<1>5. HeardOK(x, last)
  BY <1>2, <1>3, <1>4, Zenon DEF HeardOK
<1>6. Replies(x, q, last)
  BY <1>3, <1>4, <1>5, Zenon DEF Replies
<1> QED
  BY <1>1, <1>6, Zenon

\* The answers of the broker, by name.
LEMMA NamesAre ==
    /\ DOMAIN AnswerCode = {"PUBACK", "PUBREC", "PUBREL", "PUBCOMP", "SUBACK", "UNSUBACK"}
    /\ AnswerCode["PUBACK"] = PUBACK /\ AnswerCode["PUBREC"] = PUBREC
    /\ AnswerCode["PUBCOMP"] = PUBCOMP
    /\ AnswerCode["PUBREL"] \notin {PUBACK, PUBREC, PUBCOMP}
    /\ AnswerCode["SUBACK"] \notin {PUBACK, PUBREC, PUBCOMP}
    /\ AnswerCode["UNSUBACK"] \notin {PUBACK, PUBREC, PUBCOMP}
BY DEF AnswerCode, PUBACK, PUBREC, PUBCOMP

\* The message types differ.
LEMMA TypesDiffer ==
    /\ "PUBREC" # "PUBLISH" /\ "PUBREL" # "PUBLISH" /\ "SUBSCRIBE" # "PUBLISH"
    /\ "UNSUBSCRIBE" # "PUBLISH" /\ "PUBREL" # "PUBREC" /\ "SUBSCRIBE" # "PUBREC"
    /\ "UNSUBSCRIBE" # "PUBREC" /\ "SUBSCRIBE" # "PUBREL" /\ "UNSUBSCRIBE" # "PUBREL"
    /\ "UNSUBSCRIBE" # "SUBSCRIBE" /\ "PUBREC" # "PUBREL"
OBVIOUS

\* What the broker answers a message that means q.
LEMMA ReplyIs ==
    ASSUME NEW last \in Nat, NEW q, MeantOK(q, last), NEW r, Heads(r, q)
    PROVE  \/ ReplyTo(r) = <<>> /\ ~Token(q)
           \/ \E x : ReplyTo(r) = <<x>> /\ Replies(x, q, last)
<1>1. r.type = q.type /\ (q.type = "PUBLISH" => r.qos = q.qos /\ r.id = q.id)
      /\ (q.type \in Numbered => r.id = q.id)
  BY Zenon DEF Heads
<1>2. {"PUBREC", "PUBREL", "SUBSCRIBE", "UNSUBSCRIBE"} \subseteq Numbered
  BY DEF Numbered
<1>3. Token(q) => q.id \in 1..last /\ q.id \in Nat
  <2>1. 1..last \subseteq Nat
    OBVIOUS
  <2> QED
    BY <2>1, Zenon DEF MeantOK
<1>4. q.type = "PUBLISH" => q.qos \in 0..2
  BY Zenon DEF MeantOK
<1>5. CASE q.type = "PUBLISH" /\ q.qos = 1
  <2>1. Token(q)
    <3>1. 1 > 0
      OBVIOUS
    <3> QED
      BY <1>5, <3>1, Zenon DEF Token
  <2>2. ReplyTo(r) = Reply("PUBACK", q.id)
    BY <1>1, <1>5, Zenon DEF ReplyTo
  <2> QED
    BY <1>3, <2>1, <2>2, NamesAre, ReplyNamed
<1>6. CASE q.type = "PUBLISH" /\ q.qos = 2
  <2>1. Token(q)
    <3>1. 2 > 0
      OBVIOUS
    <3> QED
      BY <1>6, <3>1, Zenon DEF Token
  <2>2. ReplyTo(r) = Reply("PUBREC", q.id)
    <3>1. 2 # 1
      OBVIOUS
    <3> QED
      BY <1>1, <1>6, <3>1, Zenon DEF ReplyTo
  <2> QED
    BY <1>3, <2>1, <2>2, NamesAre, ReplyNamed
<1>7. CASE q.type = "PUBREL"
  <2>1. Token(q)
    BY <1>7, Zenon DEF Token
  <2>2. ReplyTo(r) = Reply("PUBCOMP", q.id)
    BY <1>1, <1>2, <1>7, TypesDiffer DEF ReplyTo
  <2> QED
    BY <1>3, <2>1, <2>2, NamesAre, ReplyNamed
<1>8. CASE q.type \in {"PUBREC", "SUBSCRIBE", "UNSUBSCRIBE"}
  <2>1. ~Token(q) /\ q.id \in Nat /\ r.id = q.id
    BY <1>1, <1>2, <1>8, TypesDiffer DEF Token, MeantOK
  <2>2. PICK name \in {"PUBREL", "SUBACK", "UNSUBACK"} : ReplyTo(r) = Reply(name, q.id)
    <3>1. CASE q.type = "PUBREC"
      BY <1>1, <2>1, <3>1, TypesDiffer DEF ReplyTo
    <3>2. CASE q.type = "SUBSCRIBE"
      BY <1>1, <2>1, <3>2, TypesDiffer DEF ReplyTo
    <3>3. CASE q.type = "UNSUBSCRIBE"
      BY <1>1, <2>1, <3>3, TypesDiffer DEF ReplyTo
    <3> QED
      BY <1>8, <3>1, <3>2, <3>3
  <2> QED
    BY <2>1, <2>2, NamesAre, ReplyNamed
<1>9. CASE /\ q.type \notin {"PUBREL", "PUBREC", "SUBSCRIBE", "UNSUBSCRIBE"}
           /\ q.type = "PUBLISH" => q.qos = 0
  <2>1. ~Token(q)
    <3>1. ~(0 > 0)
      OBVIOUS
    <3> QED
      BY <1>9, <3>1, Zenon DEF Token
  <2>2. ReplyTo(r) = <<>>
    <3>1. 0 # 1 /\ 0 # 2
      OBVIOUS
    <3> QED
      BY <1>1, <1>9, <3>1, Zenon DEF ReplyTo
  <2> QED
    BY <2>1, <2>2
<1> QED
  BY <1>4, <1>5, <1>6, <1>7, <1>8, <1>9

\* A step of the broker leaves the client and its counts alone.
BrokerKeeps ==
    /\ info' = info /\ connect_property' = connect_property /\ server' = server
    /\ outbox' = outbox /\ fragmented_msg_data_offset' = fragmented_msg_data_offset
    /\ last_message_id' = last_message_id /\ state' = state
    /\ inflight' = inflight /\ uncounted' = uncounted
    /\ send_publish_packet_count' = send_publish_packet_count

\* What a step of the broker has to preserve.
LEMMA BrokerStep ==
    ASSUME IInv, BrokerKeeps, StreamOf(toBroker', meant'), Meanings(meant', last_message_id),
           Arriving(toClient', last_message_id), got' \subseteq 1..last_message_id,
           state = "down" => toClient' = <<>>, Once(outbox, meant', got', held'), ~twice',
           ~uncounted => UnderWay(meant', toClient', inflight)
    PROVE  IInv'
<1>1. Wires'
  BY Parts, Zenon DEF Wires, BrokerKeeps
<1>2. GivenIds'
  BY Parts, Zenon DEF GivenIds, BrokerKeeps
<1>3. Twice'
  BY Zenon DEF Twice, BrokerKeeps
<1>4. Count'
  BY Parts, Zenon DEF Count, BrokerKeeps
<1> QED
  BY <1>1, <1>2, <1>3, <1>4, Zenon DEF IInv

\* What the broker sends of its own ends no publication.
LEMMA BrokerSendsStep ==
    ASSUME IInv, NEW bytes, NEW record, BrokerSends(bytes, record),
           NEW type \in 0..15, FromBroker(bytes, type), type \notin {PUBACK, PUBREC, PUBCOMP}
    PROVE  IInv'
<1> DEFINE x == [bytes |-> bytes, meant |-> record]
<1>1. /\ BrokerKeeps
      /\ toBroker' = toBroker /\ meant' = meant /\ got' = got /\ held' = held /\ twice' = twice
      /\ state # "down" /\ toClient' = Append(toClient, x)
  BY DEF BrokerSends, BrokerKeeps, client, history
<1>2. x.bytes = bytes
  OBVIOUS
<1> HIDE DEF x
<1>3. HeardOK(x, last_message_id) /\ ~Answer(x)
  BY <1>2, SaidOther
<1>4. Grown(toClient', toClient, x)
  BY <1>1, Parts, AppendIs, Zenon DEF Arriving
<1>5. Arriving(toClient', last_message_id)
  BY <1>3, <1>4, Parts, ArrivingGrow, Zenon
<1>6. ~uncounted => UnderWay(meant, toClient', inflight)
  BY <1>3, <1>4, Parts, WayHeard, Zenon
<1> QED
  BY <1>1, <1>5, <1>6, Parts, BrokerStep, Zenon

\* The broker publishes.
LEMMA BrokerPublishesStep ==
    ASSUME IInv, messages \in Nat, NEW m \in Messages, BrokerPublishes(m)
    PROVE  IInv'
<1> DEFINE id == IF m.qos = 0 THEN 0 ELSE messages + 1
<1> DEFINE alias == m.property.topic_alias
           topic == IF m.topic = <<>> THEN given[alias] ELSE m.topic
           record == [type |-> "PUBLISH", qos |-> m.qos, retain |-> m.retain, id |-> id,
                      topic |-> topic, property |-> m.property, data |-> m.data]
<1>1. BrokerSends(SendPublish(m, id), record)
  BY Zenon DEF BrokerPublishes
<1> HIDE DEF record
<1>2. id \in Nat
  OBVIOUS
<1>3. m \in MessageType
  BY Mqtt5DataAssumption
<1>4. /\ DOMAIN m = {"topic", "data", "qos", "retain", "property"}
      /\ m.topic \in Seq(Byte) /\ m.data \in Seq(Byte) /\ m.qos \in 0..2
      /\ m.property \in esp_mqtt5_publish_property_config_t
  <2> HIDE DEF id
  <2> QED
    BY <1>3 DEF MessageType
<1> HIDE DEF id
<1>6. FromBroker(SendPublish(m, id), PUBLISH)
  BY <1>2, <1>4, PublishSays
<1>7. PUBLISH \in 0..15 /\ PUBLISH \notin {PUBACK, PUBREC, PUBCOMP}
  BY DEF PUBLISH, PUBACK, PUBREC, PUBCOMP
<1> QED
  BY <1>1, <1>6, <1>7, BrokerSendsStep

\* The broker ends the connection.
LEMMA BrokerDisconnectsStep ==
    ASSUME IInv, BrokerDisconnects
    PROVE  IInv'
<1>1. BrokerSends(SendDisconnect(139), [type |-> "DISCONNECT", reason_code |-> 139])
  BY Zenon DEF BrokerDisconnects
<1>2. DISCONNECT \in 0..15 /\ DISCONNECT \notin {PUBACK, PUBREC, PUBCOMP}
  BY DEF DISCONNECT, PUBACK, PUBREC, PUBCOMP
<1> QED
  BY <1>1, <1>2, DisconnectSays, BrokerSendsStep

\* What the broker takes is what was meant.
LEMMA Taken ==
    ASSUME IInv, HasMessage(toBroker), NEW r, r = Reading(FirstMessage(toBroker), known)
    PROVE  /\ meant # <<>> /\ Heads(r, meant[1]) /\ Shrunk(Tail(meant), meant)
           /\ StreamOf(AfterFirst(toBroker), Tail(meant))
<1>1. IsSeq(meant)
  BY Parts, Zenon DEF Meanings
<1>2. PICK R : meant \in Seq(R)
  BY <1>1, Zenon DEF IsSeq
<1>3. /\ meant # <<>>
      /\ \A topics : Heads(Reading(FirstMessage(toBroker), topics), meant[1])
      /\ StreamOf(AfterFirst(toBroker), Tail(meant))
  BY <1>2, Parts, StreamReads, Zenon
<1>4. Shrunk(Tail(meant), meant)
  BY <1>1, <1>3, TailShrinks, Zenon
<1> QED
  BY <1>3, <1>4, Zenon

\* What it answers, to a client that is still there.
LEMMA SentBack ==
    ASSUME IInv, NEW r, Heads(r, meant[1]), meant # <<>>, Shrunk(Tail(meant), meant),
           r.type # "CONNECT", Sends(ReplyTo(r))
    PROVE  /\ Arriving(toClient', last_message_id)
           /\ state = "down" => toClient' = <<>>
           /\ ~uncounted => UnderWay(Tail(meant), toClient', inflight)
<1> DEFINE q == meant[1]
           m == Tail(meant)
           last == last_message_id
<1>1. MeantOK(q, last) /\ Meanings(m, last)
  BY Parts, MeaningsShrink, Zenon
<1>2. ~uncounted => UnderWay(m, toClient, inflight)
                    /\ (Token(q) => NotOf(m, toClient, q.id) /\ q.id \in inflight)
  BY Parts, WayShrinks, Zenon
<1>3. \/ ReplyTo(r) = <<>> /\ ~Token(q)
      \/ \E x : ReplyTo(r) = <<x>> /\ Replies(x, q, last)
  BY <1>1, Parts, ReplyIs, Zenon
<1>4. IsSeq(toClient)
  BY Parts, Zenon DEF Arriving
<1> HIDE DEF q, m
<1>5. CASE state = "down"
  <2>1. toClient' = <<>> /\ toClient = <<>>
    BY <1>5, Parts, Zenon DEF Sends
  <2> QED
    BY <1>2, <2>1, ArrivingNone, Zenon DEF m
<1>6. CASE state # "down" /\ ReplyTo(r) = <<>>
  <2>1. toClient' = toClient
    BY <1>4, <1>6, ConcatIs, Zenon DEF Sends
  <2> QED
    BY <1>2, <1>6, <2>1, Parts, Zenon DEF m
<1>7. CASE state # "down" /\ \E x : ReplyTo(r) = <<x>> /\ Replies(x, q, last)
  <2>1. PICK x : ReplyTo(r) = <<x>> /\ Replies(x, q, last)
    BY <1>7, Zenon
  <2>2. toClient' = toClient \o <<x>>
    BY <1>7, <2>1, Zenon DEF Sends
  <2>3. toClient' = Append(toClient, x)
    BY <1>4, <2>2, ConcatIs, Zenon
  <2>4. Grown(toClient', toClient, x)
    BY <1>4, <2>3, AppendIs, Zenon
  <2>5. Arriving(toClient', last)
    BY <2>1, <2>4, Parts, ArrivingGrow, Zenon DEF Replies
  <2>6. ASSUME ~uncounted PROVE UnderWay(m, toClient', inflight)
    <3>1. CASE Token(q)
      <4>1. Answer(x) /\ SaidId(x) = q.id /\ q.id \in inflight /\ NotOf(m, toClient, q.id)
        BY <1>2, <2>1, <2>6, <3>1, Zenon DEF Replies
      <4>2. UnderWay(m, toClient', inflight \cup {SaidId(x)})
        BY <1>2, <2>4, <2>6, <4>1, WayAnswer, Zenon
      <4>3. inflight \cup {SaidId(x)} = inflight
        BY <4>1
      <4> QED
        BY <4>2, <4>3, Zenon
    <3>2. CASE ~Token(q)
      BY <1>2, <2>1, <2>4, <2>6, <3>2, WayHeard, Zenon DEF Replies
    <3> QED
      BY <3>1, <3>2
  <2> QED
    BY <1>7, <2>5, <2>6, Zenon DEF m
<1> QED
  BY <1>3, <1>5, <1>6, <1>7, Zenon

\* CONNACK, likewise.
LEMMA AcceptedBack ==
    ASSUME IInv, NEW connect, NEW answer \in Answers, Shrunk(Tail(meant), meant),
           Sends(SaysTo(connect, answer))
    PROVE  /\ Arriving(toClient', last_message_id)
           /\ state = "down" => toClient' = <<>>
           /\ ~uncounted => UnderWay(Tail(meant), toClient', inflight)
<1> DEFINE m == Tail(meant)
<1>1. ~uncounted => UnderWay(m, toClient, inflight)
  BY Parts, WayShrinks, Zenon
<1>2. IsSeq(toClient)
  BY Parts, Zenon DEF Arriving
<1> HIDE DEF m
<1>3. CASE state = "down"
  <2>1. toClient' = <<>> /\ toClient = <<>>
    BY <1>3, Parts, Zenon DEF Sends
  <2> QED
    BY <1>1, <2>1, ArrivingNone, Zenon DEF m
<1>4. CASE state # "down"
  <2>1. PICK x : SaysTo(connect, answer) = <<x>> /\ FromBroker(x.bytes, CONNACK)
    BY SaysToSays, Zenon
  <2>2. CONNACK \in 0..15 /\ CONNACK \notin {PUBACK, PUBREC, PUBCOMP}
    BY DEF CONNACK, PUBACK, PUBREC, PUBCOMP
  <2>3. HeardOK(x, last_message_id) /\ ~Answer(x)
    BY <2>1, <2>2, SaidOther, Zenon
  <2>4. toClient' = toClient \o <<x>>
    BY <1>4, <2>1, Zenon DEF Sends
  <2>5. toClient' = Append(toClient, x)
    BY <1>2, <2>4, ConcatIs, Zenon
  <2>6. Grown(toClient', toClient, x)
    BY <1>2, <2>5, AppendIs, Zenon
  <2>7. Arriving(toClient', last_message_id)
    BY <2>3, <2>6, Parts, ArrivingGrow, Zenon
  <2>8. ~uncounted => UnderWay(m, toClient', inflight)
    BY <1>1, <2>3, <2>6, WayHeard, Zenon
  <2> QED
    BY <1>4, <2>7, <2>8, Zenon DEF m
<1> QED
  BY <1>3, <1>4, Zenon

\* What the broker holds and has got, of a message that is read as it was meant.
LEMMA HeldIs ==
    ASSUME NEW r, NEW q, Heads(r, q), BrokerActs(r)
    PROVE  /\ held' = Held(q, held) /\ got' = Got(q, got)
           /\ twice' = (twice \/ (q.type = "PUBLISH" /\ q.qos = 2 /\ q.id \in got \ held))
<1>1. r.type = q.type /\ (q.type = "PUBLISH" => r.qos = q.qos /\ r.id = q.id)
      /\ (q.type \in Numbered => r.id = q.id)
  BY Zenon DEF Heads
<1>2. "PUBREL" \in Numbered
  BY DEF Numbered
<1>3. /\ held' = IF r.type = "PUBLISH" /\ r.qos = 2 THEN held \cup {r.id}
                 ELSE IF r.type = "PUBREL" THEN held \ {r.id} ELSE held
      /\ got' = IF r.type = "PUBLISH" /\ r.qos > 0 THEN got \cup {r.id} ELSE got
      /\ twice' = (twice \/ (r.type = "PUBLISH" /\ r.qos = 2 /\ r.id \in got \ held))
  BY Zenon DEF BrokerActs
<1>4. held' = Held(q, held)
  BY <1>1, <1>2, <1>3, TypesDiffer, Zenon DEF Held
<1>5. got' = Got(q, got)
  BY <1>1, <1>3, Zenon DEF Got
<1>6. twice' = (twice \/ (q.type = "PUBLISH" /\ q.qos = 2 /\ q.id \in got \ held))
  BY <1>1, <1>3, Zenon
<1> QED
  BY <1>4, <1>5, <1>6

\* The broker takes a message and answers it.
LEMMA BrokerReadsStep ==
    ASSUME IInv, BrokerReads
    PROVE  IInv'
<1> DEFINE q == meant[1]
           last == last_message_id
<1>1. /\ HasMessage(toBroker)
      /\ toBroker' = AfterFirst(toBroker)
      /\ meant' = IF meant = <<>> THEN meant ELSE Tail(meant)
      /\ BrokerKeeps
  BY DEF BrokerReads, BrokerMayRead, BrokerKeeps, client, history
<1>2. PICK r : r = Reading(FirstMessage(toBroker), known) /\ BrokerActs(r)
  BY Zenon DEF BrokerReads
<1>3. /\ meant # <<>> /\ Heads(r, q) /\ Shrunk(Tail(meant), meant)
      /\ StreamOf(AfterFirst(toBroker), Tail(meant))
  BY <1>1, <1>2, Taken, Zenon
<1>4. meant' = Tail(meant)
  BY <1>1, <1>3, Zenon
<1>5. Meanings(meant', last) /\ MeantOK(q, last)
  BY <1>3, <1>4, Parts, MeaningsShrink, Zenon
<1>6. /\ Arriving(toClient', last) /\ (state = "down" => toClient' = <<>>)
      /\ ~uncounted => UnderWay(meant', toClient', inflight)
  <2>1. CASE r.type # "CONNECT" /\ Sends(ReplyTo(r))
    BY <1>3, <1>4, <2>1, SentBack, Zenon
  <2>2. CASE AcceptsOrRefuses(r)
    <3>1. PICK answer \in Answers : Sends(SaysTo(r, answer))
      BY <2>2, Zenon DEF AcceptsOrRefuses
    <3> QED
      BY <1>3, <1>4, <3>1, AcceptedBack, Zenon
  <2> QED
    BY <1>2, <2>1, <2>2, Zenon DEF BrokerActs
<1>7. /\ held' = Held(q, held) /\ got' = Got(q, got)
      /\ twice' = (twice \/ (q.type = "PUBLISH" /\ q.qos = 2 /\ q.id \in got \ held))
  BY <1>2, <1>3, HeldIs, Zenon
<1>8. /\ Once(outbox, Tail(meant), Got(q, got), Held(q, held))
      /\ ~(q.type = "PUBLISH" /\ q.qos = 2 /\ q.id \in got \ held)
  BY <1>3, Parts, OnceRead, Zenon
<1>9. got' \subseteq 1..last
  <2>1. q.type = "PUBLISH" /\ q.qos > 0 => q.id \in 1..last
    BY <1>5, Zenon DEF MeantOK, Token
  <2>2. got \subseteq 1..last
    BY Parts, Zenon
  <2> HIDE DEF q
  <2> QED
    BY <1>7, <2>1, <2>2, Zenon DEF Got
<1>10. Once(outbox, meant', got', held') /\ ~twice'
  BY <1>4, <1>7, <1>8, Parts, Zenon
<1> QED
  BY <1>1, <1>3, <1>4, <1>5, <1>6, <1>9, <1>10, BrokerStep, Zenon

---------------------------------------------------------------------------
\* The steps together.

\* The connection fails or is closed.
LEMMA LinkStep ==
    ASSUME IInv, LinkFails \/ LinkCloses
    PROVE  IInv'
<1>1. LinkGoes
  BY Zenon DEF LinkFails, LinkCloses
<1> QED
  BY <1>1, LinkGoesStep, Zenon

\* The calls of the application.
LEMMA CallStep ==
    ASSUME StoredFits, IInv, Call
    PROVE  IInv'
<1>1. CASE \E p \in Publications : Publish(p)
  BY <1>1, PublishStep, Zenon
<1>2. CASE \E p \in Publications : PublishOffline(p)
  <2>1. PICK p \in Publications : state = "down" /\ Enqueue(p)
    BY <1>2, Zenon DEF PublishOffline
  <2>2. p \in Publications \cup Stored
    OBVIOUS
  <2> QED
    BY <2>1, <2>2, EnqueueStep, Zenon
<1>3. CASE \E p \in Stored : Enqueue(p)
  <2>1. PICK p \in Stored : Enqueue(p)
    BY <1>3, Zenon
  <2>2. p \in Publications \cup Stored
    OBVIOUS
  <2> QED
    BY <2>1, <2>2, EnqueueStep, Zenon
<1>4. CASE \E s \in Subscriptions : esp_mqtt_client_subscribe(s)
  BY <1>4, SubscribeStep, Zenon
<1>5. CASE \E u \in Unsubscriptions : esp_mqtt_client_unsubscribe(u)
  BY <1>5, UnsubscribeStep, Zenon
<1>6. CASE \E d \in Disconnections : Disconnect(d)
  BY <1>6, DisconnectStep, Zenon
<1> QED
  BY <1>1, <1>2, <1>3, <1>4, <1>5, <1>6, Zenon DEF Call

\* What the client receives.
LEMMA ReceiveStep ==
    ASSUME IInv, Receive
    PROVE  IInv'
<1>1. CASE ReceivesConnAck
  BY <1>1, ConnAckStep, Zenon
<1>2. CASE ReceivesPublish
  BY <1>2, PublishHeardStep, Zenon
<1>3. CASE ReceivesPuback \/ ReceivesPubcomp \/ ReceivesSuback \/ ReceivesUnsuback
  BY <1>3, AckStep, Zenon
<1>4. CASE ReceivesPubrec
  BY <1>4, PubrecStep, Zenon
<1>5. CASE ReceivesPubrel
  BY <1>5, PubrelHeardStep, Zenon
<1>6. CASE ReceivesDisconnect
  BY <1>6, DisconnectHeardStep, Zenon
<1> QED
  BY <1>1, <1>2, <1>3, <1>4, <1>5, <1>6, Zenon DEF Receive

\* Every step keeps the invariant,
LEMMA NextStep ==
    ASSUME StoredFits, IInv, messages \in Nat, Next
    PROVE  IInv'
<1>1. CASE Call
  BY <1>1, CallStep, Zenon
<1>2. CASE Connect
  BY <1>2, ConnectStep, Zenon
<1>3. CASE Receive
  BY <1>3, ReceiveStep, Zenon
<1>4. CASE ResendQueued
  BY <1>4, ResendStep, Zenon
<1>5. CASE \E publish, pubrel \in BOOLEAN : Retransmit(publish, pubrel)
  BY <1>5, RetransmitStep, Zenon
<1>6. CASE LinkFails \/ LinkCloses
  BY <1>6, LinkStep, Zenon
<1>7. CASE BrokerReads
  BY <1>7, BrokerReadsStep, Zenon
<1>8. CASE \E m \in Messages : BrokerPublishes(m)
  BY <1>8, BrokerPublishesStep, Zenon
<1>9. CASE BrokerDisconnects
  BY <1>9, BrokerDisconnectsStep, Zenon
<1>10. CASE \E i \in DOMAIN outbox : Expire(i)
  BY <1>10, ExpireStep, Zenon
<1> QED
  BY <1>1, <1>2, <1>3, <1>4, <1>5, <1>6, <1>7, <1>8, <1>9, <1>10, Zenon DEF Next

\* ... and so does none.
LEMMA StutterStep ==
    ASSUME IInv, UNCHANGED vars
    PROVE  IInv'
<1>1. /\ state' = state /\ info' = info /\ connect_property' = connect_property
      /\ server' = server /\ send_publish_packet_count' = send_publish_packet_count
      /\ outbox' = outbox /\ fragmented_msg_data_offset' = fragmented_msg_data_offset
      /\ last_message_id' = last_message_id /\ toBroker' = toBroker /\ meant' = meant
      /\ toClient' = toClient /\ held' = held /\ got' = got /\ twice' = twice
      /\ inflight' = inflight /\ uncounted' = uncounted
  BY DEF vars, client, network, broker, history
<1>2. Wires'
  BY <1>1, Zenon DEF IInv, Wires
<1>3. GivenIds'
  BY <1>1, Zenon DEF IInv, GivenIds
<1>4. Twice'
  BY <1>1, Zenon DEF IInv, Twice
<1>5. Count'
  BY <1>1, Zenon DEF IInv, Count
<1> QED
  BY <1>2, <1>3, <1>4, <1>5, Zenon DEF IInv

\* The broker's publications are numbered.
LEMMA Counted5 ==
    ASSUME messages \in Nat, [Next]_vars
    PROVE  messages' \in Nat
<1>1. messages' = messages \/ messages' = messages + 1
  <2>1. CASE Call
    <3>1. Calls
      <4>1. CASE \E p \in Publications : Publish(p) \/ PublishOffline(p)
        BY <4>1, Zenon DEF Publish, PublishOffline, Enqueue
      <4>2. CASE \E p \in Stored : Enqueue(p)
        BY <4>2, Zenon DEF Enqueue
      <4>3. CASE \E s \in Subscriptions : esp_mqtt_client_subscribe(s)
        BY <4>3, Zenon DEF esp_mqtt_client_subscribe, SubscribeMessage, Requests
      <4>4. CASE \E u \in Unsubscriptions : esp_mqtt_client_unsubscribe(u)
        BY <4>4, Zenon DEF esp_mqtt_client_unsubscribe, Requests
      <4>5. CASE \E d \in Disconnections : Disconnect(d)
        BY <4>5, Zenon DEF Disconnect
      <4> QED
        BY <2>1, <4>1, <4>2, <4>3, <4>4, <4>5, Zenon DEF Call
    <3> QED
      BY <3>1 DEF Calls
  <2>2. CASE Connect
    BY <2>2 DEF Connect, bounds
  <2>3. CASE Receive
    <3>1. CASE ReceivesConnAck
      BY <3>1 DEF ReceivesConnAck, bounds
    <3>2. CASE ~ReceivesConnAck
      <4>1. PICK type : Receives(type)
        BY <2>3, <3>2, Zenon DEF Receive, ReceivesPublish, ReceivesPuback, ReceivesPubrec,
              ReceivesPubrel, ReceivesPubcomp, ReceivesSuback, ReceivesUnsuback,
              ReceivesDisconnect, Finishes
      <4> QED
        BY <4>1 DEF Receives, bounds
    <3> QED
      BY <3>1, <3>2
  <2>4. CASE ResendQueued \/ \E publish, pubrel \in BOOLEAN : Retransmit(publish, pubrel)
    <3>1. Resends
      BY <2>4, Zenon DEF ResendQueued, Retransmit
    <3> QED
      BY <3>1 DEF Resends, bounds
  <2>5. CASE LinkFails \/ LinkCloses
    BY <2>5 DEF LinkFails, LinkCloses, LinkGoes
  <2>6. CASE BrokerReads
    BY <2>6 DEF BrokerReads
  <2>7. CASE \E m \in Messages : BrokerPublishes(m)
    BY <2>7, Zenon DEF BrokerPublishes
  <2>8. CASE BrokerDisconnects
    BY <2>8 DEF BrokerDisconnects
  <2>9. CASE UNCHANGED vars
    BY <2>9 DEF vars, bounds
  <2>10. CASE \E i \in DOMAIN outbox : Expire(i)
    BY <2>10 DEF Expire, bounds
  <2> QED
    BY <2>1, <2>2, <2>3, <2>4, <2>5, <2>6, <2>7, <2>8, <2>9, <2>10, Zenon DEF Next
<1> QED
  BY <1>1

\* What holds of every state.
Inv5 == IInv /\ messages \in Nat

\* The invariant holds for every configuration whose stored messages fit.
LEMMA Invariant5 ==
    ASSUME StoredFits
    PROVE  Spec => []Inv5
<1>1. Init => Inv5
  <2>1. Init => messages = 0
    BY Zenon DEF Init
  <2>2. 0 \in Nat
    OBVIOUS
  <2> QED
    BY <2>1, <2>2, Starts, Zenon DEF Inv5
<1>2. Inv5 /\ [Next]_vars => Inv5'
  <2> SUFFICES ASSUME Inv5, [Next]_vars PROVE Inv5'
    OBVIOUS
  <2>1. IInv /\ messages \in Nat
    BY Zenon DEF Inv5
  <2>2. messages' \in Nat
    BY <2>1, Counted5, Zenon
  <2>3. CASE Next
    <3>1. IInv'
      BY <2>1, <2>3, NextStep, Zenon
    <3> QED
      BY <2>2, <3>1, Zenon DEF Inv5
  <2>4. CASE UNCHANGED vars
    <3>1. IInv'
      BY <2>1, <2>4, StutterStep, Zenon
    <3> QED
      BY <2>2, <3>1, Zenon DEF Inv5
  <2> QED
    BY <2>3, <2>4, Zenon
<1> QED
  BY <1>1, <1>2, PTL DEF Spec

\* What is stored fits the buffer: then the broker never takes a publication of
\* QoS 2 for a new one when it has had it, whatever is sent again and whatever
\* connections fail; for every configuration, every message and any number of
\* calls, connections and publications (mqtt_client.c:1729, 2068).
THEOREM PublishedOnce ==
    ASSUME StoredFits
    PROVE  Spec => []OnceOnly
<1>1. Inv5 => OnceOnly
  BY Zenon DEF Inv5, IInv, Twice, OnceOnly
<1> QED
  BY <1>1, Invariant5, PTL

\* What is stored fits the buffer: then the counter that stops the application
\* at receive_maximum never has more than what waits for PUBACK or PUBCOMP on
\* this connection, and has all of it unless something was sent again
\* (mqtt5_client.c:22, 32; mqtt_client.c:911).
THEOREM CountIsRight ==
    ASSUME StoredFits
    PROVE  Spec => []CountsInFlight
<1>1. Inv5 => CountsInFlight
  <2> SUFFICES ASSUME Inv5, state = "CONNECTED"
               PROVE  /\ send_publish_packet_count <= Cardinality(inflight)
                      /\ ~uncounted => send_publish_packet_count = Cardinality(inflight)
    BY Zenon DEF CountsInFlight
  <2>1. Right(send_publish_packet_count, inflight, uncounted)
    BY Zenon DEF Inv5, IInv, Count
  <2> QED
    BY <2>1, Zenon DEF Right
<1> QED
  BY <1>1, Invariant5, PTL

---------------------------------------------------------------------------
\* The types: what is acknowledged is of QoS 2, and what is counted was accepted.

\* Every item with that identifier is a publication of QoS 2,
OfQos2(o, id) == \A i \in DOMAIN o : o[i].id = id => o[i].type = PUBLISH /\ o[i].qos = 2
\* as is what a PUBLISH of QoS 2 under way and a PUBREC are about, and what
\* waits for PUBCOMP; and a PUBLISH of the broker is one of its messages.
Message5(g) == \E p \in Messages, id \in Nat : g = SendPublish(p, id)
TwoMeant(r, o) == r.type = "PUBLISH" /\ r.qos = 2 => OfQos2(o, r.id)
TwoHeard(x, o) ==
    /\ SaidType(x) = PUBREC => OfQos2(o, SaidId(x))
    /\ SaidType(x) = PUBLISH => Message5(x.bytes)
TwoItem(x) == x.pending = "ACKNOWLEDGED" => x.type = PUBLISH /\ x.qos = 2
Kinds(m, c, o) ==
    /\ \A k \in DOMAIN m : TwoMeant(m[k], o)
    /\ \A k \in DOMAIN c : TwoHeard(c[k], o)
    /\ \A i \in DOMAIN o : TwoItem(o[i])
GivenTo(o, a) == \A i \in DOMAIN o : o[i].type = PUBLISH /\ o[i].id # 0 => o[i].id \in a

\* What is written is no PUBLISH; what is heard is no more than it was.
QuietWritten(n, m) == n = m \/ \E r : n = Append(m, r) /\ r.type # "PUBLISH"
QuietHeard(d, c) == d = c \/ d = <<>> \/ (c # <<>> /\ d = Tail(c))

\* One message more is meant,
LEMMA KindsMeant ==
    ASSUME NEW m, NEW c, NEW o, Kinds(m, c, o), NEW n, NEW r, Grown(n, m, r), TwoMeant(r, o)
    PROVE  Kinds(n, c, o)
<1>1. \A k \in DOMAIN n : TwoMeant(n[k], o)
  <2> TAKE k \in DOMAIN n
  <2>1. CASE k \in DOMAIN m
    BY <2>1, Zenon DEF Kinds, Grown
  <2>2. CASE k = Len(m) + 1
    BY <2>2, Zenon DEF Grown
  <2> QED
    BY <2>1, <2>2, Zenon DEF Grown
<1> QED
  BY <1>1, Zenon DEF Kinds

\* ... or sent by the broker,
LEMMA KindsHeard ==
    ASSUME NEW m, NEW c, NEW o, Kinds(m, c, o), NEW d, NEW x, Grown(d, c, x), TwoHeard(x, o)
    PROVE  Kinds(m, d, o)
<1>1. \A k \in DOMAIN d : TwoHeard(d[k], o)
  <2> TAKE k \in DOMAIN d
  <2>1. CASE k \in DOMAIN c
    BY <2>1, Zenon DEF Kinds, Grown
  <2>2. CASE k = Len(c) + 1
    BY <2>2, Zenon DEF Grown
  <2> QED
    BY <2>1, <2>2, Zenon DEF Grown
<1> QED
  BY <1>1, Zenon DEF Kinds

\* ... and one less.
LEMMA KindsMeantShrink ==
    ASSUME NEW m, NEW c, NEW o, Kinds(m, c, o), NEW n, Shrunk(n, m)
    PROVE  Kinds(n, c, o) /\ TwoMeant(m[1], o)
BY Zenon DEF Kinds, Shrunk

LEMMA KindsHeardShrink ==
    ASSUME NEW m, NEW c, NEW o, Kinds(m, c, o), NEW d, Shrunk(d, c)
    PROVE  Kinds(m, d, o) /\ TwoHeard(c[1], o)
BY Zenon DEF Kinds, Shrunk

\* The outbox is as it was.
LEMMA KindsQuiet ==
    ASSUME NEW m, NEW c, NEW o, Kinds(m, c, o), IsSeq(m), IsSeq(c),
           NEW n, QuietWritten(n, m), NEW d, QuietHeard(d, c)
    PROVE  Kinds(n, d, o)
<1>1. Kinds(n, c, o)
  <2>1. CASE n = m
    BY <2>1, Zenon
  <2>2. CASE \E r : n = Append(m, r) /\ r.type # "PUBLISH"
    <3>1. PICK r : n = Append(m, r) /\ r.type # "PUBLISH"
      BY <2>2, Zenon
    <3>2. Grown(n, m, r)
      BY <3>1, AppendIs, Zenon
    <3>3. TwoMeant(r, o)
      BY <3>1, Zenon DEF TwoMeant
    <3> QED
      BY <3>2, <3>3, KindsMeant, Zenon
  <2> QED
    BY <2>1, <2>2, Zenon DEF QuietWritten
<1>2. CASE d = c
  BY <1>1, <1>2, Zenon
<1>3. CASE d = <<>>
  BY <1>1, <1>3, EmptyIs, Zenon DEF Kinds
<1>4. CASE c # <<>> /\ d = Tail(c)
  BY <1>1, <1>4, TailShrinks, KindsHeardShrink, Zenon
<1> QED
  BY <1>2, <1>3, <1>4, Zenon DEF QuietHeard

SameKind(x, y) == x.id = y.id /\ x.type = y.type /\ x.qos = y.qos
\* The outbox goes on with the same items, and with new ones that are accepted.
FreshItem(x, last, a) == x.id \notin 1..last /\ (x.type = PUBLISH /\ x.id # 0 => x.id \in a)
Follows(n, o, last, a) ==
    \A i \in DOMAIN n : /\ TwoItem(n[i])
                        /\ FreshItem(n[i], last, a) \/ \E j \in DOMAIN o : SameKind(n[i], o[j])

LEMMA KindsFollow ==
    ASSUME NEW m, NEW c, NEW o, Kinds(m, c, o), NEW last, Meanings(m, last), Arriving(c, last),
           NEW a, NEW b, GivenTo(o, a), a \subseteq b, NEW n, Follows(n, o, last, b)
    PROVE  Kinds(m, c, n) /\ GivenTo(n, b)
<1>1. ASSUME NEW id, id \in 1..last, OfQos2(o, id)
      PROVE  OfQos2(n, id)
  BY <1>1, Zenon DEF OfQos2, Follows, FreshItem, SameKind
<1>2. \A k \in DOMAIN m : TwoMeant(m[k], n)
  <2> SUFFICES ASSUME NEW k \in DOMAIN m, m[k].type = "PUBLISH", m[k].qos = 2
               PROVE  OfQos2(n, m[k].id)
    BY Zenon DEF TwoMeant
  <2>1. 2 > 0
    OBVIOUS
  <2>2. m[k].id \in 1..last
    BY <2>1, Zenon DEF Meanings, MeantOK, Token
  <2>3. OfQos2(o, m[k].id)
    BY Zenon DEF Kinds, TwoMeant
  <2> QED
    BY <1>1, <2>2, <2>3, Zenon
<1>3. \A k \in DOMAIN c : TwoHeard(c[k], n)
  <2> SUFFICES ASSUME NEW k \in DOMAIN c, SaidType(c[k]) = PUBREC
               PROVE  OfQos2(n, SaidId(c[k]))
    BY Zenon DEF TwoHeard, Kinds
  <2>1. SaidId(c[k]) \in 1..last
    BY Zenon DEF Arriving, HeardOK, Answer
  <2>2. OfQos2(o, SaidId(c[k]))
    BY Zenon DEF Kinds, TwoHeard
  <2> QED
    BY <1>1, <2>1, <2>2, Zenon
<1>4. \A i \in DOMAIN n : TwoItem(n[i])
  BY Zenon DEF Follows
<1>5. GivenTo(n, b)
  <2> SUFFICES ASSUME NEW i \in DOMAIN n, n[i].type = PUBLISH, n[i].id # 0
               PROVE  n[i].id \in b
    BY Zenon DEF GivenTo
  <2>1. CASE FreshItem(n[i], last, b)
    BY <2>1, Zenon DEF FreshItem
  <2>2. CASE \E j \in DOMAIN o : SameKind(n[i], o[j])
    BY <2>2, Zenon DEF SameKind, GivenTo
  <2> QED
    BY <2>1, <2>2, Zenon DEF Follows
<1> QED
  BY <1>2, <1>3, <1>4, <1>5, Zenon DEF Kinds

\* It has one item more,
LEMMA FollowsGrown ==
    ASSUME NEW o, NEW n, NEW x, Grown(n, o, x), NEW last, NEW a,
           \A i \in DOMAIN o : TwoItem(o[i]), TwoItem(x), FreshItem(x, last, a)
    PROVE  Follows(n, o, last, a)
<1> SUFFICES ASSUME NEW i \in DOMAIN n
             PROVE  /\ TwoItem(n[i])
                    /\ FreshItem(n[i], last, a) \/ \E j \in DOMAIN o : SameKind(n[i], o[j])
  BY Zenon DEF Follows
<1>1. CASE i \in DOMAIN o
  <2>1. n[i] = o[i]
    BY <1>1, Zenon DEF Grown
  <2> QED
    BY <1>1, <2>1, Zenon DEF SameKind
<1>2. CASE i = Len(o) + 1
  BY <1>2, Zenon DEF Grown
<1> QED
  BY <1>1, <1>2, Zenon DEF Grown

\* ... items less,
LEMMA FollowsEmb ==
    ASSUME NEW o, NEW n, Emb(n, o), NEW last, NEW a, \A i \in DOMAIN o : TwoItem(o[i])
    PROVE  Follows(n, o, last, a)
<1>1. \A i \in DOMAIN n : \E j \in DOMAIN o : n[i] = o[j]
  BY Zenon DEF Emb
<1> QED
  BY <1>1, Zenon DEF Follows, SameKind

\* ... or another one in the place of one.
LEMMA FollowsSwapped ==
    ASSUME NEW o, NEW n, NEW k, NEW x, Swapped(n, o, k, x), NEW last, NEW a,
           \A i \in DOMAIN o : TwoItem(o[i]),
           k \in DOMAIN o => TwoItem(x) /\ SameKind(x, o[k])
    PROVE  Follows(n, o, last, a)
<1> SUFFICES ASSUME NEW i \in DOMAIN n
             PROVE  /\ TwoItem(n[i])
                    /\ FreshItem(n[i], last, a) \/ \E j \in DOMAIN o : SameKind(n[i], o[j])
  BY Zenon DEF Follows
<1>1. i \in DOMAIN o
  BY Zenon DEF Swapped
<1>2. CASE i = k
  BY <1>1, <1>2, Zenon DEF Swapped
<1>3. CASE i # k
  <2>1. n[i] = o[i]
    BY <1>1, <1>3, Zenon DEF Swapped
  <2> QED
    BY <1>1, <2>1, Zenon DEF SameKind
<1> QED
  BY <1>2, <1>3, Zenon

\* What is acknowledged, accepted and counted.
Kept5 ==
    /\ Kinds(meant, toClient, outbox)
    /\ GivenTo(outbox, accepted)
    /\ inflight \subseteq accepted

\* It holds at first.
LEMMA KeptStarts == Init => Kept5
<1> SUFFICES ASSUME Init PROVE Kept5
  OBVIOUS
<1>1. meant = <<>> /\ toClient = <<>> /\ outbox = <<>> /\ accepted = {} /\ inflight = {}
  BY Zenon DEF Init
<1>2. Kinds(meant, toClient, outbox) /\ GivenTo(outbox, accepted)
  BY <1>1, EmptyIs, Zenon DEF Kinds, GivenTo
<1> QED
  BY <1>1, <1>2 DEF Kept5

\* The streams and the outbox are sequences.
LEMMA Sequences ==
    ASSUME IInv
    PROVE  IsSeq(meant) /\ IsSeq(toClient) /\ IsSeq(outbox)
BY Parts, Zenon DEF Meanings, Arriving, Items

\* The outbox stays, nothing is published and nothing more is heard.
LEMMA KeptQuiet ==
    ASSUME IInv, Kept5, outbox' = outbox, accepted' = accepted, inflight' \subseteq inflight,
           QuietWritten(meant', meant), QuietHeard(toClient', toClient)
    PROVE  Kept5'
<1>1. Kinds(meant', toClient', outbox)
  BY Sequences, KindsQuiet, Zenon DEF Kept5
<1>2. inflight' \subseteq accepted
  BY DEF Kept5
<1> QED
  BY <1>1, <1>2, Zenon DEF Kept5

\* The outbox goes on.
LEMMA KeptFollows ==
    ASSUME IInv, Kept5, accepted \subseteq accepted',
           Follows(outbox', outbox, last_message_id, accepted')
    PROVE  Kinds(meant, toClient, outbox') /\ GivenTo(outbox', accepted')
BY Parts, KindsFollow, Zenon DEF Kept5

\* Items of the outbox as they are.
LEMMA ItemsNow ==
    ASSUME Kept5
    PROVE  \A i \in DOMAIN outbox : TwoItem(outbox[i])
BY Zenon DEF Kept5, Kinds

\* An item of the call: its identifier is new and accepted.
LEMMA KeptEnqueues ==
    ASSUME IInv, Kept5, NEW p, p.qos \in 0..2, NEW m, NEW pending \in {"QUEUED", "TRANSMITTED"},
           Enqueues(p, m, pending)
    PROVE  /\ accepted \subseteq accepted'
           /\ p.qos > 0 => MessageId(p) = last_message_id + 1 /\ MessageId(p) \in accepted'
           /\ Follows(outbox', outbox, last_message_id, accepted')
           /\ p.qos = 2 => OfQos2(outbox', MessageId(p))
<1> DEFINE last == last_message_id
           r == Means(p, MessageId(p))
           id == MessageId(p)
           q == p.qos
           k == Kept(m, p)
           x == Item(id, PUBLISH, q, k, pending, r)
<1>1. /\ accepted' = accepted \cup ({id} \ {0})
      /\ outbox' = IF p.qos = 0 /\ ~p.store THEN outbox ELSE Append(outbox, x)
  BY Zenon DEF Enqueues
<1>2. accepted \subseteq accepted' /\ (id # 0 => id \in accepted')
  BY <1>1
<1>3. last \in Nat /\ Items(outbox, last) /\ IsSeq(outbox)
  BY Parts, Sequences, Zenon
<1>4. p.qos > 0 => id = last + 1
  BY Zenon DEF MessageId
<1>5. p.qos = 0 => id = 0
  BY DEF MessageId
<1>6. x.id = id /\ x.type = PUBLISH /\ x.qos = q /\ x.pending = pending
  <2> HIDE DEF id, q, k, r
  <2> QED
    BY DEF Item
<1> HIDE DEF x
<1>7. p.qos > 0 => id \in accepted'
  BY <1>2, <1>3, <1>4, LaterIds
<1>8. id \notin 1..last
  BY <1>3, <1>4, <1>5
<1> HIDE DEF id, r, k, last
<1>9. TwoItem(x)
  <2>1. pending # "ACKNOWLEDGED"
    OBVIOUS
  <2> QED
    BY <1>6, <2>1, Zenon DEF TwoItem
<1>10. FreshItem(x, last, accepted')
  BY <1>2, <1>6, <1>8, Zenon DEF FreshItem
<1>11. CASE p.qos = 0 /\ ~p.store
  <2>1. outbox' = outbox
    BY <1>1, <1>11, Zenon
  <2>2. Follows(outbox', outbox, last, accepted')
    BY <2>1, ItemsNow, Zenon DEF Follows, SameKind
  <2>3. ~(p.qos = 2) /\ ~(p.qos > 0)
    BY <1>11
  <2> QED
    BY <1>2, <2>2, <2>3, Zenon DEF last, id
<1>12. CASE ~(p.qos = 0 /\ ~p.store)
  <2>1. Grown(outbox', outbox, x)
    <3>1. outbox' = Append(outbox, x)
      BY <1>1, <1>12, Zenon
    <3> QED
      BY <1>3, <3>1, AppendIs, Zenon
  <2>2. Follows(outbox', outbox, last, accepted')
    BY <1>9, <1>10, <2>1, ItemsNow, FollowsGrown, Zenon
  <2>3. ASSUME p.qos = 2 PROVE OfQos2(outbox', id)
    <3>1. id = last + 1
      BY <1>4, <2>3
    <3> SUFFICES ASSUME NEW i \in DOMAIN outbox', outbox'[i].id = id
                 PROVE  outbox'[i].type = PUBLISH /\ outbox'[i].qos = 2
      BY Zenon DEF OfQos2
    <3>2. CASE i \in DOMAIN outbox
      <4>1. outbox[i].id = id
        BY <2>1, <3>2, Zenon DEF Grown
      <4>2. outbox[i].id \in 0..last
        BY <1>3, <3>2, Zenon DEF Items, ItemOK
      <4> QED
        BY <1>3, <3>1, <4>1, <4>2, LaterIds, Zenon
    <3>3. CASE i = Len(outbox) + 1
      <4>1. outbox'[i] = x
        BY <2>1, <3>3, Zenon DEF Grown
      <4> QED
        BY <1>6, <2>3, <4>1, Zenon DEF q
    <3> QED
      BY <2>1, <3>2, <3>3, Zenon DEF Grown
  <2> QED
    BY <1>2, <1>4, <1>7, <2>2, <2>3, Zenon DEF last, id
<1> QED
  BY <1>11, <1>12

\* esp_mqtt_client_publish, while connected.
LEMMA PublishKept ==
    ASSUME IInv, Kept5, NEW p \in Publications, Publish(p)
    PROVE  Kept5'
<1> DEFINE m == make_publish(p)
           r == Means(p, MessageId(p))
           id == MessageId(p)
<1>1. PublishMessage(p, m) /\ toClient' = toClient
  BY Zenon DEF Publish
<1> HIDE DEF m
<1>2. Enqueues(p, m, "TRANSMITTED") /\ meant' = Append(meant, r)
  BY <1>1, Zenon DEF PublishMessage, Transmits, Writes
<1>3. IF p.qos > 0
      THEN \E first : esp_mqtt5_increment_packet_counter(r.id, first)
      ELSE UNCHANGED <<send_publish_packet_count, inflight, uncounted>>
  BY <1>1, Zenon DEF PublishMessage, Transmits
<1>4. p.qos \in 0..2
  <2>1. p \in PublicationType
    BY Mqtt5DataAssumption
  <2> QED
    BY <2>1, Zenon DEF PublicationType
<1>5. r.type = "PUBLISH" /\ r.qos = p.qos /\ r.id = id
  BY MeansIs, Zenon
<1>6. "TRANSMITTED" \in {"QUEUED", "TRANSMITTED"}
  OBVIOUS
<1>7. /\ accepted \subseteq accepted'
      /\ p.qos > 0 => id = last_message_id + 1 /\ id \in accepted'
      /\ Follows(outbox', outbox, last_message_id, accepted')
      /\ p.qos = 2 => OfQos2(outbox', id)
  BY <1>2, <1>4, <1>6, KeptEnqueues, Zenon
<1> HIDE DEF r, id
<1>8. Kinds(meant, toClient, outbox') /\ GivenTo(outbox', accepted')
  BY <1>7, KeptFollows, Zenon
<1>9. Kinds(meant', toClient', outbox')
  <2>1. Grown(meant', meant, r)
    BY <1>2, Sequences, AppendIs, Zenon
  <2>2. TwoMeant(r, outbox')
    BY <1>5, <1>7, Zenon DEF TwoMeant
  <2> QED
    BY <1>1, <1>8, <2>1, <2>2, KindsMeant, Zenon
<1>10. inflight' \subseteq accepted'
  <2>1. CASE p.qos > 0
    <3>1. PICK first : esp_mqtt5_increment_packet_counter(r.id, first)
      BY <1>3, <2>1, Zenon
    <3>2. inflight' = inflight \cup {id}
      BY <1>5, <3>1, Zenon DEF esp_mqtt5_increment_packet_counter
    <3> QED
      BY <1>7, <2>1, <3>2 DEF Kept5
  <2>2. CASE ~(p.qos > 0)
    <3>1. inflight' = inflight
      BY <1>3, <2>2
    <3> QED
      BY <1>7, <3>1 DEF Kept5
  <2> QED
    BY <2>1, <2>2
<1> QED
  BY <1>8, <1>9, <1>10, Zenon DEF Kept5

\* ... and while not, or esp_mqtt_client_enqueue.
LEMMA EnqueueKept ==
    ASSUME IInv, Kept5, NEW p \in Publications \cup Stored, Enqueue(p)
    PROVE  Kept5'
<1> DEFINE m == make_publish(p)
<1>1. EnqueueMessage(p, m) /\ toClient' = toClient /\ meant' = meant /\ inflight' = inflight
  BY DEF Enqueue, network
<1> HIDE DEF m
<1>2. Enqueues(p, m, "QUEUED")
  BY <1>1, Zenon DEF EnqueueMessage
<1>3. p.qos \in 0..2
  <2>1. p \in PublicationType
    BY Mqtt5DataAssumption
  <2> QED
    BY <2>1, Zenon DEF PublicationType
<1>4. "QUEUED" \in {"QUEUED", "TRANSMITTED"}
  OBVIOUS
<1>5. accepted \subseteq accepted' /\ Follows(outbox', outbox, last_message_id, accepted')
  BY <1>2, <1>3, <1>4, KeptEnqueues, Zenon
<1>6. Kinds(meant, toClient, outbox') /\ GivenTo(outbox', accepted')
  BY <1>5, KeptFollows, Zenon
<1>7. inflight' \subseteq accepted'
  BY <1>1, <1>5 DEF Kept5
<1> QED
  BY <1>1, <1>6, <1>7, Zenon DEF Kept5

\* SUBSCRIBE and UNSUBSCRIBE.
LEMMA RequestsKept ==
    ASSUME IInv, Kept5, NEW type \in {SUBSCRIBE, UNSUBSCRIBE}, NEW message, NEW r,
           Requests(type, message, r), r.type \in {"SUBSCRIBE", "UNSUBSCRIBE"}
    PROVE  Kept5'
<1> DEFINE x == Item(last_message_id + 1, type, 0, message, "TRANSMITTED", r)
<1>1. /\ toClient' = toClient /\ accepted' = accepted /\ inflight' = inflight
      /\ outbox' = Append(outbox, x) /\ meant' = Append(meant, r)
  BY DEF Requests, Writes
<1>2. x.id = last_message_id + 1 /\ x.type = type /\ x.pending = "TRANSMITTED"
  BY DEF Item
<1> HIDE DEF x
<1>3. last_message_id \in Nat
  BY Parts, Zenon
<1>4. TwoItem(x) /\ FreshItem(x, last_message_id, accepted)
  <2>1. x.type # PUBLISH
    BY <1>2 DEF PUBLISH, SUBSCRIBE, UNSUBSCRIBE
  <2>2. "TRANSMITTED" # "ACKNOWLEDGED"
    OBVIOUS
  <2>3. last_message_id + 1 \notin 1..last_message_id
    BY <1>3, LaterIds, Zenon
  <2> QED
    BY <1>2, <2>1, <2>2, <2>3, Zenon DEF TwoItem, FreshItem
<1>5. Grown(outbox', outbox, x) /\ Grown(meant', meant, r)
  BY <1>1, Sequences, AppendIs, Zenon
<1>6. Follows(outbox', outbox, last_message_id, accepted')
  BY <1>1, <1>4, <1>5, ItemsNow, FollowsGrown, Zenon
<1>7. accepted \subseteq accepted'
  BY <1>1
<1>8. Kinds(meant, toClient, outbox') /\ GivenTo(outbox', accepted')
  BY <1>6, <1>7, KeptFollows, Zenon
<1>9. r.type # "PUBLISH"
  OBVIOUS
<1>10. Kinds(meant', toClient', outbox')
  BY <1>1, <1>5, <1>8, <1>9, KindsMeant, Zenon DEF TwoMeant
<1> QED
  BY <1>1, <1>8, <1>10, Zenon DEF Kept5

\* The calls of the application.
LEMMA CallKept ==
    ASSUME IInv, Kept5, Call
    PROVE  Kept5'
<1>1. CASE \E p \in Publications : Publish(p)
  BY <1>1, PublishKept, Zenon
<1>2. CASE \E p \in Publications \cup Stored : Enqueue(p)
  BY <1>2, EnqueueKept, Zenon
<1>3. CASE \E s \in Subscriptions : esp_mqtt_client_subscribe(s)
  <2>1. PICK s : esp_mqtt_client_subscribe(s)
    BY <1>3, Zenon
  <2> DEFINE message == mqtt5_msg_subscribe(<<[filter |-> s.filter, qos |-> s.qos]>>,
                                            last_message_id + 1, s.property)
             r == [type |-> "SUBSCRIBE", id |-> last_message_id + 1,
                   filter |-> SharedTopic(s.property, s.filter), qos |-> s.qos,
                   no_local_flag |-> s.property.no_local_flag,
                   retain_as_published_flag |-> s.property.retain_as_published_flag,
                   retain_handle |-> s.property.retain_handle,
                   subscribe_id |-> s.property.subscribe_id,
                   user_property |-> s.property.user_property, whole |-> TRUE]
  <2>2. Requests(SUBSCRIBE, message, r)
    BY <2>1, Zenon DEF esp_mqtt_client_subscribe, SubscribeMessage
  <2>3. r.type \in {"SUBSCRIBE", "UNSUBSCRIBE"}
    OBVIOUS
  <2> HIDE DEF message, r
  <2> QED
    BY <2>2, <2>3, RequestsKept
<1>4. CASE \E u \in Unsubscriptions : esp_mqtt_client_unsubscribe(u)
  <2>1. PICK u : esp_mqtt_client_unsubscribe(u)
    BY <1>4, Zenon
  <2> DEFINE message == mqtt5_msg_unsubscribe(u.filter, last_message_id + 1, u.property)
             r == [type |-> "UNSUBSCRIBE", id |-> last_message_id + 1,
                   filter |-> SharedTopic(u.property, u.filter),
                   user_property |-> u.property.user_property]
  <2>2. Requests(UNSUBSCRIBE, message, r)
    BY <2>1, Zenon DEF esp_mqtt_client_unsubscribe
  <2>3. r.type \in {"SUBSCRIBE", "UNSUBSCRIBE"}
    OBVIOUS
  <2> HIDE DEF message, r
  <2> QED
    BY <2>2, <2>3, RequestsKept
<1>5. CASE \E d \in Disconnections : Disconnect(d)
  <2>1. PICK d : Disconnect(d)
    BY <1>5, Zenon
  <2>2. /\ outbox' = outbox /\ accepted' = accepted /\ inflight' = inflight
        /\ toClient' = <<>>
        /\ \E r : meant' = Append(meant, r) /\ r.type = "DISCONNECT"
    BY <2>1 DEF Disconnect, DisconnectMessage, Writes, AbortConnection
  <2>3. QuietWritten(meant', meant)
    BY <2>2 DEF QuietWritten
  <2>4. QuietHeard(toClient', toClient)
    BY <2>2, Zenon DEF QuietHeard
  <2>5. inflight' \subseteq inflight
    BY <2>2
  <2> QED
    BY <2>2, <2>3, <2>4, <2>5, KeptQuiet, Zenon
<1> QED
  BY <1>1, <1>2, <1>3, <1>4, <1>5, Zenon DEF Call, PublishOffline

\* CONNECT.
LEMMA ConnectKept ==
    ASSUME IInv, Kept5, Connect
    PROVE  Kept5'
<1> DEFINE r == [type |-> "CONNECT", version |-> <<0, 4, 77, 81, 84, 84, 5>>,
                 info |-> info, property |-> connect_property,
                 will_property |-> WillProperty]
<1>1. /\ outbox' = outbox /\ accepted' = accepted /\ inflight' = {} /\ toClient' = toClient
      /\ meant' = <<r>>
  BY DEF Connect
<1>2. r.type # "PUBLISH"
  OBVIOUS
<1> HIDE DEF r
<1>3. \A k \in DOMAIN <<r>> : <<r>>[k] = r
  OBVIOUS
<1>4. \A k \in DOMAIN meant' : TwoMeant(meant'[k], outbox)
  BY <1>1, <1>2, <1>3, Zenon DEF TwoMeant
<1>5. Kinds(meant', toClient', outbox')
  BY <1>1, <1>4, Zenon DEF Kinds, Kept5
<1>6. inflight' \subseteq accepted'
  BY <1>1
<1> QED
  BY <1>1, <1>5, <1>6, Zenon DEF Kept5

\* The connection is lost.
LEMMA LinkKept ==
    ASSUME IInv, Kept5, LinkGoes
    PROVE  Kept5'
<1>1. /\ outbox' = outbox /\ accepted' = accepted /\ inflight' = inflight
      /\ meant' = meant /\ toClient' = <<>>
  BY DEF LinkGoes, AbortConnection, history
<1>2. inflight' \subseteq inflight
  BY <1>1
<1>3. QuietWritten(meant', meant) /\ QuietHeard(toClient', toClient)
  BY <1>1, Zenon DEF QuietWritten, QuietHeard
<1> QED
  BY <1>1, <1>2, <1>3, KeptQuiet, Zenon

\* CONNACK.
LEMMA ConnAckKept ==
    ASSUME IInv, Kept5, ReceivesConnAck
    PROVE  Kept5'
<1>1. /\ outbox' = outbox /\ accepted' = accepted /\ inflight' = inflight
      /\ meant' = meant /\ toClient # <<>>
  BY DEF ReceivesConnAck, Hears
<1>2. toClient' = Tail(toClient) \/ toClient' = <<>>
  BY Zenon DEF ReceivesConnAck, HearsConnAck, AbortConnection
<1>3. inflight' \subseteq inflight
  BY <1>1
<1>4. QuietWritten(meant', meant) /\ QuietHeard(toClient', toClient)
  BY <1>1, <1>2, Zenon DEF QuietWritten, QuietHeard
<1> QED
  BY <1>1, <1>3, <1>4, KeptQuiet, Zenon

\* An answer to the broker publishes nothing.
LEMMA BackIsQuiet ==
    ASSUME NEW message, NEW name \in {"PUBACK", "PUBREC", "PUBREL", "PUBCOMP"}, NEW id,
           WritesBack(message, Ack(name, id)), toClient # <<>>
    PROVE  QuietWritten(meant', meant) /\ QuietHeard(toClient', toClient)
<1> DEFINE r == Ack(name, id)
<1>1. meant' = Append(meant, r) /\ toClient' = Tail(toClient)
  BY Zenon DEF WritesBack, Writes, Goes
<1>2. r.type # "PUBLISH"
  <2>1. r.type = name
    BY AckIs, Zenon
  <2> HIDE DEF r
  <2> QED
    BY <2>1
<1> HIDE DEF r
<1> QED
  BY <1>1, <1>2, Zenon DEF QuietWritten, QuietHeard

\* PUBLISH, PUBREL and DISCONNECT are received.
LEMMA AnswerKept ==
    ASSUME IInv, Kept5, ReceivesPublish \/ ReceivesPubrel \/ ReceivesDisconnect
    PROVE  Kept5'
<1>1. /\ outbox' = outbox /\ accepted' = accepted /\ inflight' = inflight /\ toClient # <<>>
  <2>1. CASE ReceivesPublish
    BY <2>1 DEF ReceivesPublish, Receives, Hears
  <2>2. CASE ReceivesPubrel
    BY <2>2 DEF ReceivesPubrel, Receives, Hears
  <2>3. CASE ReceivesDisconnect
    BY <2>3 DEF ReceivesDisconnect, Receives, Hears
  <2> QED
    BY <2>1, <2>2, <2>3
<1>2. inflight' \subseteq inflight
  BY <1>1
<1>3. "PUBACK" \in {"PUBACK", "PUBREC", "PUBREL", "PUBCOMP"}
      /\ "PUBREC" \in {"PUBACK", "PUBREC", "PUBREL", "PUBCOMP"}
      /\ "PUBCOMP" \in {"PUBACK", "PUBREC", "PUBREL", "PUBCOMP"}
  OBVIOUS
<1>4. QuietWritten(meant', meant) /\ QuietHeard(toClient', toClient)
  <2>1. CASE ReceivesPublish
    <3>1. \/ Goes /\ NothingBack
          \/ WritesBack(mqtt5_msg_puback(InId), Ack("PUBACK", InId))
          \/ WritesBack(mqtt5_msg_pubrec(InId), Ack("PUBREC", InId))
          \/ AbortConnection /\ NothingBack
      <4>1. \E buffer, qos, heard : HearsPublish(buffer, qos, InId, heard)
        <5>1. \E buffer, id : id = InId /\ \E heard : HearsPublish(buffer, mqtt_get_qos(buffer), id, heard)
          BY <2>1, Zenon DEF ReceivesPublish
        <5> QED
          BY <5>1, Zenon
      <4> QED
        BY <4>1, Zenon DEF HearsPublish
    <3>2. CASE NothingBack /\ (Goes \/ AbortConnection)
      <4>1. meant' = meant
        BY <3>2 DEF NothingBack
      <4>2. toClient' = Tail(toClient) \/ toClient' = <<>>
        BY <3>2, Zenon DEF Goes, AbortConnection
      <4> QED
        BY <1>1, <4>1, <4>2, Zenon DEF QuietWritten, QuietHeard
    <3>3. CASE WritesBack(mqtt5_msg_puback(InId), Ack("PUBACK", InId))
      BY <1>1, <1>3, <3>3, BackIsQuiet, Zenon
    <3>4. CASE WritesBack(mqtt5_msg_pubrec(InId), Ack("PUBREC", InId))
      BY <1>1, <1>3, <3>4, BackIsQuiet, Zenon
    <3> QED
      BY <3>1, <3>2, <3>3, <3>4
  <2>2. CASE ReceivesPubrel
    BY <1>1, <1>3, <2>2, BackIsQuiet, Zenon DEF ReceivesPubrel, PubrelOf
  <2>3. CASE ReceivesDisconnect
    <3>1. meant' = meant /\ toClient' = Tail(toClient)
      BY <2>3 DEF ReceivesDisconnect, Goes
    <3> QED
      BY <1>1, <3>1, Zenon DEF QuietWritten, QuietHeard
  <2> QED
    BY <2>1, <2>2, <2>3
<1> QED
  BY <1>1, <1>2, <1>4, KeptQuiet, Zenon

\* The outbox goes on, and what is written before the rest is m.
LEMMA KeptMoves ==
    ASSUME Kept5, NEW m, IsSeq(m), Kinds(m, toClient, outbox'), GivenTo(outbox', accepted'),
           IsSeq(toClient), inflight' \subseteq accepted',
           QuietWritten(meant', m), QuietHeard(toClient', toClient)
    PROVE  Kept5'
<1>1. Kinds(meant', toClient', outbox')
  BY KindsQuiet, Zenon
<1> QED
  BY <1>1, Zenon DEF Kept5

\* What is found is deleted, and nothing else.
LEMMA DeleteEmbs ==
    ASSUME IInv, NEW id, NEW type, NEW n, n = outbox_delete(id, type)
    PROVE  n = outbox \/ Emb(n, outbox)
<1> DEFINE S == {i \in DOMAIN outbox : outbox[i].id = id /\ outbox[i].type = type}
           i == Oldest(S)
<1>1. n = IF i = 0 THEN outbox ELSE RemoveAt(outbox, i)
  BY Zenon DEF outbox_delete, Find
<1>2. S \in SUBSET (DOMAIN outbox)
  BY Zenon
<1> HIDE DEF S
<1>3. i # 0 => i \in DOMAIN outbox
  BY <1>2, Parts, OldestItem, Zenon
<1> HIDE DEF i
<1> QED
  BY <1>1, <1>3, Sequences, RemoveIs, Zenon

\* PUBACK, PUBCOMP, SUBACK and UNSUBACK.
LEMMA FinishKept ==
    ASSUME IInv, Kept5, NEW type, NEW initiator, NEW told, Finishes(type, initiator, told),
           Counted \/ NotCounted
    PROVE  Kept5'
<1>1. /\ accepted' = accepted /\ meant' = meant /\ toClient # <<>> /\ toClient' = Tail(toClient)
      /\ outbox' = outbox_delete(InId, initiator)
  BY DEF Finishes, Receives, Hears, Goes, FinishesId
<1>2. inflight' \subseteq inflight
  BY DEF Counted, NotCounted, esp_mqtt5_decrement_packet_counter
<1>3. Follows(outbox', outbox, last_message_id, accepted')
  <2>1. outbox' = outbox \/ Emb(outbox', outbox)
    BY <1>1, DeleteEmbs, Zenon
  <2>2. CASE outbox' = outbox
    BY <2>2, ItemsNow, Zenon DEF Follows, SameKind
  <2>3. CASE Emb(outbox', outbox)
    BY <2>3, ItemsNow, FollowsEmb, Zenon
  <2> QED
    BY <2>1, <2>2, <2>3
<1>4. accepted \subseteq accepted'
  BY <1>1
<1>5. Kinds(meant, toClient, outbox') /\ GivenTo(outbox', accepted')
  BY <1>3, <1>4, KeptFollows, Zenon
<1>6. QuietWritten(meant', meant) /\ QuietHeard(toClient', toClient)
  BY <1>1, Zenon DEF QuietWritten, QuietHeard
<1>7. inflight' \subseteq accepted'
  BY <1>1, <1>2 DEF Kept5
<1> QED
  BY <1>5, <1>6, <1>7, Sequences, KeptMoves, Zenon

\* An item is deleted for its age.
LEMMA ExpireKept ==
    ASSUME IInv, Kept5, NEW i \in DOMAIN outbox, Expire(i)
    PROVE  Kept5'
<1>1. /\ accepted' = accepted /\ meant' = meant /\ toClient' = toClient
      /\ inflight' = inflight /\ outbox' = RemoveAt(outbox, i)
  BY DEF Expire, network
<1>2. Emb(outbox', outbox)
  BY <1>1, Sequences, RemoveIs, Zenon
<1>3. Kinds(meant, toClient, outbox') /\ GivenTo(outbox', accepted')
  BY <1>1, <1>2, ItemsNow, FollowsEmb, KeptFollows, Zenon
<1> QED
  BY <1>1, <1>3, Zenon DEF Kept5

LEMMA AckKept ==
    ASSUME IInv, Kept5, ReceivesPuback \/ ReceivesPubcomp \/ ReceivesSuback \/ ReceivesUnsuback
    PROVE  Kept5'
<1>1. CASE ReceivesPuback
  BY <1>1, FinishKept, Zenon DEF ReceivesPuback
<1>2. CASE ReceivesPubcomp
  BY <1>2, FinishKept, Zenon DEF ReceivesPubcomp
<1>3. CASE ReceivesSuback
  BY <1>3, FinishKept, Zenon DEF ReceivesSuback
<1>4. CASE ReceivesUnsuback
  BY <1>4, FinishKept, Zenon DEF ReceivesUnsuback
<1> QED
  BY <1>1, <1>2, <1>3, <1>4

\* PUBREC: what it acknowledges is of QoS 2.
LEMMA PubrecKept ==
    ASSUME IInv, Kept5, ReceivesPubrec
    PROVE  Kept5'
<1> DEFINE id == InId
           S == {j \in DOMAIN outbox : outbox[j].id = id}
           k == Oldest(S)
           y == outbox[k]
           x == [y EXCEPT !.pending = "ACKNOWLEDGED"]
<1>1. /\ accepted' = accepted /\ inflight' = inflight /\ toClient # <<>>
      /\ mqtt_get_type(in) = PUBREC
      /\ WritesBack(mqtt5_msg_pubrel(id), Ack("PUBREL", id)) /\ SetsAcknowledged(id)
  BY DEF ReceivesPubrec, Receives, Hears, PubrecOf, in
<1>2. outbox' = [j \in DOMAIN outbox |-> IF j = k THEN x ELSE outbox[j]]
  <2>1. outbox' = [j \in DOMAIN outbox |->
                      IF j = k THEN [outbox[j] EXCEPT !.pending = "ACKNOWLEDGED"] ELSE outbox[j]]
    BY <1>1, Zenon DEF SetsAcknowledged
  <2> HIDE DEF k
  <2> QED
    BY <2>1
<1>3. OfQos2(outbox, id)
  <2>1. SaidType(toClient[1]) = PUBREC /\ SaidId(toClient[1]) = id /\ Shrunk(Tail(toClient), toClient)
    BY <1>1, FirstHeard, Zenon
  <2> QED
    BY <2>1, KindsHeardShrink, Zenon DEF TwoHeard, Kept5
<1>4. S \in SUBSET (DOMAIN outbox) /\ \A j \in DOMAIN outbox : j \in S => outbox[j].id = id
  BY Zenon
<1> HIDE DEF S
<1>5. k \in DOMAIN outbox => outbox[k].id = id
  <2>1. k \in S \/ (S = {} /\ k = 0 /\ 0 \notin DOMAIN outbox)
    BY <1>4, Parts, OldestItem, Zenon
  <2> QED
    BY <1>4, <2>1, Zenon
<1> HIDE DEF k, id
<1>6. ASSUME k \in DOMAIN outbox PROVE TwoItem(x) /\ SameKind(x, outbox[k])
  <2>1. DOMAIN y = Fields
    BY <1>6, Parts, Zenon DEF Items, ItemOK
  <2>2. x.id = y.id /\ x.type = y.type /\ x.qos = y.qos
    BY <2>1, Repended
  <2>3. y.type = PUBLISH /\ y.qos = 2
    BY <1>3, <1>5, <1>6, Zenon DEF OfQos2
  <2> HIDE DEF x
  <2> QED
    BY <2>2, <2>3, Zenon DEF TwoItem, SameKind
<1>7. Swapped(outbox', outbox, k, x)
  <2> HIDE DEF x
  <2> QED
    BY <1>2, Sequences, SwapIs
<1> HIDE DEF x, y
<1>8. Follows(outbox', outbox, last_message_id, accepted')
  BY <1>6, <1>7, ItemsNow, FollowsSwapped, Zenon
<1>9. accepted \subseteq accepted' /\ inflight' \subseteq accepted'
  BY <1>1 DEF Kept5
<1>10. Kinds(meant, toClient, outbox') /\ GivenTo(outbox', accepted')
  BY <1>8, <1>9, KeptFollows, Zenon
<1>11. QuietWritten(meant', meant) /\ QuietHeard(toClient', toClient)
  <2>1. "PUBREL" \in {"PUBACK", "PUBREC", "PUBREL", "PUBCOMP"}
    OBVIOUS
  <2> QED
    BY <1>1, <2>1, BackIsQuiet, Zenon
<1> QED
  BY <1>9, <1>10, <1>11, Sequences, KeptMoves, Zenon

\* Of a publication of QoS 2 in the outbox, every item with its identifier is one.
LEMMA TwoStored ==
    ASSUME IInv, NEW i \in DOMAIN outbox, outbox[i].type = PUBLISH, outbox[i].qos = 2
    PROVE  OfQos2(outbox, outbox[i].id)
<1>1. ItemOK(outbox[i], last_message_id)
      /\ \A k, l \in DOMAIN outbox : outbox[k].id = outbox[l].id /\ outbox[k].id # 0 => k = l
  BY Parts, Zenon DEF Items
<1>2. outbox[i].id # 0
  <2>1. 2 > 0 /\ ~(0 > 0)
    OBVIOUS
  <2> QED
    BY <1>1, <2>1, Zenon DEF ItemOK
<1> SUFFICES ASSUME NEW k \in DOMAIN outbox, outbox[k].id = outbox[i].id
             PROVE  outbox[k].type = PUBLISH /\ outbox[k].qos = 2
  BY Zenon DEF OfQos2
<1>3. k = i
  BY <1>1, <1>2, Zenon
<1> QED
  BY <1>3, Zenon

\* An item is sent, and stays as it is but for its state and its bytes, or goes.
LEMMA SentKept ==
    ASSUME IInv, Kept5, NEW i \in DOMAIN outbox, accepted' = accepted,
           Follows(outbox', outbox, last_message_id, accepted'),
           NEW r, outbox[i].type = PUBLISH => /\ r.qos = outbox[i].qos /\ r.id = outbox[i].id,
           outbox[i].type # PUBLISH => r.type # "PUBLISH"
    PROVE  /\ Kinds(Append(meant, r), toClient, outbox') /\ GivenTo(outbox', accepted')
           /\ IsSeq(Append(meant, r))
<1>1. Grown(Append(meant, r), meant, r) /\ IsSeq(Append(meant, r))
  BY Sequences, AppendIs, ZenonT(30) DEF Grown
<1>2. TwoMeant(r, outbox)
  <2>1. CASE outbox[i].type = PUBLISH
    BY <2>1, TwoStored, Zenon DEF TwoMeant
  <2>2. CASE outbox[i].type # PUBLISH
    BY <2>2, Zenon DEF TwoMeant
  <2> QED
    BY <2>1, <2>2
<1> DEFINE m == Append(meant, r)
<1>3. Kinds(m, toClient, outbox)
  BY <1>1, <1>2, KindsMeant, Zenon DEF Kept5
<1>4. \A k \in DOMAIN outbox' : TwoItem(outbox'[k])
  BY Zenon DEF Follows
<1>5. \A id \in 1..last_message_id : OfQos2(outbox, id) => OfQos2(outbox', id)
  <2> SUFFICES ASSUME NEW id \in 1..last_message_id, OfQos2(outbox, id)
               PROVE  OfQos2(outbox', id)
    BY Zenon
  <2> QED
    BY Zenon DEF OfQos2, Follows, FreshItem, SameKind
<1>6. accepted \subseteq accepted'
  OBVIOUS
<1>7. Kinds(meant, toClient, outbox') /\ GivenTo(outbox', accepted')
  BY <1>6, KeptFollows, Zenon
<1>8. TwoMeant(r, outbox')
  <2> SUFFICES ASSUME r.type = "PUBLISH", r.qos = 2 PROVE OfQos2(outbox', r.id)
    BY Zenon DEF TwoMeant
  <2>1. outbox[i].type = PUBLISH /\ r.qos = outbox[i].qos /\ r.id = outbox[i].id
    BY Zenon
  <2>2. ItemOK(outbox[i], last_message_id)
    BY Parts, Zenon DEF Items
  <2>3. r.id \in 0..last_message_id /\ (r.qos > 0 <=> r.id > 0)
    BY <2>1, <2>2, Zenon DEF ItemOK
  <2>4. r.id \in 1..last_message_id
    BY <2>3
  <2> QED
    BY <1>2, <1>5, <2>4, Zenon DEF TwoMeant
<1>9. Kinds(m, toClient, outbox')
  BY <1>1, <1>7, <1>8, KindsMeant, Zenon
<1> QED
  BY <1>1, <1>7, <1>9, Zenon

\* What was queued is sent.
LEMMA ResendKept ==
    ASSUME IInv, Kept5, ResendQueued
    PROVE  Kept5'
<1> DEFINE i == First("QUEUED")
           y == outbox[i]
           r == y.record
<1>1. /\ accepted' = accepted /\ toClient' = toClient /\ meant' = Append(meant, r)
      /\ outbox' = AfterResend(i) /\ i # 0
  BY DEF ResendQueued, Resends, Writes
<1>2. IF y.qos > 0
      THEN esp_mqtt5_increment_packet_counter(y.id, y.bytes[1])
      ELSE UNCHANGED <<send_publish_packet_count, inflight, uncounted>>
  BY Zenon DEF ResendQueued
<1>3. i \in DOMAIN outbox /\ y.pending = "QUEUED" /\ ItemOK(y, last_message_id)
  BY <1>1, FirstIs, Zenon
<1> HIDE DEF i
<1>4. y.type = PUBLISH
  BY <1>3, Zenon DEF ItemOK
<1>5. r.qos = y.qos /\ r.id = y.id /\ DOMAIN y = Fields /\ (y.qos > 0 <=> y.id > 0)
  BY <1>3, <1>4, Zenon DEF ItemOK
<1> DEFINE x == [y EXCEPT !.pending = "TRANSMITTED"]
<1>6. Emb(outbox', outbox) \/ Swapped(outbox', outbox, i, x)
  <2>1. CASE y.qos = 0
    <3>1. outbox' = RemoveAt(outbox, i)
      BY <1>1, <2>1, Zenon DEF AfterResend
    <3> QED
      BY <1>3, <3>1, Sequences, RemoveIs, Zenon
  <2>2. CASE y.qos # 0
    <3>1. outbox' = [outbox EXCEPT ![i] = x]
      BY <1>1, <2>2 DEF AfterResend
    <3> HIDE DEF x
    <3> QED
      BY <3>1, Sequences, ExceptIs, Zenon
  <2> QED
    BY <2>1, <2>2
<1>7. TwoItem(x) /\ SameKind(x, y)
  <2>1. x.pending = "TRANSMITTED" /\ x.id = y.id /\ x.type = y.type /\ x.qos = y.qos
    BY <1>5, Repended
  <2>2. "TRANSMITTED" # "ACKNOWLEDGED"
    OBVIOUS
  <2> HIDE DEF x
  <2> QED
    BY <2>1, <2>2, Zenon DEF TwoItem, SameKind
<1> HIDE DEF x, y
<1>8. Follows(outbox', outbox, last_message_id, accepted')
  <2>1. CASE Emb(outbox', outbox)
    BY <2>1, ItemsNow, FollowsEmb, Zenon
  <2>2. CASE Swapped(outbox', outbox, i, x)
    BY <1>7, <2>2, ItemsNow, FollowsSwapped, Zenon DEF y
  <2> QED
    BY <1>6, <2>1, <2>2
<1>9. /\ Kinds(Append(meant, r), toClient, outbox') /\ GivenTo(outbox', accepted')
      /\ IsSeq(Append(meant, r))
  BY <1>1, <1>3, <1>4, <1>5, <1>8, SentKept, Zenon DEF y
<1>10. inflight' \subseteq accepted'
  <2>1. CASE y.qos > 0
    <3>1. inflight' = inflight \cup {y.id}
      BY <1>2, <2>1, Zenon DEF esp_mqtt5_increment_packet_counter, y
    <3>2. y.id # 0
      <4>1. ~(0 > 0)
        OBVIOUS
      <4> QED
        BY <1>5, <2>1, <4>1, Zenon
    <3>3. y.id \in accepted
      BY <1>3, <1>4, <3>2, Zenon DEF Kept5, GivenTo, y
    <3> QED
      BY <1>1, <3>1, <3>3 DEF Kept5
  <2>2. CASE ~(y.qos > 0)
    <3>1. inflight' = inflight
      BY <1>2, <2>2 DEF y
    <3> QED
      BY <1>1, <3>1 DEF Kept5
  <2> QED
    BY <2>1, <2>2
<1> QED
  BY <1>1, <1>9, <1>10, Zenon DEF Kept5

\* The oldest message and the oldest PUBREL are sent again.
LEMMA RetransmitKept ==
    ASSUME IInv, Kept5, NEW publish, NEW pubrel, Retransmit(publish, pubrel)
    PROVE  Kept5'
<1> DEFINE i == Due(publish, "TRANSMITTED")
           j == Due(pubrel, "ACKNOWLEDGED")
           x == Again(i)
           y == outbox[i]
           id == outbox[j].id
           m == IF i = 0 THEN meant ELSE Append(meant, x.record)
<1>1. accepted' = accepted /\ toClient' = toClient
  BY DEF Retransmit, Resends
<1>2. RetransmitOf(i, j, x, Release(j))
  BY Zenon DEF Retransmit, RetransmitItems
<1>3. i = 0 \/ i = First("TRANSMITTED")
  BY Zenon DEF Due
<1> HIDE DEF i, j
<1>4. /\ outbox' = IF i = 0 THEN outbox ELSE [outbox EXCEPT ![i] = x]
      /\ meant' = meant \o (IF i = 0 THEN <<>> ELSE <<x.record>>)
                        \o (IF j = 0 THEN <<>> ELSE <<Ack("PUBREL", id)>>)
  BY <1>2, Zenon DEF RetransmitOf
<1>5. \/ i # 0 /\ x.type = PUBLISH /\ inflight' = inflight \cup {x.id}
      \/ inflight' = inflight
  BY <1>2 DEF RetransmitOf, esp_mqtt5_increment_packet_counter
<1>6. i # 0 => x = mqtt_set_dup(y)
  BY Zenon DEF Again
<1>7. i # 0 => i \in DOMAIN outbox /\ y.pending = "TRANSMITTED"
               /\ ItemOK(y, last_message_id) /\ ItemCarries(y)
  BY <1>3, FirstIs, Zenon
<1> HIDE DEF x
<1>8. /\ Kinds(m, toClient, outbox') /\ GivenTo(outbox', accepted') /\ IsSeq(m)
      /\ inflight' \subseteq accepted'
  <2>1. CASE i = 0
    <3>1. outbox' = outbox /\ m = meant /\ inflight' = inflight
      BY <1>4, <1>5, <2>1, Zenon
    <3> QED
      BY <1>1, <3>1, Sequences, Zenon DEF Kept5
  <2>2. CASE i # 0
    <3>1. /\ i \in DOMAIN outbox /\ y.pending = "TRANSMITTED" /\ x = mqtt_set_dup(y)
          /\ ItemOK(y, last_message_id) /\ ItemCarries(y)
      BY <1>6, <1>7, <2>2, Zenon
    <3>2. last_message_id \in Nat
      BY Parts, Zenon
    <3> HIDE DEF y
    <3>3. /\ ItemOK(x, last_message_id) /\ Like(x, y) /\ x.pending = "TRANSMITTED"
          /\ x.type = y.type
      BY <3>1, <3>2, AgainIs, Zenon
    <3>4. /\ x.type = PUBLISH =>
                /\ x.record.type = "PUBLISH" /\ x.record.qos = x.qos /\ x.record.id = x.id
                /\ x.qos > 0 /\ x.id \in 1..last_message_id
          /\ x.type # PUBLISH => ~Token(x.record) /\ x.record.type # "PUBLISH"
      <4>1. x.type # PUBLISH => x.record.type \in {"SUBSCRIBE", "UNSUBSCRIBE"}
        BY <3>3, Zenon DEF ItemOK
      <4>2. x.type # PUBLISH => x.record.type # "PUBLISH"
        BY <4>1
      <4> QED
        BY <3>2, <3>3, <4>2, AgainMeans, Zenon
    <3>5. x.id = y.id /\ x.qos = y.qos
      BY <3>3, Zenon DEF Like
    <3>6. TwoItem(x) /\ SameKind(x, y)
      <4>1. "TRANSMITTED" # "ACKNOWLEDGED"
        OBVIOUS
      <4> QED
        BY <3>3, <3>5, <4>1, Zenon DEF TwoItem, SameKind
    <3>7. Swapped(outbox', outbox, i, x)
      <4>1. outbox' = [outbox EXCEPT ![i] = x]
        BY <1>4, <2>2, Zenon
      <4> QED
        BY <4>1, Sequences, ExceptIs, Zenon
    <3>8. Follows(outbox', outbox, last_message_id, accepted')
      BY <3>6, <3>7, ItemsNow, FollowsSwapped, Zenon DEF y
    <3> DEFINE r == x.record
    <3>9. outbox[i].type = PUBLISH => r.qos = outbox[i].qos /\ r.id = outbox[i].id
      BY <3>3, <3>4, <3>5, Zenon DEF y
    <3>10. outbox[i].type # PUBLISH => r.type # "PUBLISH"
      BY <3>3, <3>4, Zenon DEF y
    <3> HIDE DEF r
    <3>11. /\ Kinds(Append(meant, r), toClient, outbox') /\ GivenTo(outbox', accepted')
           /\ IsSeq(Append(meant, r))
      BY <1>1, <3>1, <3>8, <3>9, <3>10, SentKept, Zenon
    <3>12. m = Append(meant, r)
      BY <2>2 DEF r
    <3>13. inflight' \subseteq accepted'
      <4>1. CASE x.type = PUBLISH /\ inflight' = inflight \cup {x.id}
        <5>1. x.id # 0
          <6>1. x.id \in 1..last_message_id
            BY <3>4, <4>1, Zenon
          <6> QED
            BY <6>1
        <5>2. x.id \in accepted
          BY <3>1, <3>3, <3>5, <4>1, <5>1, Zenon DEF Kept5, GivenTo, y
        <5> QED
          BY <1>1, <4>1, <5>2 DEF Kept5
      <4>2. CASE inflight' = inflight
        BY <1>1, <4>2 DEF Kept5
      <4> QED
        BY <1>5, <4>1, <4>2
    <3> HIDE DEF m
    <3> QED
      BY <3>11, <3>12, <3>13, Zenon
  <2> QED
    BY <2>1, <2>2
<1>9. QuietWritten(meant', m)
  <2> DEFINE ack == Ack("PUBREL", id)
  <2>1. meant' = m \o (IF j = 0 THEN <<>> ELSE <<ack>>)
    <3>1. CASE i = 0
      BY <1>4, <3>1, Sequences, ConcatIs, Zenon
    <3>2. CASE i # 0
      <4>1. meant \o <<x.record>> = Append(meant, x.record)
        BY Sequences, ConcatIs, Zenon
      <4> QED
        BY <1>4, <3>2, <4>1, Zenon
    <3> QED
      BY <3>1, <3>2
  <2>2. ack.type # "PUBLISH"
    BY DEF Ack
  <2> HIDE DEF ack, m
  <2>3. meant' = m \/ meant' = Append(m, ack)
    BY <1>8, <2>1, ConcatIs, Zenon
  <2> QED
    BY <2>2, <2>3, Zenon DEF QuietWritten
<1>10. QuietHeard(toClient', toClient)
  BY <1>1, Zenon DEF QuietHeard
<1> HIDE DEF m
<1> QED
  BY <1>8, <1>9, <1>10, Sequences, KeptMoves, Zenon

\* What the broker sends of its own: a PUBLISH is one of its messages.
LEMMA SendsKept ==
    ASSUME IInv, Kept5, NEW bytes, NEW record, BrokerSends(bytes, record),
           NEW type \in 0..15, FromBroker(bytes, type), type # PUBREC,
           type = PUBLISH => Message5(bytes)
    PROVE  Kept5'
<1> DEFINE x == [bytes |-> bytes, meant |-> record]
<1>1. /\ outbox' = outbox /\ accepted' = accepted /\ inflight' = inflight /\ meant' = meant
      /\ toClient' = Append(toClient, x)
  BY DEF BrokerSends, client, history
<1>2. x.bytes = bytes
  OBVIOUS
<1> HIDE DEF x
<1>3. SaidType(x) = type
  BY <1>2, TypeSaid, Zenon DEF SaidType
<1>4. TwoHeard(x, outbox)
  BY <1>2, <1>3, Zenon DEF TwoHeard
<1>5. Grown(toClient', toClient, x)
  BY <1>1, Sequences, AppendIs, Zenon
<1>6. Kinds(meant', toClient', outbox')
  BY <1>1, <1>4, <1>5, KindsHeard, Zenon DEF Kept5
<1> QED
  BY <1>1, <1>6, Zenon DEF Kept5

LEMMA BrokerPublishesKept ==
    ASSUME IInv, Kept5, messages \in Nat, NEW m \in Messages, BrokerPublishes(m)
    PROVE  Kept5'
<1> DEFINE id == IF m.qos = 0 THEN 0 ELSE messages + 1
           alias == m.property.topic_alias
           topic == IF m.topic = <<>> THEN given[alias] ELSE m.topic
           record == [type |-> "PUBLISH", qos |-> m.qos, retain |-> m.retain, id |-> id,
                      topic |-> topic, property |-> m.property, data |-> m.data]
<1>1. BrokerSends(SendPublish(m, id), record)
  BY Zenon DEF BrokerPublishes
<1> HIDE DEF record
<1>2. id \in Nat
  OBVIOUS
<1>3. m \in MessageType
  BY Mqtt5DataAssumption
<1> HIDE DEF id
<1>4. /\ DOMAIN m = {"topic", "data", "qos", "retain", "property"}
      /\ m.topic \in Seq(Byte) /\ m.data \in Seq(Byte) /\ m.qos \in 0..2
      /\ m.property \in esp_mqtt5_publish_property_config_t
  BY <1>3 DEF MessageType
<1>5. FromBroker(SendPublish(m, id), PUBLISH)
  BY <1>2, <1>4, PublishSays
<1>6. PUBLISH \in 0..15 /\ PUBLISH # PUBREC
  BY DEF PUBLISH, PUBREC
<1>7. Message5(SendPublish(m, id))
  BY <1>2, Zenon DEF Message5
<1> QED
  BY <1>1, <1>5, <1>6, <1>7, SendsKept

LEMMA BrokerDisconnectsKept ==
    ASSUME IInv, Kept5, BrokerDisconnects
    PROVE  Kept5'
<1>1. BrokerSends(SendDisconnect(139), [type |-> "DISCONNECT", reason_code |-> 139])
  BY Zenon DEF BrokerDisconnects
<1>2. DISCONNECT \in 0..15 /\ DISCONNECT # PUBREC /\ DISCONNECT # PUBLISH
  BY DEF DISCONNECT, PUBREC, PUBLISH
<1> QED
  BY <1>1, <1>2, DisconnectSays, SendsKept

\* What the broker answers is no PUBLISH, and PUBREC only a publication of QoS 2.
AnswersKind(x, q) ==
    SaidType(x) # PUBLISH /\ (SaidType(x) = PUBREC =>
                                 q.type = "PUBLISH" /\ q.qos = 2 /\ SaidId(x) = q.id)

LEMMA ReplyKind ==
    ASSUME NEW q, NEW last, MeantOK(q, last), NEW r, Heads(r, q)
    PROVE  ReplyTo(r) = <<>> \/ \E x : ReplyTo(r) = <<x>> /\ AnswersKind(x, q)
<1>1. r.type = q.type /\ (q.type = "PUBLISH" => r.qos = q.qos /\ r.id = q.id)
      /\ (q.type \in Numbered => r.id = q.id)
  BY Zenon DEF Heads
<1>2. {"PUBREC", "PUBREL", "SUBSCRIBE", "UNSUBSCRIBE"} \subseteq Numbered
  BY DEF Numbered
<1>3. ASSUME NEW name \in DOMAIN AnswerCode, NEW id \in Nat, ReplyTo(r) = Reply(name, id),
             name = "PUBREC" => q.type = "PUBLISH" /\ q.qos = 2 /\ id = q.id
      PROVE  \E x : ReplyTo(r) = <<x>> /\ AnswersKind(x, q)
  <2>1. PICK x : Reply(name, id) = <<x>> /\ AnswersWith(x, AnswerCode[name], id)
    BY ReplySays, Zenon
  <2>2. SaidType(x) = AnswerCode[name] /\ SaidId(x) = id
    BY <2>1, Zenon DEF AnswersWith
  <2>3. AnswerCode[name] # PUBLISH /\ (AnswerCode[name] = PUBREC => name = "PUBREC")
    BY DEF AnswerCode, PUBLISH, PUBREC
  <2>4. AnswersKind(x, q)
    <3> DEFINE code == AnswerCode[name]
    <3>1. SaidType(x) = code /\ code # PUBLISH /\ (code = PUBREC => name = "PUBREC")
      BY <2>2, <2>3
    <3> HIDE DEF code
    <3> QED
      BY <1>3, <2>2, <3>1 DEF AnswersKind
  <2> QED
    BY <1>3, <2>1, <2>4
<1>4. q.type = "PUBLISH" /\ q.qos > 0 => q.id \in Nat
  <2>1. 1..last \subseteq Nat
    OBVIOUS
  <2> QED
    BY <2>1, Zenon DEF MeantOK, Token
<1>5. q.type = "PUBREL" => q.id \in Nat
  <2>1. 1..last \subseteq Nat
    OBVIOUS
  <2> QED
    BY <2>1, Zenon DEF MeantOK, Token
<1>6. q.type \in {"PUBREC", "SUBSCRIBE", "UNSUBSCRIBE"} => q.id \in Nat
  BY Zenon DEF MeantOK
<1>7. /\ "PUBACK" \in DOMAIN AnswerCode /\ "PUBREC" \in DOMAIN AnswerCode
      /\ "PUBREL" \in DOMAIN AnswerCode /\ "PUBCOMP" \in DOMAIN AnswerCode
      /\ "SUBACK" \in DOMAIN AnswerCode /\ "UNSUBACK" \in DOMAIN AnswerCode
      /\ "PUBACK" # "PUBREC" /\ "PUBREL" # "PUBREC" /\ "PUBCOMP" # "PUBREC"
      /\ "SUBACK" # "PUBREC" /\ "UNSUBACK" # "PUBREC"
  BY NamesAre
<1>8. CASE q.type = "PUBLISH" /\ q.qos = 1
  <2>1. ReplyTo(r) = Reply("PUBACK", q.id) /\ 1 > 0
    BY <1>1, <1>8 DEF ReplyTo
  <2> QED
    BY <1>3, <1>4, <1>7, <1>8, <2>1, Zenon
<1>9. CASE q.type = "PUBLISH" /\ q.qos = 2
  <2>1. ReplyTo(r) = Reply("PUBREC", q.id) /\ 2 > 0
    BY <1>1, <1>9 DEF ReplyTo
  <2> QED
    BY <1>3, <1>4, <1>7, <1>9, <2>1, Zenon
<1>10. CASE q.type = "PUBREL"
  <2>1. ReplyTo(r) = Reply("PUBCOMP", q.id)
    BY <1>1, <1>2, <1>10, TypesDiffer DEF ReplyTo
  <2>2. q.id \in Nat
    BY <1>5, <1>10
  <2> QED
    BY <1>3, <1>7, <2>1, <2>2, Zenon
<1>11. CASE q.type = "PUBREC"
  <2>1. ReplyTo(r) = Reply("PUBREL", q.id)
    BY <1>1, <1>2, <1>11, TypesDiffer DEF ReplyTo
  <2>2. q.id \in Nat
    BY <1>6, <1>11
  <2> QED
    BY <1>3, <1>7, <2>1, <2>2, Zenon
<1>12. CASE q.type = "SUBSCRIBE"
  <2>1. ReplyTo(r) = Reply("SUBACK", q.id)
    BY <1>1, <1>2, <1>12, TypesDiffer DEF ReplyTo
  <2>2. q.id \in Nat
    BY <1>6, <1>12
  <2> QED
    BY <1>3, <1>7, <2>1, <2>2, Zenon
<1>13. CASE q.type = "UNSUBSCRIBE"
  <2>1. ReplyTo(r) = Reply("UNSUBACK", q.id)
    BY <1>1, <1>2, <1>13, TypesDiffer DEF ReplyTo
  <2>2. q.id \in Nat
    BY <1>6, <1>13
  <2> QED
    BY <1>3, <1>7, <2>1, <2>2, Zenon
<1>14. CASE /\ q.type \notin {"PUBREL", "PUBREC", "SUBSCRIBE", "UNSUBSCRIBE"}
            /\ q.type = "PUBLISH" => q.qos # 1 /\ q.qos # 2
  <2>1. ReplyTo(r) = <<>>
    BY <1>1, <1>14 DEF ReplyTo
  <2> QED
    BY <2>1, Zenon
<1> QED
  BY <1>8, <1>9, <1>10, <1>11, <1>12, <1>13, <1>14

\* The broker takes a message and answers it.
LEMMA BrokerReadsKept ==
    ASSUME IInv, Kept5, BrokerReads
    PROVE  Kept5'
<1> DEFINE q == meant[1]
           m == Tail(meant)
<1>1. /\ HasMessage(toBroker) /\ meant' = IF meant = <<>> THEN meant ELSE m
      /\ outbox' = outbox /\ accepted' = accepted /\ inflight' = inflight
  BY DEF BrokerReads, BrokerMayRead, client, history
<1>2. PICK r : r = Reading(FirstMessage(toBroker), known) /\ BrokerActs(r)
  BY Zenon DEF BrokerReads
<1>3. meant # <<>> /\ Heads(r, q) /\ Shrunk(m, meant)
  BY <1>1, <1>2, Taken, Zenon
<1>4. meant' = m
  BY <1>1, <1>3, Zenon
<1>5. MeantOK(q, last_message_id)
  BY <1>3, Parts, MeaningsShrink, Zenon
<1>6. Kinds(m, toClient, outbox) /\ TwoMeant(q, outbox)
  BY <1>3, KindsMeantShrink, Zenon DEF Kept5
<1>7. \E answer : /\ Sends(answer)
                  /\ answer = <<>> \/ \E x : answer = <<x>> /\ AnswersKind(x, q)
  <2>1. CASE Sends(ReplyTo(r))
    BY <1>3, <1>5, <2>1, ReplyKind, Zenon
  <2>2. CASE AcceptsOrRefuses(r)
    <3>1. PICK answer \in Answers : Sends(SaysTo(r, answer))
      BY <2>2, Zenon DEF AcceptsOrRefuses
    <3>2. PICK x : SaysTo(r, answer) = <<x>> /\ FromBroker(x.bytes, CONNACK)
      BY SaysToSays, Zenon
    <3>3. CONNACK \in 0..15 /\ CONNACK # PUBREC /\ CONNACK # PUBLISH
      BY DEF CONNACK, PUBREC, PUBLISH
    <3>4. SaidType(x) = CONNACK
      BY <3>2, <3>3, TypeSaid, Zenon DEF SaidType
    <3>5. AnswersKind(x, q)
      BY <3>3, <3>4, Zenon DEF AnswersKind
    <3> QED
      BY <3>1, <3>2, <3>5, Zenon
  <2> QED
    BY <1>2, <2>1, <2>2, Zenon DEF BrokerActs
<1>8. PICK answer : /\ Sends(answer)
                    /\ answer = <<>> \/ \E x : answer = <<x>> /\ AnswersKind(x, q)
  BY <1>7, Zenon
<1> HIDE DEF q, m
<1>9. Kinds(m, toClient', outbox)
  <2>1. CASE state = "down"
    <3>1. toClient' = <<>>
      BY <1>8, <2>1, Zenon DEF Sends
    <3> QED
      BY <1>6, <3>1, EmptyIs, Zenon DEF Kinds
  <2>2. CASE state # "down" /\ answer = <<>>
    <3>1. toClient' = toClient
      BY <1>8, <2>2, Sequences, ConcatIs, Zenon DEF Sends
    <3> QED
      BY <1>6, <3>1, Zenon
  <2>3. CASE state # "down" /\ \E x : answer = <<x>> /\ AnswersKind(x, q)
    <3>1. PICK x : answer = <<x>> /\ AnswersKind(x, q)
      BY <2>3, Zenon
    <3>2. toClient' = toClient \o <<x>>
      BY <1>8, <2>3, <3>1, Zenon DEF Sends
    <3>3. Grown(toClient', toClient, x)
      BY <3>2, Sequences, ConcatIs, AppendIs, ZenonT(30)
    <3>4. TwoHeard(x, outbox)
      BY <1>6, <3>1, Zenon DEF AnswersKind, TwoHeard, TwoMeant
    <3> QED
      BY <1>6, <3>3, <3>4, KindsHeard, Zenon
  <2> QED
    BY <1>8, <2>1, <2>2, <2>3
<1> QED
  BY <1>1, <1>4, <1>9, Zenon DEF Kept5

\* Every step keeps it,
LEMMA KeptStep ==
    ASSUME IInv, Kept5, messages \in Nat, Next
    PROVE  Kept5'
<1>1. CASE Call
  BY <1>1, CallKept, Zenon
<1>2. CASE Connect
  BY <1>2, ConnectKept, Zenon
<1>3. CASE Receive
  BY <1>3, ConnAckKept, AnswerKept, AckKept, PubrecKept, Zenon DEF Receive
<1>4. CASE ResendQueued
  BY <1>4, ResendKept, Zenon
<1>5. CASE \E publish, pubrel \in BOOLEAN : Retransmit(publish, pubrel)
  BY <1>5, RetransmitKept, Zenon
<1>6. CASE LinkFails \/ LinkCloses
  BY <1>6, LinkKept, Zenon DEF LinkFails, LinkCloses
<1>7. CASE BrokerReads
  BY <1>7, BrokerReadsKept, Zenon
<1>8. CASE \E m \in Messages : BrokerPublishes(m)
  BY <1>8, BrokerPublishesKept, Zenon
<1>9. CASE BrokerDisconnects
  BY <1>9, BrokerDisconnectsKept, Zenon
<1>10. CASE \E i \in DOMAIN outbox : Expire(i)
  BY <1>10, ExpireKept, Zenon
<1> QED
  BY <1>1, <1>2, <1>3, <1>4, <1>5, <1>6, <1>7, <1>8, <1>9, <1>10, Zenon DEF Next

\* ... and so does none.
LEMMA KeptStutters ==
    ASSUME Kept5, UNCHANGED vars
    PROVE  Kept5'
<1>1. /\ meant' = meant /\ toClient' = toClient /\ outbox' = outbox
      /\ accepted' = accepted /\ inflight' = inflight
  BY DEF vars, client, network, history
<1> QED
  BY <1>1, Zenon DEF Kept5

\* The counter and the offset of a long message have their range.
Ranges5 ==
    /\ send_publish_packet_count \in 0..(last_message_id + 1)
    /\ fragmented_msg_data_offset \in 0..OutLength

\* What a step does to them: it counts only while connected, and only a call
\* while not leaves an offset.
LastGoesOn == last_message_id' = last_message_id \/ last_message_id' = last_message_id + 1
Moves5 ==
    /\ LastGoesOn
    /\ state' = "CONNECTED" \/ send_publish_packet_count' = send_publish_packet_count
    /\ \/ state' # "down"
       \/ fragmented_msg_data_offset' = fragmented_msg_data_offset
       \/ fragmented_msg_data_offset' = 0
       \/ \E p \in Publications \cup Stored : Enqueue(p)

\* What esp_mqtt5_client_set_disconnect_property makes of a call is again one.
LEMMA SetDisconnect ==
    ASSUME NEW d \in Disconnections
    PROVE  esp_mqtt5_client_set_disconnect_property(NoDisconnectProperty, d)
             \in esp_mqtt5_disconnect_property_config_t
<1>1. d \in esp_mqtt5_disconnect_property_config_t
  BY Mqtt5DataAssumption
<1>2. NoDisconnectProperty \in esp_mqtt5_disconnect_property_config_t
  <2>1. <<>> \in Seq(esp_mqtt5_user_property_item_t)
    OBVIOUS
  <2> HIDE DEF esp_mqtt5_user_property_item_t
  <2> QED
    BY <2>1 DEF NoDisconnectProperty, esp_mqtt5_disconnect_property_config_t, Byte
<1> DEFINE n == Merged(NoDisconnectProperty, d, NoDisconnectProperty)
<1>3. n \in esp_mqtt5_disconnect_property_config_t
  BY <1>1, <1>2 DEF Merged, esp_mqtt5_disconnect_property_config_t
<1> QED
  BY <1>3, Zenon DEF esp_mqtt5_client_set_disconnect_property

\* A call,
LEMMA CallMoves ==
    ASSUME IInv, Call
    PROVE  Moves5
<1>1. last_message_id \in Nat
  BY Parts, Zenon
<1>2. ASSUME NEW n, last_message_id' = last_message_id + IF n > 0 THEN 1 ELSE 0
      PROVE  LastGoesOn
  <2>1. last_message_id + 0 = last_message_id
    BY <1>1
  <2> QED
    BY <1>2, <2>1 DEF LastGoesOn
<1>3. ASSUME NEW p \in Publications, Publish(p) PROVE Moves5
  <2>1. state' = "CONNECTED" /\ state' # "down"
    BY <1>3 DEF Publish
  <2>2. last_message_id' = last_message_id + IF p.qos > 0 THEN 1 ELSE 0
    BY <1>3, Zenon DEF Publish, PublishMessage, Enqueues
  <2> QED
    BY <1>2, <2>1, <2>2, Zenon DEF Moves5
<1>4. ASSUME NEW p \in Publications \cup Stored, Enqueue(p) PROVE Moves5
  <2>1. last_message_id' = last_message_id + IF p.qos > 0 THEN 1 ELSE 0
    BY <1>4, Zenon DEF Enqueue, EnqueueMessage, Enqueues
  <2>2. send_publish_packet_count' = send_publish_packet_count
    BY <1>4 DEF Enqueue
  <2> QED
    BY <1>2, <1>4, <2>1, <2>2, Zenon DEF Moves5
<1>5. ASSUME NEW type, NEW message, NEW r, Requests(type, message, r) PROVE Moves5
  <2>1. state' = "CONNECTED" /\ state' # "down" /\ last_message_id' = last_message_id + 1
    BY <1>5 DEF Requests
  <2> QED
    BY <2>1, Zenon DEF Moves5, LastGoesOn
<1>6. ASSUME NEW s \in Subscriptions, esp_mqtt_client_subscribe(s) PROVE Moves5
  BY <1>5, <1>6, Zenon DEF esp_mqtt_client_subscribe, SubscribeMessage
<1>7. ASSUME NEW u \in Unsubscriptions, esp_mqtt_client_unsubscribe(u) PROVE Moves5
  BY <1>5, <1>7, Zenon DEF esp_mqtt_client_unsubscribe
<1>8. ASSUME NEW d \in Disconnections, Disconnect(d) PROVE Moves5
  <2> DEFINE message == mqtt5_msg_disconnect(
                            esp_mqtt5_client_set_disconnect_property(NoDisconnectProperty, d))
  <2>1. /\ state = "CONNECTED" /\ send_publish_packet_count' = send_publish_packet_count
        /\ last_message_id' = last_message_id
    BY <1>8 DEF Disconnect
  <2>2. message # Failed /\ fragmented_msg_data_offset' = AfterBuilding(message)
    BY <1>8, Zenon DEF Disconnect, DisconnectMessage
  <2>3. fragmented_msg_data_offset = 0
    BY <2>1, Parts, Differ, Zenon
  <2>4. AfterBuilding(message) = 0
    <3>1. esp_mqtt5_client_set_disconnect_property(NoDisconnectProperty, d)
            \in esp_mqtt5_disconnect_property_config_t
      BY SetDisconnect
    <3>2. \E r : r.type = "DISCONNECT"
      <4>1. [type |-> "DISCONNECT"].type = "DISCONNECT"
        OBVIOUS
      <4> QED
        BY <4>1, Zenon
    <3>3. PICK r : r.type = "DISCONNECT"
      BY <3>2, Zenon
    <3>4. Carries(message, r)
      BY <2>2, <3>1, <3>3, DisconnectCarries
    <3> HIDE DEF message
    <3> QED
      BY <2>3, <3>4, AfterBuildingIs, Zenon
  <2> QED
    BY <2>1, <2>2, <2>4, Zenon DEF Moves5, LastGoesOn
<1> QED
  BY <1>3, <1>4, <1>6, <1>7, <1>8, Zenon DEF Call, PublishOffline

\* ... and any step.
LEMMA NextMoves ==
    ASSUME IInv, Next
    PROVE  Moves5
<1> DEFINE Still == /\ last_message_id' = last_message_id
                    /\ send_publish_packet_count' = send_publish_packet_count
                    /\ fragmented_msg_data_offset' = fragmented_msg_data_offset
<1>1. Still => Moves5
  BY Zenon DEF Moves5, LastGoesOn
<1>2. ASSUME last_message_id' = last_message_id, state' = "CONNECTED" PROVE Moves5
  <2>1. state' # "down"
    BY <1>2
  <2> QED
    BY <1>2, <2>1, Zenon DEF Moves5, LastGoesOn
<1>3. CASE Call
  BY <1>3, CallMoves, Zenon
<1>4. CASE Connect
  <2>1. /\ last_message_id' = last_message_id /\ fragmented_msg_data_offset' = 0
        /\ send_publish_packet_count' = send_publish_packet_count
    BY <1>4 DEF Connect
  <2> QED
    BY <2>1, Zenon DEF Moves5, LastGoesOn
<1>5. CASE ReceivesConnAck
  <2>1. last_message_id' = last_message_id /\ fragmented_msg_data_offset' = fragmented_msg_data_offset
    BY <1>5 DEF ReceivesConnAck
  <2>2. state' = "CONNECTED" \/ send_publish_packet_count' = send_publish_packet_count
    BY <1>5 DEF ReceivesConnAck, HearsConnAck
  <2> QED
    BY <2>1, <2>2, Zenon DEF Moves5, LastGoesOn
<1>6. CASE ReceivesPublish
  <2>1. /\ state = "CONNECTED" /\ last_message_id' = last_message_id
        /\ send_publish_packet_count' = send_publish_packet_count
    BY <1>6 DEF ReceivesPublish, Receives
  <2>2. state' = state \/ fragmented_msg_data_offset' = fragmented_msg_data_offset
    BY <1>6 DEF ReceivesPublish, HearsPublish, WritesBack, Goes, NothingBack
  <2> QED
    BY <1>1, <1>2, <2>1, <2>2, Zenon
<1>7. ASSUME NEW type, Receives(type), Goes PROVE Moves5
  <2>1. state' = "CONNECTED" /\ last_message_id' = last_message_id
    BY <1>7 DEF Receives, Goes
  <2> QED
    BY <1>2, <2>1, Zenon
<1>8. CASE ReceivesPuback \/ ReceivesPubcomp \/ ReceivesSuback \/ ReceivesUnsuback
  BY <1>7, <1>8, Zenon DEF ReceivesPuback, ReceivesPubcomp, ReceivesSuback, ReceivesUnsuback,
                           Finishes
<1>9. CASE ReceivesPubrec \/ ReceivesPubrel \/ ReceivesDisconnect
  BY <1>7, <1>9, Zenon DEF ReceivesPubrec, ReceivesPubrel, ReceivesDisconnect, PubrecOf,
                           PubrelOf, WritesBack
<1>10. CASE ResendQueued \/ \E publish, pubrel \in BOOLEAN : Retransmit(publish, pubrel)
  <2>1. Resends
    BY <1>10, Zenon DEF ResendQueued, Retransmit
  <2>2. state' = "CONNECTED" /\ last_message_id' = last_message_id
    BY <2>1 DEF Resends
  <2> QED
    BY <1>2, <2>2, Zenon
<1>11. CASE LinkFails \/ LinkCloses
  <2>1. LinkGoes
    BY <1>11, Zenon DEF LinkFails, LinkCloses
  <2>2. Still
    BY <2>1 DEF LinkGoes
  <2> QED
    BY <1>1, <2>2, Zenon
<1>12. CASE BrokerReads
  <2>1. Still
    BY <1>12 DEF BrokerReads, client
  <2> QED
    BY <1>1, <2>1, Zenon
<1>13. ASSUME NEW bytes, NEW record, BrokerSends(bytes, record) PROVE Moves5
  <2>1. Still
    BY <1>13 DEF BrokerSends, client
  <2> QED
    BY <1>1, <2>1, Zenon
<1>14. CASE (\E m \in Messages : BrokerPublishes(m)) \/ BrokerDisconnects
  BY <1>13, <1>14, Zenon DEF BrokerPublishes, BrokerDisconnects
<1>15. CASE \E i \in DOMAIN outbox : Expire(i)
  <2>1. Still
    BY <1>15 DEF Expire
  <2> QED
    BY <1>1, <2>1, Zenon
<1> QED
  BY <1>3, <1>4, <1>5, <1>6, <1>8, <1>9, <1>10, <1>11, <1>12, <1>14, <1>15, Zenon
     DEF Next, Receive

\* A little less is no more,
LEMMA Nearer5 ==
    ASSUME NEW a \in Nat, NEW b \in 0..3, NEW k \in Nat, a <= k
    PROVE  a - b \in Int /\ a - b <= k
OBVIOUS

\* ... nor if it is cut off at 0.
LEMMA Clipped5 ==
    ASSUME NEW x \in Int, NEW k \in Nat, x <= k
    PROVE  NotNegative(x) \in 0..k
BY NotNegativeIs

\* What a message that is kept leaves of the offset.
LEMMA EnqueueOffset ==
    ASSUME IInv, fragmented_msg_data_offset \in 0..OutLength,
           NEW p \in Publications \cup Stored, Enqueue(p)
    PROVE  fragmented_msg_data_offset' \in 0..OutLength
<1> DEFINE id == last_message_id + 1
           offset == fragmented_msg_data_offset
           header == PublishHeader(p.topic, p.qos, id, p.property, server.response_info)
           H == Len(header)
           D == Len(p.data)
           room == OutLength - MQTT5_MAX_FIXED_HEADER_SIZE - H
           long == D > room
           lens == EncodedLens(H + D)
           offs == MQTT5_MAX_FIXED_HEADER_SIZE - 1 - Len(lens)
           m == make_publish(p)
           far == MQTT5_MAX_FIXED_HEADER_SIZE + H
           x == (IF long THEN far ELSE offset) - offs
<1>1. m.message # Failed /\ offset' = NotNegative(m.offset)
  BY Zenon DEF Enqueue, EnqueueMessage, Publishable
<1>2. /\ p.topic \in Seq(Byte) /\ p.data \in Seq(Byte) /\ p.qos \in 0..2
      /\ p.property \in esp_mqtt5_publish_property_config_t
  <2>1. p \in PublicationType
    BY Mqtt5DataAssumption
  <2> QED
    BY <2>1, Zenon DEF PublicationType
<1>3. id \in Nat /\ server.response_info \in Seq(Nat)
  <2>1. last_message_id \in Nat /\ server.response_info \in Seq(Nat)
    BY Parts, Zenon
  <2> QED
    BY <2>1
<1>4. p.topic \in Seq(Nat) /\ p.data \in Seq(Nat)
  BY <1>2, Wide
<1> HIDE DEF id
<1>5. H \in Nat /\ D \in Nat
  <2>1. header \in Seq(Nat)
    BY <1>2, <1>3, <1>4, Header5
  <2> HIDE DEF header
  <2> QED
    BY <1>4, <2>1, Len5
<1>6. Fits(header) /\ m.offset = x
  <2>1. m = mqtt5_msg_publish(p.topic, p.data, p.qos, p.retain, id, p.property,
                              server.response_info, offset)
    BY Zenon DEF make_publish, id
  <2> HIDE DEF m
  <2>2. m = IF (p.topic = <<>> /\ p.property.topic_alias = 0) \/ ~Fits(header)
            THEN [message |-> Failed, fragmented |-> FALSE, offset |-> offset]
            ELSE [message |-> <<16 * PUBLISH + 2 * p.qos + IF p.retain THEN 1 ELSE 0>>
                                \o lens \o header
                                \o (IF long THEN SubSeq(p.data, 1, room) ELSE p.data),
                  fragmented |-> long, offset |-> x]
    BY <2>1, Zenon DEF mqtt5_msg_publish, PublishHeader
  <2> DEFINE bytes == <<16 * PUBLISH + 2 * p.qos + IF p.retain THEN 1 ELSE 0>>
                        \o lens \o header
                        \o (IF long THEN SubSeq(p.data, 1, room) ELSE p.data)
             bad == (p.topic = <<>> /\ p.property.topic_alias = 0) \/ ~Fits(header)
  <2>3. m = IF bad THEN [message |-> Failed, fragmented |-> FALSE, offset |-> offset]
            ELSE [message |-> bytes, fragmented |-> long, offset |-> x]
    BY <2>2, Zenon
  <2>4. bad \/ Fits(header)
    OBVIOUS
  <2> HIDE DEF bytes, bad, long, x, header
  <2>5. ~bad /\ m.offset = x
    BY <1>1, <2>3
  <2> QED
    BY <2>4, <2>5
<1> HIDE DEF m, header
<1>7. 5 + H <= OutLength
  BY <1>6 DEF Fits, MQTT5_MAX_FIXED_HEADER_SIZE
<1>8. Len(lens) \in 1..4
  <2>1. H + D \in Nat
    BY <1>5
  <2> QED
    BY <2>1, EncodedLensType, LenBytesType
<1> HIDE DEF lens, H, D
<1>9. x \in Int /\ x <= OutLength
  <2>1. offs = 4 - Len(lens) /\ far = 5 + H
    BY <1>5, <1>8 DEF MQTT5_MAX_FIXED_HEADER_SIZE
  <2>2. offset \in Nat /\ offset <= OutLength
    BY OutLengthIs
  <2> HIDE DEF offs, far, long
  <2>3. offs \in 0..3 /\ far \in Nat /\ far <= OutLength /\ OutLength \in Nat
    <3>1. \A n \in 1..4 : 4 - n \in 0..3
      OBVIOUS
    <3>2. offs \in 0..3
      BY <1>8, <2>1, <3>1, Zenon
    <3>3. OutLength \in Nat
      BY OutLengthIs, Zenon
    <3>4. 5 + H \in Nat
      BY <1>5
    <3> QED
      BY <1>7, <2>1, <3>2, <3>3, <3>4, Zenon
  <2>4. far - offs \in Int /\ far - offs <= OutLength
    BY <2>3, Nearer5, Zenon
  <2>5. offset - offs \in Int /\ offset - offs <= OutLength
    BY <2>2, <2>3, Nearer5, Zenon
  <2> QED
    BY <2>4, <2>5
<1> HIDE DEF x
<1>11. NotNegative(x) \in 0..OutLength
  <2>1. OutLength \in Nat
    BY OutLengthIs, Zenon
  <2> QED
    BY <1>9, <2>1, Clipped5, Zenon
<1> QED
  BY <1>1, <1>6, <1>11

\* The ranges are kept.
LEMMA RangesStep ==
    ASSUME IInv, IInv', Ranges5, Next
    PROVE  Ranges5'
<1> DEFINE count == send_publish_packet_count
           offset == fragmented_msg_data_offset
<1>1. Moves5
  BY NextMoves, Zenon
<1>2. /\ state' = "CONNECTED" => Right(count', inflight', uncounted')
      /\ inflight' \subseteq 1..last_message_id' /\ last_message_id' \in Nat
      /\ state' # "down" => offset' = 0
  BY Zenon DEF IInv, Wires, GivenIds, Count
<1>3. last_message_id \in Nat
  BY Parts, Zenon
<1>4. count' \in 0..(last_message_id' + 1)
  <2>1. CASE state' = "CONNECTED"
    <3> DEFINE n == last_message_id'
               f == inflight'
               c == count'
    <3>1. IsFiniteSet(f) /\ c \in Nat /\ c <= Cardinality(f) /\ n \in Nat /\ f \subseteq 1..n
      BY <1>2, <2>1, Zenon DEF Right
    <3> HIDE DEF n, f, c
    <3>2. IsFiniteSet(1..n) /\ Cardinality(1..n) = n
      <4>1. Cardinality(1..n) = IF 1 > n THEN 0 ELSE n - 1 + 1
        BY <3>1, FS_Interval
      <4> QED
        BY <3>1, <4>1, FS_Interval
    <3>3. Cardinality(f) \in Nat /\ Cardinality(f) <= Cardinality(1..n)
      BY <3>1, <3>2, FS_Subset, FS_CardinalityType
    <3>4. c \in 0..(n + 1)
      BY <3>1, <3>2, <3>3
    <3> QED
      BY <3>4 DEF n, c
  <2>2. CASE count' = count
    <3>1. LastGoesOn /\ count \in 0..(last_message_id + 1)
      BY <1>1, Zenon DEF Moves5, Ranges5
    <3> QED
      BY <1>3, <2>2, <3>1 DEF LastGoesOn
  <2> QED
    BY <1>1, <2>1, <2>2, Zenon DEF Moves5
<1>5. offset' \in 0..OutLength
  <2>1. 0 \in 0..OutLength
    BY OutLengthIs
  <2>2. offset \in 0..OutLength
    BY Zenon DEF Ranges5
  <2>3. CASE \E p \in Publications \cup Stored : Enqueue(p)
    BY <2>2, <2>3, EnqueueOffset, Zenon
  <2>4. CASE offset' = 0
    BY <2>1, <2>4, Zenon
  <2>5. CASE offset' = offset
    BY <2>2, <2>5, Zenon
  <2> QED
    BY <1>1, <1>2, <2>3, <2>4, <2>5, Zenon DEF Moves5
<1> QED
  BY <1>4, <1>5, Zenon DEF Ranges5

---------------------------------------------------------------------------
\* What the client finds in a PUBLISH of the broker: the parser never leaves
\* the properties that were sent, so that an alias is a number.

\* A length that is found is read as it was written.
LEMMA DigitsRead ==
    ASSUME NEW g, NEW o \in Nat, NEW length \in Nat, NEW n \in Nat,
           Holds(g, o, EncodedLens(n)), o + LenBytes(n) <= length
    PROVE  /\ VariableLenBytes(g, o, length) = LenBytes(n)
           /\ n <= MaxRemaining => VariableLen(g, o, LenBytes(n)).len = n
<1> DEFINE L == LenBytes(n)
           e == EncodedLens(n)
           last == {i \in 0..3 : o + i < length /\ g[o + i + 1] < 128}
<1>1. L \in 1..4 /\ Len(e) = L /\ e \in Seq(Nat)
  BY EncodedLensType, LenBytesType, Wide
<1>2. \A k \in 1..L : /\ g[o + k] = e[k] /\ g[o + k] \in Nat
                      /\ k < L => g[o + k] >= 128
                      /\ k = L => g[o + k] < 128
  <2> TAKE k \in 1..L
  <2>1. g[o + k] = e[k]
    BY <1>1 DEF Holds
  <2>2. e[k] \in Byte /\ (k < L => e[k] >= 128) /\ (k = L => e[k] < 128)
    BY DigitsType
  <2>3. Byte \subseteq Nat
    BY DEF Byte
  <2> QED
    BY <2>1, <2>2, <2>3, Zenon
<1>3. o + L <= length
  OBVIOUS
<1> HIDE DEF L, e
<1>4. L - 1 \in last
  <2>1. L \in 1..L /\ o + (L - 1) + 1 = o + L /\ L - 1 \in 0..3 /\ o + (L - 1) < length
    BY <1>1, <1>3
  <2>2. g[o + L] < 128
    BY <1>2, <2>1, Zenon
  <2> QED
    BY <2>1, <2>2
<1>5. \A i \in last : L - 1 <= i
  <2> TAKE i \in last
  <2>1. i \in 0..3 /\ g[o + i + 1] < 128
    OBVIOUS
  <2>2. SUFFICES ASSUME i < L - 1 PROVE FALSE
    BY <1>1, <2>1
  <2>3. i + 1 \in 1..L /\ i + 1 < L /\ o + i + 1 = o + (i + 1)
    BY <1>1, <2>1, <2>2
  <2>4. g[o + (i + 1)] \in Nat /\ g[o + (i + 1)] >= 128
    BY <1>2, <2>3
  <2> QED
    BY <2>1, <2>3, <2>4
<1>6. last \in SUBSET Nat
  OBVIOUS
<1> HIDE DEF last
<1>7. Min(last) = L - 1
  BY <1>4, <1>5, <1>6, MinIs
<1>8. VariableLenBytes(g, o, length) = L
  <2>1. VariableLenBytes(g, o, length) = Min(last) + 1
    BY <1>4, Zenon DEF VariableLenBytes, last
  <2> QED
    BY <1>1, <1>7, <2>1
<1>9. ASSUME n <= MaxRemaining PROVE VariableLen(g, o, L).len = n
  <2> DEFINE b == <<0>> \o e
             z == <<0>>
  <2>1. z \in Seq(Nat) /\ Len(z) = 1
    OBVIOUS
  <2>2. Joins5(b, z, e)
    BY <1>1, <2>1, Joined5, Zenon
  <2> HIDE DEF b, z
  <2>3. Len(b) \in Nat /\ Len(b) > L /\ \A k \in 1..L : b[k + 1] = e[k]
    <3>1. \A k \in 1..L : 1 + k = k + 1
      BY <1>1
    <3>2. /\ Len(b) = Len(z) + Len(e) /\ Len(b) \in Nat
          /\ \A k \in 1..Len(e) : b[Len(z) + k] = e[k]
      BY <2>2, Zenon DEF Joins5
    <3>3. Len(b) = 1 + L /\ \A k \in 1..L : b[1 + k] = e[k]
      BY <1>1, <2>1, <3>2, Zenon
    <3>4. 1 + L > L
      BY <1>1
    <3> QED
      BY <3>1, <3>2, <3>3, <3>4, Zenon
  <2>4. FixedHeaderLen(b) = L + 1 /\ RemainingLength(b) = n
    BY <1>9, <2>3, HeaderDecides DEF L, e
  <2> DEFINE d(k) == IF k < L + 1 THEN b[k + 1] % 128 ELSE 0
             v(k) == IF k <= L THEN g[o + k] % 128 ELSE 0
  <2>5. n = d(1) + 128 * d(2) + 16384 * d(3) + 2097152 * d(4)
    BY <2>4, Weights, SMT DEF RemainingLength
  <2>6. ASSUME NEW k \in 1..4 PROVE d(k) = v(k)
    <3>1. CASE k <= L
      <4>1. k \in 1..L /\ k < L + 1
        BY <1>1, <3>1
      <4> QED
        BY <1>2, <2>3, <3>1, <4>1, Zenon
    <3>2. CASE ~(k <= L)
      <4>1. ~(k < L + 1)
        BY <1>1, <3>2
      <4> QED
        BY <3>2, <4>1, Zenon
    <3> QED
      BY <3>1, <3>2
  <2>7. d(1) = v(1) /\ d(2) = v(2) /\ d(3) = v(3) /\ d(4) = v(4)
    BY <2>6
  <2> HIDE DEF d
  <2>8. n = v(1) + 128 * v(2) + 16384 * v(3) + 2097152 * v(4)
    BY <2>5, <2>7, SMT
  <2> QED
    BY <2>8, SMT DEF VariableLen
<1> QED
  BY <1>8, <1>9, Zenon DEF L

\* So is a string.
LEMMA StringFound ==
    ASSUME NEW g, NEW a \in Nat, NEW s \in Seq(Nat), Holds(g, a, String(s))
    PROVE  StringEnd(g, a) = a + Len(String(s)) /\ Len(String(s)) = 2 + Len(s)
<1> DEFINE w == Word(Len(s))
<1>1. Len(s) \in Nat
  BY Len5
<1>2. w \in Seq(Nat) /\ Len(w) = 2 /\ 256 * w[1] + w[2] = Len(s)
  BY <1>1, Word5
<1>3. String(s) = w \o s
  <2>1. <<>> \o w = w
    BY <1>2, ConcatEmptySeq, Zenon
  <2> QED
    BY <2>1, Zenon DEF String, append_string
<1> HIDE DEF w
<1>4. Holds(g, a, w) /\ Len(w \o s) = Len(w) + Len(s)
  <2>1. Holds(g, a, w \o s)
    BY <1>3, Zenon
  <2>2. Holds(g, a, w)
    BY <1>2, <2>1, HoldsParts, Zenon
  <2> QED
    BY <1>2, <2>2, Concat5
<1>5. g[a + 1] = w[1] /\ g[a + 2] = w[2]
  <2>1. 1 \in 1..2 /\ 2 \in 1..2
    OBVIOUS
  <2> QED
    BY <1>2, <1>4, <2>1, Zenon DEF Holds
<1>6. WordAt(g, a) = Len(s)
  BY <1>2, <1>5, Zenon DEF WordAt
<1> QED
  BY <1>1, <1>2, <1>3, <1>4, <1>6 DEF StringEnd

\* From a to b the parser goes through the offsets of S, or gives up.
Marks(S, g, end, a, b) ==
    /\ S \subseteq a..b /\ a \in S /\ b \in S
    /\ \A s \in S : s < b => ValueEnd(g, g[s + 1], s + 1, end) \in S \cup {0}
Covers(g, end, a, b) == \E S : Marks(S, g, end, a, b)

\* No property,
LEMMA CoversNone ==
    ASSUME NEW g, NEW end, NEW a \in Nat
    PROVE  Covers(g, end, a, a)
<1>1. Marks({a}, g, end, a, a)
  BY DEF Marks
<1> QED
  BY <1>1, Zenon DEF Covers

\* ... one,
LEMMA CoversOne ==
    ASSUME NEW g, NEW end, NEW a \in Nat, NEW b \in Nat, a < b,
           ValueEnd(g, g[a + 1], a + 1, end) \in {b, 0}
    PROVE  Covers(g, end, a, b)
<1>1. Marks({a, b}, g, end, a, b)
  BY DEF Marks
<1> QED
  BY <1>1, Zenon DEF Covers

\* ... and some after others.
LEMMA CoversJoin ==
    ASSUME NEW g, NEW end, NEW a \in Nat, NEW b \in Nat, NEW c \in Nat, a <= b, b <= c,
           Covers(g, end, a, b), Covers(g, end, b, c)
    PROVE  Covers(g, end, a, c)
<1>1. PICK S : Marks(S, g, end, a, b)
  BY Zenon DEF Covers
<1>2. PICK T : Marks(T, g, end, b, c)
  BY Zenon DEF Covers
<1> DEFINE U == S \cup T
           V(s) == ValueEnd(g, g[s + 1], s + 1, end)
<1>3. /\ S \subseteq a..b /\ a \in S /\ b \in S /\ T \subseteq b..c /\ b \in T /\ c \in T
      /\ \A s \in S : s < b => V(s) \in S \cup {0}
      /\ \A s \in T : s < c => V(s) \in T \cup {0}
  BY <1>1, <1>2, Zenon DEF Marks
<1> HIDE DEF V
<1>4. U \subseteq a..c /\ a \in U /\ c \in U
  BY <1>3
<1>5. \A s \in U : s < c => V(s) \in U \cup {0}
  <2> TAKE s \in U
  <2> HAVE s < c
  <2>1. CASE s \in T
    BY <1>3, <2>1
  <2>2. CASE s \in S /\ s < b
    BY <1>3, <2>2
  <2>3. CASE s \in S /\ s = b
    BY <1>3, <2>3
  <2> QED
    BY <1>3, <2>1, <2>2, <2>3
<1>6. Marks(U, g, end, a, c)
  BY <1>4, <1>5, Zenon DEF Marks, V
<1> QED
  BY <1>6, Zenon DEF Covers

\* The parser goes through x, wherever it is found.
Spans(x, g, end) ==
    x \in Seq(Nat) /\ \A a \in Nat : Holds(g, a, x) /\ a + Len(x) <= end
                                        => Covers(g, end, a, a + Len(x))

LEMMA SpansNone ==
    ASSUME NEW g, NEW end
    PROVE  Spans(<<>>, g, end)
<1>1. \A a \in Nat : a + 0 = a
  OBVIOUS
<1> QED
  BY <1>1, Empty5, CoversNone, Zenon DEF Spans

LEMMA SpansJoin ==
    ASSUME NEW g, NEW end \in Nat, NEW x, NEW y, Spans(x, g, end), Spans(y, g, end)
    PROVE  Spans(x \o y, g, end)
<1>1. x \in Seq(Nat) /\ y \in Seq(Nat)
  BY Zenon DEF Spans
<1>2. x \o y \in Seq(Nat)
  BY <1>1, Concat5, Zenon
<1>3. ASSUME NEW a \in Nat, Holds(g, a, x \o y), a + Len(x \o y) <= end
      PROVE  Covers(g, end, a, a + Len(x \o y))
  <2>1. /\ Holds(g, a, x) /\ Holds(g, a + Len(x), y)
        /\ Len(x \o y) = Len(x) + Len(y) /\ Len(x) \in Nat /\ Len(y) \in Nat
    BY <1>1, <1>3, HoldsParts, Zenon
  <2> DEFINE b == a + Len(x)
             c == b + Len(y)
  <2>2. /\ b \in Nat /\ c \in Nat /\ a <= b /\ b <= c /\ c = a + Len(x \o y)
        /\ b <= end /\ c <= end
    BY <1>3, <2>1
  <2>3. Covers(g, end, a, b) /\ Covers(g, end, b, c)
    BY <2>1, <2>2, Zenon DEF Spans
  <2> HIDE DEF b, c
  <2> QED
    BY <2>2, <2>3, CoversJoin, Zenon
<1> QED
  BY <1>2, <1>3, Zenon DEF Spans

\* The parser goes through a property when it finds the end of its value.
LEMMA SpansValue ==
    ASSUME NEW g, NEW end \in Nat, NEW id \in Nat, NEW x \in Seq(Nat),
           \A a \in Nat : Holds(g, a, x) /\ a + Len(x) <= end
                             => ValueEnd(g, id, a, end) \in {a + Len(x), 0}
    PROVE  Spans(<<id>> \o x, g, end)
<1> DEFINE h == <<id>>
           y == h \o x
<1>1. h \in Seq(Nat) /\ Len(h) = 1 /\ h[1] = id
  OBVIOUS
<1> HIDE DEF h
<1>2. y \in Seq(Nat) /\ Len(y) = 1 + Len(x) /\ Len(x) \in Nat
  <2>1. y \in Seq(Nat) /\ Len(y) = Len(h) + Len(x)
    BY <1>1, Concat5
  <2>2. Len(x) \in Nat
    OBVIOUS
  <2> QED
    BY <1>1, <2>1, <2>2
<1>3. ASSUME NEW a \in Nat, Holds(g, a, y), a + Len(y) <= end
      PROVE  Covers(g, end, a, a + Len(y))
  <2>1. Holds(g, a, h) /\ Holds(g, a + Len(h), x)
    BY <1>1, <1>3, HoldsParts, Zenon
  <2>2. g[a + 1] = id
    BY <1>1, <2>1 DEF Holds
  <2> DEFINE o == a + 1
             b == a + Len(y)
  <2> HIDE DEF y
  <2>3. o \in Nat /\ o + Len(x) = b /\ a + Len(h) = o /\ b \in Nat /\ a < b /\ b <= end
    BY <1>1, <1>2, <1>3
  <2>4. ValueEnd(g, id, o, end) \in {b, 0}
    BY <2>1, <2>3
  <2> HIDE DEF b
  <2>5. ValueEnd(g, g[a + 1], a + 1, end) \in {b, 0}
    BY <2>2, <2>4
  <2>6. Covers(g, end, a, b)
    BY <2>3, <2>5, CoversOne
  <2> QED
    BY <2>6 DEF b
<1> QED
  BY <1>2, <1>3, Zenon DEF Spans, h

\* The numbers of the properties of PUBLISH.
LEMMA PublishNumbers ==
    /\ MQTT5_PROPERTY["payload_format_indicator"] = 1
    /\ MQTT5_PROPERTY["message_expiry_interval"] = 2
    /\ MQTT5_PROPERTY["content_type"] = 3
    /\ MQTT5_PROPERTY["response_topic"] = 8
    /\ MQTT5_PROPERTY["correlation_data"] = 9
    /\ MQTT5_PROPERTY["subscribe_identifier"] = 11
    /\ MQTT5_PROPERTY["topic_alias"] = 35
BY DEF MQTT5_PROPERTY

\* A value that has a width,
LEMMA SpansFixed ==
    ASSUME NEW g, NEW end \in Nat, NEW id \in Nat, NEW x \in Seq(Nat),
           \/ id = 1 /\ Len(x) = 1
           \/ id = 35 /\ Len(x) = 2
           \/ id = 2 /\ Len(x) = 4
    PROVE  Spans(<<id>> \o x, g, end)
<1>1. ASSUME NEW a \in Nat PROVE ValueEnd(g, id, a, end) \in {a + Len(x), 0}
  <2>1. ValueEnd(g, id, a, end) = FixedEnd(id, a, Len(x), end)
    <3>1. CASE id = 1 /\ Len(x) = 1
      BY <3>1, IdsAre DEF ValueEnd
    <3>2. CASE id = 35 /\ Len(x) = 2
      BY <3>2, IdsAre DEF ValueEnd
    <3>3. CASE id = 2 /\ Len(x) = 4
      BY <3>3, IdsAre DEF ValueEnd
    <3> QED
      BY <3>1, <3>2, <3>3
  <2> QED
    BY <2>1 DEF FixedEnd
<1> QED
  BY <1>1, SpansValue

\* ... a number that ends itself,
LEMMA SpansVariable ==
    ASSUME NEW g, NEW end \in Nat, NEW n \in Nat
    PROVE  Spans(VariableProperty("subscribe_identifier", n), g, end)
<1> DEFINE x == EncodedLens(n)
<1>1. x \in Seq(Nat) /\ Len(x) = LenBytes(n) /\ LenBytes(n) \in 1..4
  BY EncodedLensType, LenBytesType, Wide
<1>2. ASSUME NEW a \in Nat, Holds(g, a, x), a + Len(x) <= end
      PROVE  ValueEnd(g, 11, a, end) \in {a + Len(x), 0}
  <2>1. VariableLenBytes(g, a, end) = LenBytes(n)
    BY <1>1, <1>2, DigitsRead
  <2>2. ValueEnd(g, 11, a, end) = FixedEnd(11, a, VariableLenBytes(g, a, end), end)
    BY IdsAre DEF ValueEnd
  <2> HIDE DEF x
  <2> QED
    BY <1>1, <2>1, <2>2 DEF FixedEnd
<1> HIDE DEF x
<1>3. Spans(<<11>> \o x, g, end)
  <2>1. 11 \in Nat
    OBVIOUS
  <2> QED
    BY <1>1, <1>2, <2>1, SpansValue
<1>4. VariableProperty("subscribe_identifier", n) \in {<<>>, <<11>> \o x}
  BY PublishNumbers DEF VariableProperty, x
<1> QED
  BY <1>3, <1>4, SpansNone

\* ... a string
LEMMA SpansString ==
    ASSUME NEW g, NEW end \in Nat, NEW s \in Seq(Nat),
           NEW name \in {"response_topic", "correlation_data", "content_type"}
    PROVE  Spans(StringProperty(name, s), g, end)
<1> DEFINE x == String(s)
           id == MQTT5_PROPERTY[name]
<1>1. x \in Seq(Nat)
  BY String5
<1>2. id \in {3, 8, 9}
  BY PublishNumbers
<1> HIDE DEF id
<1>3. ASSUME NEW a \in Nat, Holds(g, a, x), a + Len(x) <= end
      PROVE  ValueEnd(g, id, a, end) \in {a + Len(x), 0}
  <2>1. StringEnd(g, a) = a + Len(x)
    BY <1>3, StringFound
  <2>2. ValueEnd(g, id, a, end) \in {StringEnd(g, a), 0}
    BY <1>2, IdsAre DEF ValueEnd
  <2> QED
    BY <2>1, <2>2
<1> HIDE DEF x
<1>4. Spans(<<id>> \o x, g, end)
  <2>1. id \in Nat
    BY <1>2
  <2> QED
    BY <1>1, <1>3, <2>1, SpansValue
<1>5. StringProperty(name, s) \in {<<>>, <<id>> \o x}
  BY DEF StringProperty, x, id
<1> QED
  BY <1>4, <1>5, SpansNone

\* ... or two.
LEMMA SpansPair ==
    ASSUME NEW g, NEW end \in Nat, NEW s \in Seq(Nat), NEW t \in Seq(Nat)
    PROVE  Spans(<<38>> \o (String(s) \o String(t)), g, end)
<1> DEFINE x == String(s)
           y == String(t)
           u == x \o y
<1>1. x \in Seq(Nat) /\ y \in Seq(Nat)
  BY String5
<1>2. u \in Seq(Nat)
  BY <1>1, Concat5
<1>3. ASSUME NEW a \in Nat, Holds(g, a, u), a + Len(u) <= end
      PROVE  ValueEnd(g, 38, a, end) \in {a + Len(u), 0}
  <2>1. Holds(g, a, x) /\ Holds(g, a + Len(x), y)
    <3> HIDE DEF x, y
    <3> QED
      BY <1>1, <1>3, HoldsParts, Zenon
  <2>2. Len(u) = Len(x) + Len(y) /\ Len(x) \in Nat /\ Len(y) \in Nat
    <3> HIDE DEF x, y
    <3> QED
      BY <1>1, Concat5
  <2>3. StringEnd(g, a) = a + Len(x)
    BY <2>1, StringFound
  <2> DEFINE b == a + Len(x)
  <2>4. b \in Nat
    BY <2>2
  <2>5. StringEnd(g, b) = b + Len(y)
    BY <2>1, <2>4, StringFound
  <2>6. ValueEnd(g, 38, a, end) \in {StringEnd(g, StringEnd(g, a)), 0}
    BY IdsAre DEF ValueEnd
  <2> HIDE DEF u, x, y
  <2> QED
    BY <2>2, <2>3, <2>5, <2>6
<1> HIDE DEF u
<1>4. 38 \in Nat
  OBVIOUS
<1>5. Spans(<<38>> \o u, g, end)
  BY <1>2, <1>3, <1>4, SpansValue
<1> QED
  BY <1>5 DEF u

\* The user properties are such pairs.
LEMMA SpansUser ==
    ASSUME NEW g, NEW end \in Nat, NEW list \in Seq(esp_mqtt5_user_property_item_t)
    PROVE  Spans(UserProperties(list), g, end)
<1> DEFINE e(i) == <<MQTT5_PROPERTY.user_property>>
                     \o String(list[i].key) \o String(list[i].value)
           s == [i \in DOMAIN list |-> e(i)]
           n == Len(list)
<1>1. ASSUME NEW i \in DOMAIN list PROVE Spans(e(i), g, end)
  <2> DEFINE x == String(list[i].key)
             y == String(list[i].value)
             h == <<38>>
  <2>1. list[i].key \in Seq(Nat) /\ list[i].value \in Seq(Nat)
    <3>1. list[i] \in esp_mqtt5_user_property_item_t
      OBVIOUS
    <3>2. list[i].key \in Seq(Byte) /\ list[i].value \in Seq(Byte)
      BY <3>1 DEF esp_mqtt5_user_property_item_t
    <3> QED
      BY <3>2, Wide, Zenon
  <2>2. x \in Seq(Nat) /\ y \in Seq(Nat) /\ h \in Seq(Nat)
    <3>1. x \in Seq(Nat) /\ y \in Seq(Nat)
      BY <2>1, String5, Zenon
    <3>2. h \in Seq(Nat)
      OBVIOUS
    <3> QED
      BY <3>1, <3>2, Zenon
  <2>3. Spans(h \o (x \o y), g, end)
    BY <2>1, SpansPair
  <2>4. e(i) = h \o x \o y
    BY IdsAre
  <2> HIDE DEF x, y, h, e
  <2>5. h \o x \o y = h \o (x \o y)
    BY <2>2, Assoc5, Zenon
  <2> QED
    BY <2>3, <2>4, <2>5, Zenon
<1> HIDE DEF e
<1>2. DOMAIN list = 1..n /\ n \in Nat
  OBVIOUS
<1>3. DOMAIN s = 1..n /\ \A i \in 1..n : Spans(s[i], g, end)
  BY <1>1, <1>2
<1>4. Len(s) = n
  BY <1>2
<1>5. n = 0 => s = <<>>
  BY <1>2
<1> HIDE DEF s, n
<1>6. Spans(FlattenSeq(s), g, end)
  <2>1. CASE n = 0
    <3>1. FlattenSeq(s) = s
      BY <1>4, <2>1, Zenon DEF FlattenSeq
    <3> QED
      BY <1>5, <2>1, <3>1, SpansNone
  <2>2. CASE n # 0
    <3>1. PICK f : Flat(f, s, n) /\ FlattenSeq(s) = f[n]
      BY <1>2, <1>4, <2>2, FlattenIs, Zenon
    <3>2. FlatSays(f, s, n)
      BY <3>1, FlatStep, Zenon
    <3> DEFINE T == {k \in Nat : k \in 1..n => Spans(f[k], g, end)}
    <3>3. 0 \in T
      OBVIOUS
    <3>4. ASSUME NEW k \in Nat, k \in T PROVE k + 1 \in T
      <4> SUFFICES ASSUME k + 1 \in 1..n PROVE Spans(f[k + 1], g, end)
        OBVIOUS
      <4>1. f[k + 1] = IF k + 1 = 1 THEN s[k + 1] ELSE f[(k + 1) - 1] \o s[k + 1]
        BY <3>2, Zenon DEF FlatSays
      <4>2. Spans(s[k + 1], g, end)
        BY <1>3
      <4>3. CASE k + 1 = 1
        BY <4>1, <4>2, <4>3
      <4>4. CASE k + 1 # 1
        <5>1. k \in 1..n /\ (k + 1) - 1 = k
          BY <1>2, <4>4
        <5>2. Spans(f[k], g, end)
          BY <3>4, <5>1
        <5>3. f[k + 1] = f[k] \o s[k + 1]
          BY <4>1, <4>4, <5>1
        <5>4. Spans(f[k] \o s[k + 1], g, end)
          BY <4>2, <5>2, SpansJoin
        <5> QED
          BY <5>3, <5>4
      <4> QED
        BY <4>3, <4>4
    <3> HIDE DEF T
    <3>5. Nat \subseteq T
      BY <3>3, <3>4, Induct
    <3>6. n \in T /\ n \in 1..n
      BY <1>2, <2>2, <3>5
    <3> QED
      BY <3>1, <3>6 DEF T
  <2> QED
    BY <2>1, <2>2
<1> QED
  BY <1>6 DEF UserProperties, s, e

\* What the broker puts into PUBLISH.
Enclosed(m) == VariableProperty("subscribe_identifier", m.property.subscribe_id)
             \o PublishProperties(m.property, <<>>)

\* The parser goes through all of it.
LEMMA SpansEnclosed ==
    ASSUME NEW g, NEW end \in Nat, NEW m, m.property \in esp_mqtt5_publish_property_config_t
    PROVE  Spans(Enclosed(m), g, end)
<1> DEFINE p == m.property
           v == VariableProperty("subscribe_identifier", p.subscribe_id)
           x1 == FlagProperty("payload_format_indicator", p.payload_format_indicator)
           x2 == NumberProperty("message_expiry_interval", 4, p.message_expiry_interval)
           x3 == NumberProperty("topic_alias", 2, p.topic_alias)
           x4 == StringProperty("response_topic", ResponseTopic(p.response_topic, <<>>))
           x5 == StringProperty("correlation_data", p.correlation_data)
           x6 == UserProperties(p.user_property)
           x7 == StringProperty("content_type", p.content_type)
<1>1. /\ p.message_expiry_interval \in Nat /\ p.topic_alias \in Nat /\ p.subscribe_id \in Nat
      /\ p.content_type \in Seq(Byte) /\ p.response_topic \in Seq(Byte)
      /\ p.correlation_data \in Seq(Byte)
      /\ p.user_property \in Seq(esp_mqtt5_user_property_item_t)
  BY DEF esp_mqtt5_publish_property_config_t
<1>2. p.content_type \in Seq(Nat) /\ p.response_topic \in Seq(Nat) /\ p.correlation_data \in Seq(Nat)
  BY <1>1, Wide
<1> HIDE DEF p
<1>3. Spans(v, g, end)
  BY <1>1, SpansVariable
<1>4. Spans(x1, g, end)
  <2>1. x1 \in {<<>>, <<1, 1>>}
    BY PublishNumbers DEF FlagProperty
  <2>2. <<1, 1>> = <<1>> \o <<1>> /\ <<1>> \in Seq(Nat) /\ Len(<<1>>) = 1 /\ 1 \in Nat
    OBVIOUS
  <2>3. Spans(<<1>> \o <<1>>, g, end)
    BY <2>2, SpansFixed
  <2> QED
    BY <2>1, <2>2, <2>3, SpansNone
<1>5. Spans(x2, g, end)
  <2> DEFINE b == BigEndian(p.message_expiry_interval, 4)
  <2>1. b \in Seq(Nat) /\ Len(b) = 4
    <3>1. 4 \in {1, 2, 4}
      OBVIOUS
    <3>2. b \in Seq(Nat)
      BY <1>1, <3>1, BigEndian5
    <3>3. Len(b) = 4
      BY DEF BigEndian
    <3> QED
      BY <3>2, <3>3
  <2> HIDE DEF b
  <2>2. Spans(<<2>> \o b, g, end)
    <3>1. 2 \in Nat
      OBVIOUS
    <3> QED
      BY <2>1, <3>1, SpansFixed
  <2>3. x2 \in {<<>>, <<2>> \o b}
    BY PublishNumbers DEF NumberProperty, b
  <2> QED
    BY <2>2, <2>3, SpansNone
<1>6. Spans(x3, g, end)
  <2> DEFINE b == BigEndian(p.topic_alias, 2)
  <2>1. b \in Seq(Nat) /\ Len(b) = 2
    <3>1. 2 \in {1, 2, 4}
      OBVIOUS
    <3>2. b \in Seq(Nat)
      BY <1>1, <3>1, BigEndian5
    <3>3. Len(b) = 2
      BY DEF BigEndian
    <3> QED
      BY <3>2, <3>3
  <2> HIDE DEF b
  <2>2. Spans(<<35>> \o b, g, end)
    <3>1. 35 \in Nat
      OBVIOUS
    <3> QED
      BY <2>1, <3>1, SpansFixed
  <2>3. x3 \in {<<>>, <<35>> \o b}
    BY PublishNumbers DEF NumberProperty, b
  <2> QED
    BY <2>2, <2>3, SpansNone
<1>7. Spans(x4, g, end) /\ Spans(x5, g, end) /\ Spans(x7, g, end)
  <2>1. ResponseTopic(p.response_topic, <<>>) = p.response_topic
    BY Zenon DEF ResponseTopic
  <2> QED
    BY <1>2, <2>1, SpansString
<1>8. Spans(x6, g, end)
  BY <1>1, SpansUser
<1>9. PublishProperties(p, <<>>) = x1 \o x2 \o x3 \o x4 \o x5 \o x6 \o x7
  BY Zenon DEF PublishProperties
<1> HIDE DEF v, x1, x2, x3, x4, x5, x6, x7
<1>10. Spans(x1 \o x2, g, end)
  BY <1>4, <1>5, SpansJoin, Zenon
<1>11. Spans(x1 \o x2 \o x3, g, end)
  BY <1>10, <1>6, SpansJoin, Zenon
<1>12. Spans(x1 \o x2 \o x3 \o x4, g, end)
  BY <1>11, <1>7, SpansJoin, Zenon
<1>13. Spans(x1 \o x2 \o x3 \o x4 \o x5, g, end)
  BY <1>12, <1>7, SpansJoin, Zenon
<1>14. Spans(x1 \o x2 \o x3 \o x4 \o x5 \o x6, g, end)
  BY <1>13, <1>8, SpansJoin, Zenon
<1>15. Spans(PublishProperties(p, <<>>), g, end)
  BY <1>9, <1>14, <1>7, SpansJoin, Zenon
<1>16. Spans(v \o PublishProperties(p, <<>>), g, end)
  BY <1>3, <1>15, SpansJoin, Zenon
<1> QED
  BY <1>16, Zenon DEF Enclosed, v, p

\* What the parser finds when it goes through them; and after some rounds.
Found(end) == [id : Nat, at : Nat, to : 0..end]
FoundRest(rest, S, G) == \A o \in S : rest[o].ok => rest[o].list \in Seq(G)

\* A round finds no more.
LEMMA RoundFinds ==
    ASSUME NEW g \in Seq(Nat), NEW a \in Nat, NEW end \in Nat, end <= Len(g),
           NEW S, Marks(S, g, end, a, end),
           NEW rest, FoundRest(rest, S, Found(end)), NEW rounds
    PROVE  FoundRest(Round(g, end, InPublish, rest, rounds), S, Found(end))
<1> DEFINE G == Found(end)
           new == Round(g, end, InPublish, rest, rounds)
<1> SUFFICES ASSUME NEW o \in S, new[o].ok PROVE new[o].list \in Seq(G)
  BY Zenon DEF FoundRest
<1>0. /\ S \subseteq a..end
      /\ \A s \in S : s < end => ValueEnd(g, g[s + 1], s + 1, end) \in S \cup {0}
  BY Zenon DEF Marks
<1>1. o \in Nat
  BY <1>0
<1> DEFINE item == PropertyAt(g, o, end)
           bad == rounds = 0 \/ item.id \notin InPublish \/ item.to = 0
<1>2. new[o] = IF o >= end THEN [ok |-> TRUE, list |-> <<>>]
               ELSE IF bad THEN GaveUp ELSE Before(item, rest[item.to])
  BY <1>1, Zenon DEF Round
<1> HIDE DEF new
<1>3. CASE o >= end
  <2>1. new[o].list = <<>>
    BY <1>2, <1>3
  <2> QED
    BY <2>1
<1>4. CASE ~(o >= end)
  <2>1. ~bad
    <3> SUFFICES ASSUME bad PROVE FALSE
      OBVIOUS
    <3> HIDE DEF bad
    <3>1. new[o] = GaveUp
      BY <1>2, <1>4, Zenon
    <3> QED
      BY <3>1 DEF GaveUp
  <2>2. new[o] = Before(item, rest[item.to])
    <3> HIDE DEF bad, item
    <3> QED
      BY <1>2, <1>4, <2>1, Zenon
  <2>3. o < end
    BY <1>1, <1>4
  <2>4. /\ item = [id |-> g[o + 1], at |-> o + 1, to |-> item.to]
        /\ item.to = ValueEnd(g, g[o + 1], o + 1, end)
    BY Zenon DEF PropertyAt
  <2>5. item.to # 0
    BY <2>1
  <2> HIDE DEF item, bad
  <2>6. item.to \in S
    <3>1. ValueEnd(g, g[o + 1], o + 1, end) \in S \cup {0}
      BY <1>0, <2>3, Zenon
    <3> QED
      BY <2>4, <2>5, <3>1
  <2>7. item.to \in 0..end
    <3>1. S \subseteq a..end
      BY <1>0, Zenon
    <3>2. \A i \in a..end : i \in 0..end
      OBVIOUS
    <3> QED
      BY <2>6, <3>1, <3>2, Zenon
  <2>8. g[o + 1] \in Nat
    <3>1. o + 1 \in 1..Len(g)
      BY <1>1, <2>3
    <3> QED
      BY <3>1, At5, Zenon
  <2>9. item \in G
    BY <1>1, <2>4, <2>7, <2>8 DEF Found
  <2> DEFINE r == rest[item.to]
  <2>10. new[o] = [ok |-> r.ok, list |-> <<item>> \o r.list]
    BY <2>2, Zenon DEF Before
  <2>11. r.ok => r.list \in Seq(G)
    BY <2>6, Zenon DEF FoundRest
  <2> HIDE DEF G, r
  <2>12. r.ok /\ new[o].list = <<item>> \o r.list
    BY <2>10
  <2> QED
    BY <2>9, <2>11, <2>12, InFront, Zenon
<1> QED
  BY <1>3, <1>4

\* So does the whole loop.
LEMMA PropertiesFound ==
    ASSUME NEW g \in Seq(Nat), NEW from \in Nat, NEW end \in Nat, from <= end, end <= Len(g),
           Covers(g, end, from, end),
           NEW ps, ps = Properties(g, from, end, InPublish), ps.ok
    PROVE  ps.list \in Seq(Found(end))
<1> DEFINE f == CHOOSE f : WholeLoop(f, g, end, InPublish)
           R(x, i) == Round(g, end, InPublish, x, i)
           G == Found(end)
<1>0. PICK S : Marks(S, g, end, from, end)
  BY Zenon DEF Covers
<1>1. ps = f[end - from][from]
  BY Zenon DEF Properties, WholeLoop, Round
<1>2. WholeLoop(f, g, end, InPublish)
  <2>1. \E e : WholeLoop(e, g, end, InPublish)
    BY WholeLoopExists, Zenon
  <2> QED
    BY <2>1, Zenon
<1> HIDE DEF f
<1>3. \A n \in Nat : f[n] = R(f[n - 1], n)
  <2>1. f = [n \in Nat |-> R(f[n - 1], n)]
    BY <1>2, Zenon DEF WholeLoop
  <2> QED
    BY <2>1, Zenon
<1> DEFINE T == {n \in Nat : FoundRest(f[n], S, G)}
<1>4. 0 \in T
  <2> DEFINE none == [o \in S |-> GaveUp]
  <2>1. FoundRest(none, S, G)
    <3> SUFFICES ASSUME NEW o \in S, none[o].ok PROVE FALSE
      BY Zenon DEF FoundRest
    <3>1. none[o] = GaveUp
      BY Zenon
    <3> QED
      BY <3>1 DEF GaveUp
  <2> HIDE DEF none
  <2>2. FoundRest(R(none, 0), S, G)
    BY <1>0, <2>1, RoundFinds, Zenon
  <2>3. 0 \in Nat
    OBVIOUS
  <2>4. f[0] = R(f[0 - 1], 0) /\ R(f[0 - 1], 0) = R(none, 0)
    BY <1>3, <2>3, Round0, Zenon
  <2> QED
    BY <2>2, <2>3, <2>4, Zenon
<1>5. ASSUME NEW n \in Nat, n \in T PROVE n + 1 \in T
  <2>1. n + 1 \in Nat /\ (n + 1) - 1 = n
    OBVIOUS
  <2>2. f[n + 1] = R(f[n], n + 1)
    BY <1>3, <2>1, Zenon
  <2>3. FoundRest(f[n], S, G)
    BY <1>5, Zenon
  <2>4. FoundRest(R(f[n], n + 1), S, G)
    BY <1>0, <2>3, RoundFinds, Zenon
  <2> QED
    BY <2>1, <2>2, <2>4, Zenon
<1> HIDE DEF T
<1>6. Nat \subseteq T
  BY <1>4, <1>5, Induct
<1>7. end - from \in Nat
  OBVIOUS
<1>8. FoundRest(f[end - from], S, G)
  BY <1>6, <1>7, Zenon DEF T
<1>9. from \in S
  BY <1>0, Zenon DEF Marks
<1> QED
  BY <1>1, <1>8, <1>9, Zenon DEF FoundRest

\* The alias that is read is a number.
LEMMA AliasIs ==
    ASSUME NEW g \in Seq(Nat), NEW end \in Nat, end <= Len(g),
           NEW list \in Seq(Found(end))
    PROVE  NumberOr(g, list, "topic_alias", 0) \in Nat
<1> DEFINE name == "topic_alias"
<1> HIDE DEF name
<1>1. CASE Given(list, name) = {}
  BY <1>1 DEF NumberOr, name
<1>2. CASE Given(list, name) # {}
  <2> DEFINE x == Latest(list, name)
  <2>1. x \in Found(end)
    BY <1>2, LatestGood, Zenon
  <2> HIDE DEF x
  <2>2. x.to \in Nat /\ x.at \in Nat /\ x.to <= end
    BY <2>1 DEF Found
  <2>3. x.to <= Len(g) /\ x.at + 1 \in Nat /\ x.at + 1 > 0
    BY <2>2
  <2>4. Bytes(g, x) \in Seq(Nat)
    BY <2>2, <2>3, Part5, Zenon DEF Bytes
  <2>5. FromBigEndian(Bytes(g, x)) \in Nat
    BY <2>4, FromBigEndian5, Zenon
  <2> QED
    BY <1>2, <2>5, Zenon DEF NumberOr, x, name
<1> QED
  BY <1>1, <1>2

---------------------------------------------------------------------------
\* Where the client finds the properties of a PUBLISH.

\* The parts of PUBLISH.
BodyLen(m) == Len(String(m.topic)) + IdLen(m.qos) + Len(Block(Enclosed(m))) + Len(m.data)
AtTopic(m) == 1 + LenBytes(BodyLen(m))
AtBlock(m) == AtTopic(m) + Len(String(m.topic)) + IdLen(m.qos)

\* g is a PUBLISH of m, or the front of one.
FrontOf(g, m) ==
    /\ g \in Seq(Nat)
    /\ \E flags \in 0..15 : (flags \div 2) % 4 = m.qos /\ g[1] = 16 * PUBLISH + flags
    /\ Holds(g, 1, EncodedLens(BodyLen(m)))
    /\ Holds(g, AtTopic(m), String(m.topic))
    /\ Holds(g, AtBlock(m), Block(Enclosed(m)))

\* The parts have their lengths.
LEMMA PublishLens ==
    ASSUME NEW m \in Messages
    PROVE  /\ m.topic \in Seq(Nat) /\ m.data \in Seq(Nat) /\ m.qos \in 0..2
           /\ m.property \in esp_mqtt5_publish_property_config_t
           /\ String(m.topic) \in Seq(Nat) /\ Len(String(m.topic)) \in Nat
           /\ Enclosed(m) \in Seq(Nat) /\ Len(Enclosed(m)) \in Nat
           /\ Block(Enclosed(m)) \in Seq(Nat) /\ Len(m.data) \in Nat
           /\ Len(Block(Enclosed(m))) = LenBytes(Len(Enclosed(m))) + Len(Enclosed(m))
           /\ LenBytes(Len(Enclosed(m))) \in 1..4
           /\ IdLen(m.qos) \in {0, 2} /\ BodyLen(m) \in Nat
           /\ AtTopic(m) \in 2..5 /\ AtBlock(m) \in Nat
<1>1. m \in MessageType
  BY Mqtt5DataAssumption
<1>2. /\ m.topic \in Seq(Byte) /\ m.data \in Seq(Byte) /\ m.qos \in 0..2
      /\ m.property \in esp_mqtt5_publish_property_config_t
  BY <1>1 DEF MessageType
<1>3. m.topic \in Seq(Nat) /\ m.data \in Seq(Nat) /\ String(m.topic) \in Seq(Nat)
  BY <1>2, Strings5, Zenon
<1>4. Enclosed(m) \in Seq(Nat)
  <2>1. 0 \in Nat
    OBVIOUS
  <2> QED
    BY <1>2, <2>1, SpansEnclosed, Zenon DEF Spans
<1> DEFINE t == String(m.topic)
           p == Enclosed(m)
           e == EncodedLens(Len(p))
<1>5. Len(t) \in Nat /\ Len(p) \in Nat /\ Len(m.data) \in Nat
  BY <1>3, <1>4, Len5, Zenon
<1>6. e \in Seq(Nat) /\ Len(e) = LenBytes(Len(p)) /\ LenBytes(Len(p)) \in 1..4
  BY <1>5, EncodedLensType, LenBytesType, Wide
<1> HIDE DEF p, e, t
<1>7. e \o p \in Seq(Nat) /\ Len(e \o p) = Len(e) + Len(p)
  BY <1>4, <1>6, Concat5 DEF p
<1>8. Block(p) = e \o p
  BY Zenon DEF Block, e
<1>9. Block(p) \in Seq(Nat) /\ Len(Block(p)) = LenBytes(Len(p)) + Len(p)
  BY <1>6, <1>7, <1>8
<1>10. IdLen(m.qos) \in {0, 2}
  BY DEF IdLen
<1>11. BodyLen(m) \in Nat
  <2> DEFINE b == Len(Block(p))
  <2>1. b \in Nat
    BY <1>5, <1>6, <1>9
  <2>2. BodyLen(m) = Len(t) + IdLen(m.qos) + b + Len(m.data)
    BY Zenon DEF BodyLen, t, p
  <2> HIDE DEF b
  <2> QED
    BY <1>5, <1>10, <2>1, <2>2
<1>12. AtTopic(m) \in 2..5
  <2>1. LenBytes(BodyLen(m)) \in 1..4
    BY <1>11, LenBytesType
  <2> QED
    BY <2>1 DEF AtTopic
<1>13. AtBlock(m) \in Nat
  <2>1. AtBlock(m) = AtTopic(m) + Len(t) + IdLen(m.qos)
    BY Zenon DEF AtBlock, t
  <2> QED
    BY <1>5, <1>10, <1>12, <2>1
<1> QED
  BY <1>2, <1>3, <1>4, <1>5, <1>6, <1>9, <1>10, <1>11, <1>12, <1>13, Zenon DEF p, t

\* The broker sends the parts one after the other.
LEMMA PublishIs ==
    ASSUME NEW m \in Messages, NEW id \in Nat, NEW g, g = SendPublish(m, id)
    PROVE  FrontOf(g, m) /\ Len(g) = AtTopic(m) + BodyLen(m)
<1> DEFINE flags == (2 * m.qos) + (IF m.retain THEN 1 ELSE 0)
           t == String(m.topic)
           i == IF m.qos > 0 THEN Word(id) ELSE <<>>
           c == Block(Enclosed(m))
           d == m.data
           u == t \o i
           v == u \o c
           body == v \o d
<1>1. /\ m.qos \in 0..2 /\ t \in Seq(Nat) /\ c \in Seq(Nat) /\ d \in Seq(Nat)
      /\ IdLen(m.qos) \in {0, 2} /\ BodyLen(m) \in Nat /\ AtTopic(m) \in 2..5
      /\ Len(t) \in Nat /\ Len(d) \in Nat
  BY PublishLens, Zenon
<1>2. i \in Seq(Nat) /\ Len(i) = IdLen(m.qos)
  BY IdPart, Zenon
<1>3. flags \in 0..15 /\ (flags \div 2) % 4 = m.qos
  <2> DEFINE bit == IF m.retain THEN 1 ELSE 0
  <2>1. bit \in {0, 1}
    OBVIOUS
  <2>2. \A q \in 0..2, b \in {0, 1} : /\ (2 * q) + b \in 0..15
                                      /\ (((2 * q) + b) \div 2) % 4 = q
    OBVIOUS
  <2> HIDE DEF bit
  <2> QED
    BY <1>1, <2>1, <2>2, Zenon DEF bit
<1>4. g = SendMessage(PUBLISH, flags, body)
  BY Zenon DEF SendPublish, Enclosed
<1> HIDE DEF flags, t, i, c, d
<1>5. u \in Seq(Nat) /\ Len(u) = Len(t) + Len(i)
  BY <1>1, <1>2, Concat5
<1> HIDE DEF u
<1>6. v \in Seq(Nat) /\ Len(v) = Len(u) + Len(c)
  BY <1>1, <1>5, Concat5
<1> HIDE DEF v
<1>7. body \in Seq(Nat) /\ Len(body) = Len(v) + Len(d)
  BY <1>1, <1>6, Concat5
<1> HIDE DEF body
<1>8. Len(body) = BodyLen(m)
  <2>1. BodyLen(m) = Len(t) + IdLen(m.qos) + Len(c) + Len(d)
    BY Zenon DEF BodyLen, t, c, d
  <2> QED
    BY <1>2, <1>5, <1>6, <1>7, <2>1
<1>9. Wire(g, 16 * PUBLISH + flags, body)
  BY <1>3, <1>4, <1>7, Codes, SendIs, Zenon
<1> DEFINE n == BodyLen(m)
           h == AtTopic(m)
<1>10. h = 1 + LenBytes(n)
  BY Zenon DEF AtTopic
<1>11. /\ g \in Seq(Nat) /\ Len(g) = 1 + LenBytes(n) + n
       /\ g[1] = 16 * PUBLISH + flags
       /\ \A k \in 1..LenBytes(n) : g[1 + k] = EncodedLens(n)[k]
       /\ \A j \in 1..n : g[1 + LenBytes(n) + j] = body[j]
  BY <1>8, <1>9, Zenon DEF Wire
<1>12. Holds(g, 1, EncodedLens(n))
  <2>1. Len(EncodedLens(n)) = LenBytes(n)
    BY <1>1, EncodedLensType
  <2> QED
    BY <1>11, <2>1, Zenon DEF Holds
<1>13. Holds(g, h, body)
  BY <1>8, <1>10, <1>11, Zenon DEF Holds
<1>14. h \in Nat
  BY <1>1
<1> HIDE DEF n, h
<1>15. Holds(g, h, v)
  BY <1>1, <1>6, <1>13, <1>14, HoldsParts, Zenon DEF body
<1>16. Holds(g, h, u) /\ Holds(g, h + Len(u), c)
  BY <1>1, <1>5, <1>15, <1>14, HoldsParts, Zenon DEF v
<1>17. Holds(g, h, t)
  BY <1>1, <1>2, <1>16, <1>14, HoldsParts, Zenon DEF u
<1>18. h + Len(u) = AtBlock(m)
  <2>1. AtBlock(m) = h + Len(t) + IdLen(m.qos)
    BY Zenon DEF AtBlock, h, t
  <2> QED
    BY <1>1, <1>2, <1>5, <1>14, <2>1
<1>19. Len(g) = h + n
  BY <1>10, <1>11 DEF n, h
<1>20. FrontOf(g, m)
  <2>1. Holds(g, AtBlock(m), c)
    BY <1>16, <1>18
  <2> QED
    BY <1>3, <1>11, <1>12, <1>17, <2>1, Zenon DEF FrontOf, h, n, t, c
<1> QED
  BY <1>19, <1>20, Zenon DEF h, n

\* The lengths add up.
LEMMA PublishSums ==
    ASSUME NEW m \in Messages
    PROVE  /\ AtBlock(m) \in Nat /\ Len(Block(Enclosed(m))) \in Nat /\ Len(m.data) \in Nat
           /\ BodyLen(m) \in Nat /\ AtTopic(m) \in Nat
           /\ AtTopic(m) + BodyLen(m) = AtBlock(m) + Len(Block(Enclosed(m))) + Len(m.data)
           /\ AtTopic(m) + Len(String(m.topic)) <= AtBlock(m)
<1> DEFINE c == Len(Block(Enclosed(m)))
           d == Len(m.data)
           t == Len(String(m.topic))
           i == IdLen(m.qos)
           n == BodyLen(m)
           b == AtBlock(m)
           h == AtTopic(m)
<1>1. t \in Nat /\ d \in Nat /\ n \in Nat /\ h \in 2..5 /\ i \in {0, 2} /\ b \in Nat
  BY PublishLens, Zenon
<1>2. c \in Nat
  BY PublishLens, Len5, Zenon
<1>3. n = t + i + c + d /\ b = h + t + i
  BY Zenon DEF BodyLen, AtBlock
<1> HIDE DEF c, d, t, i, n, b, h
<1>4. h \in Nat /\ h + n = b + c + d /\ h + t <= b
  BY <1>1, <1>2, <1>3
<1> QED
  BY <1>1, <1>2, <1>4, Zenon DEF c, d, t, n, b, h

LEMMA PublishRoom ==
    ASSUME NEW m \in Messages
    PROVE  /\ AtBlock(m) + Len(Block(Enclosed(m))) \in Nat
           /\ AtBlock(m) + Len(Block(Enclosed(m))) <= AtTopic(m) + BodyLen(m)
<1> DEFINE c == Len(Block(Enclosed(m)))
           d == Len(m.data)
           n == BodyLen(m)
           b == AtBlock(m)
           h == AtTopic(m)
<1>1. b \in Nat /\ c \in Nat /\ d \in Nat /\ n \in Nat /\ h \in Nat /\ h + n = b + c + d
  BY PublishSums, Zenon
<1> HIDE DEF c, d, n, b, h
<1>2. b + c \in Nat /\ b + c <= h + n
  BY <1>1
<1> QED
  BY <1>2 DEF b, c, h, n

\* What is left of a length without its last part.
LEMMA Without5 ==
    ASSUME NEW b \in Nat, NEW c \in Nat, NEW d \in Nat, NEW l, l = b + c + d,
           NEW k \in Nat, l - d <= k
    PROVE  b + c <= k
OBVIOUS

\* All but the data fits the client's buffer.
LEMMA PublishFits ==
    ASSUME PropertiesFit, NEW m \in Messages
    PROVE  AtBlock(m) + Len(Block(Enclosed(m))) <= InLength
<1> DEFINE g == SendPublish(m, 1)
           c == Len(Block(Enclosed(m)))
           d == Len(m.data)
           n == BodyLen(m)
           b == AtBlock(m)
           h == AtTopic(m)
<1>1. Len(g) = h + n
  <2>1. 1 \in Nat
    OBVIOUS
  <2> QED
    BY <2>1, PublishIs, Zenon
<1>2. Len(g) - d <= InLength
  BY DEF PropertiesFit
<1>3. b \in Nat /\ c \in Nat /\ d \in Nat /\ n \in Nat /\ h \in Nat /\ h + n = b + c + d
  BY PublishSums, Zenon
<1> HIDE DEF g, c, d, n, b, h
<1>4. InLength \in Nat
  BY InLengthType, Zenon
<1>5. Len(g) = b + c + d
  BY <1>1, <1>3, Zenon
<1>6. b + c <= InLength
  BY <1>2, <1>3, <1>4, <1>5, Without5, Zenon
<1> QED
  BY <1>6, Zenon DEF b, c

\* The front of a PUBLISH, when it holds all but the data.
LEMMA FrontIs ==
    ASSUME NEW m \in Messages, NEW g, FrontOf(g, m), NEW n \in Nat, n <= Len(g),
           AtBlock(m) + Len(Block(Enclosed(m))) <= n, NEW f, f = SubSeq(g, 1, n)
    PROVE  FrontOf(f, m) /\ AtBlock(m) + Len(Block(Enclosed(m))) <= Len(f)
<1> DEFINE e == EncodedLens(BodyLen(m))
           t == String(m.topic)
           x == Block(Enclosed(m))
           h == AtTopic(m)
           b == AtBlock(m)
<1>1. g \in Seq(Nat) /\ Holds(g, 1, e) /\ Holds(g, h, t) /\ Holds(g, b, x)
  BY Zenon DEF FrontOf
<1>2. f \in Seq(Nat) /\ Len(f) = n /\ \A i \in 1..n : f[i] = g[i]
  BY <1>1, Front5, Zenon
<1>3. e \in Seq(Nat) /\ 1 + Len(e) = h
  <2>1. BodyLen(m) \in Nat
    BY PublishSums
  <2> QED
    BY <2>1, EncodedLensType, LenBytesType, Wide DEF AtTopic
<1>4. t \in Seq(Nat) /\ x \in Seq(Nat)
  BY PublishLens, Zenon
<1>5. h \in Nat /\ b \in Nat /\ h + Len(t) <= b
  BY PublishSums, Zenon
<1>6. Len(e) \in Nat /\ Len(t) \in Nat /\ Len(x) \in Nat
  BY <1>3, <1>4, Len5, Zenon
<1>7. b + Len(x) <= Len(f) /\ Len(f) \in Nat /\ \A i \in 1..Len(f) : f[i] = g[i]
  BY <1>2, Zenon
<1> HIDE DEF e, t, x, h, b
<1>8. h + Len(t) <= Len(f) /\ 1 + Len(e) <= Len(f) /\ 1 \in 1..Len(f) /\ 1 \in Nat
  BY <1>3, <1>5, <1>6, <1>7
<1>9. Holds(f, 1, e)
  BY <1>1, <1>3, <1>7, <1>8, HoldsFront, Zenon
<1>10. Holds(f, h, t)
  BY <1>1, <1>4, <1>5, <1>7, <1>8, HoldsFront, Zenon
<1>11. Holds(f, b, x)
  BY <1>1, <1>4, <1>5, <1>7, HoldsFront, Zenon
<1>12. f[1] = g[1]
  BY <1>7, <1>8, Zenon
<1>13. FrontOf(f, m)
  BY <1>2, <1>9, <1>10, <1>11, <1>12, Zenon DEF FrontOf, e, t, x, h, b
<1> QED
  BY <1>7, <1>13, Zenon DEF x, b

\* What the client has read of a message of the broker.
LEMMA BufferIs ==
    ASSUME PropertiesFit, NEW m \in Messages, NEW id \in Nat, NEW g, g = SendPublish(m, id),
           NEW f, f = SubSeq(g, 1, Min({InLength, Len(g)}))
    PROVE  FrontOf(f, m) /\ AtBlock(m) + Len(Block(Enclosed(m))) <= Len(f)
<1> DEFINE n == Min({InLength, Len(g)})
           z == AtBlock(m) + Len(Block(Enclosed(m)))
           k == Len(g)
<1>1. FrontOf(g, m) /\ k = AtTopic(m) + BodyLen(m)
  BY PublishIs, Zenon
<1>2. k \in Nat
  <2>1. g \in Seq(Nat)
    BY <1>1, Zenon DEF FrontOf
  <2> QED
    BY <2>1, Len5, Zenon
<1>3. z \in Nat /\ z <= AtTopic(m) + BodyLen(m)
  BY PublishRoom, Zenon
<1>4. z <= InLength /\ InLength \in Nat
  BY PublishFits, InLengthType, Zenon
<1>5. z <= k
  BY <1>1, <1>3, Zenon
<1>6. n \in Nat /\ n <= k /\ z <= n
  BY <1>2, <1>3, <1>4, <1>5, MinFits, Zenon
<1> QED
  BY <1>1, <1>6, FrontIs, Zenon

\* The parser begins at the topic, and goes on at the properties.
LEMMA ReadsParts ==
    ASSUME NEW m \in Messages, NEW g, FrontOf(g, m),
           AtBlock(m) + Len(Block(Enclosed(m))) <= Len(g)
    PROVE  /\ BodyStart(g, Len(g)) = AtTopic(m)
           /\ StringEnd(g, AtTopic(m)) + (IF mqtt_get_qos(g) > 0 THEN 2 ELSE 0) = AtBlock(m)
<1> DEFINE n == BodyLen(m)
           t == String(m.topic)
           h == AtTopic(m)
           b == AtBlock(m)
           c == Len(Block(Enclosed(m)))
           k == Len(g)
<1>1. /\ g \in Seq(Nat) /\ Holds(g, 1, EncodedLens(n)) /\ Holds(g, h, t)
      /\ \E flags \in 0..15 : (flags \div 2) % 4 = m.qos /\ g[1] = 16 * PUBLISH + flags
  BY Zenon DEF FrontOf
<1>2. b \in Nat /\ c \in Nat /\ n \in Nat /\ h \in Nat /\ h + Len(t) <= b
  BY PublishSums, Zenon
<1>3. k \in Nat /\ Len(t) \in Nat /\ m.topic \in Seq(Nat)
  BY <1>1, PublishLens, Len5, Zenon
<1>4. h = 1 + LenBytes(n) /\ b = h + Len(t) + IdLen(m.qos)
  BY Zenon DEF AtTopic, AtBlock
<1>5. b + c <= k
  OBVIOUS
<1> HIDE DEF n, h, b, c, k
<1>6. 1 + LenBytes(n) <= k /\ 1 \in Nat
  BY <1>2, <1>3, <1>4, <1>5
<1>7. VariableLenBytes(g, 1, k) = LenBytes(n)
  BY <1>1, <1>2, <1>3, <1>6, DigitsRead, Zenon
<1>8. BodyStart(g, k) = h
  <2>1. get_variable_len(g, 1, k).bytes = VariableLenBytes(g, 1, k)
    BY DEF get_variable_len, VariableLen
  <2> QED
    BY <1>4, <1>7, <2>1 DEF BodyStart
<1>9. StringEnd(g, h) = h + Len(t)
  BY <1>1, <1>2, <1>3, StringFound, Zenon
<1>10. mqtt_get_qos(g) = m.qos
  <2>1. PICK flags \in 0..15 : (flags \div 2) % 4 = m.qos /\ g[1] = 16 * PUBLISH + flags
    BY <1>1
  <2>2. mqtt_get_qos(g) = (flags \div 2) % 4
    BY <2>1, Codes, FirstByte5, Zenon
  <2> QED
    BY <2>1, <2>2, Zenon
<1>11. StringEnd(g, h) + IdLen(m.qos) = b
  BY <1>4, <1>9, Zenon
<1> QED
  BY <1>8, <1>10, <1>11, Zenon DEF IdLen, h, b, k

\* The properties end where the broker's end, so that the alias is a number.
LEMMA AliasHeard ==
    ASSUME NEW m \in Messages, NEW g, FrontOf(g, m),
           AtBlock(m) + Len(Block(Enclosed(m))) <= Len(g), Len(Enclosed(m)) <= MaxRemaining,
           NEW heard, heard = mqtt5_get_publish_property_payload(g), heard.ok
    PROVE  heard.property.topic_alias \in Nat
<1> DEFINE h == AtTopic(m)
           b == AtBlock(m)
           p == Enclosed(m)
           l == Len(p)
           e == EncodedLens(l)
           w == LenBytes(l)
           k == Len(g)
           from == b + w
           end == from + l
           size == get_variable_len(g, b, k)
           ps == Properties(g, from, end, InPublish)
<1>1. g \in Seq(Nat) /\ Holds(g, b, Block(p))
  BY Zenon DEF FrontOf
<1>2. b \in Nat /\ h \in Nat
  BY PublishSums, Zenon
<1>3. p \in Seq(Nat) /\ l \in Nat /\ w \in 1..4 /\ Len(Block(p)) = w + l
  BY PublishLens, Zenon
<1>4. k \in Nat
  BY <1>1, Len5, Zenon
<1>5. Block(p) = e \o p /\ e \in Seq(Nat) /\ Len(e) = w
  <2>1. e \in Seq(Nat) /\ Len(e) = w
    BY <1>3, EncodedLensType, Wide, Zenon
  <2> QED
    BY <2>1, Zenon DEF Block
<1>6. b + (w + l) <= k
  BY <1>3
<1>7. Holds(g, b, e) /\ Holds(g, from, p)
  <2>1. Holds(g, b, e \o p)
    BY <1>1, <1>5
  <2> HIDE DEF e, p, b
  <2>2. Holds(g, b, e) /\ Holds(g, b + Len(e), p)
    BY <1>2, <1>3, <1>5, <2>1, HoldsParts, Zenon
  <2> QED
    BY <1>5, <2>2
<1>8. l <= MaxRemaining
  OBVIOUS
<1> HIDE DEF h, b, p, l, e, w, k
<1>9. from \in Nat /\ end \in Nat /\ from <= end /\ end <= k /\ b + w <= k
  BY <1>2, <1>3, <1>4, <1>6
<1>10. size.bytes = w /\ size.len = l
  <2>1. Holds(g, b, EncodedLens(l)) /\ b + LenBytes(l) <= k
    BY <1>7, <1>9 DEF e, w
  <2>2. /\ VariableLenBytes(g, b, k) = LenBytes(l)
        /\ VariableLen(g, b, LenBytes(l)).len = l
    BY <1>2, <1>3, <1>4, <1>8, <2>1, DigitsRead, Zenon
  <2>3. size = VariableLen(g, b, w)
    BY <2>2, Zenon DEF get_variable_len, w
  <2>4. VariableLen(g, b, w).bytes = w
    BY DEF VariableLen
  <2> QED
    BY <2>2, <2>3, <2>4, Zenon DEF w
<1>11. PropertyBlock(g, b, k, InPublish) = ps
  <2> HIDE DEF size
  <2>1. PropertyBlock(g, b, k, InPublish) = BlockOf(g, size, b, InPublish)
    BY Zenon DEF PropertyBlock, size
  <2> QED
    BY <1>10, <2>1, Zenon DEF BlockOf
<1>12. Covers(g, end, from, end)
  <2>1. m.property \in esp_mqtt5_publish_property_config_t
    BY PublishLens, Zenon
  <2>2. Spans(p, g, end)
    BY <1>9, <2>1, SpansEnclosed, Zenon DEF p
  <2>3. from + Len(p) = end /\ end <= end
    BY <1>9 DEF l
  <2> HIDE DEF from, end
  <2>4. Covers(g, end, from, from + Len(p))
    BY <1>7, <1>9, <2>2, <2>3, Zenon DEF Spans
  <2> QED
    BY <2>3, <2>4
<1>13. heard = PublishOf(g, h, b, ps)
  <2>1. /\ BodyStart(g, Len(g)) = h
        /\ StringEnd(g, h) + (IF mqtt_get_qos(g) > 0 THEN 2 ELSE 0) = b
    BY ReadsParts, Zenon DEF h, b
  <2>2. heard = PublishAt(g, h, b)
    BY <2>1, Zenon DEF mqtt5_get_publish_property_payload
  <2> HIDE DEF ps
  <2> QED
    BY <1>11, <2>2, Zenon DEF PublishAt, k
<1> HIDE DEF ps, size
<1>14. ps.ok /\ heard.property.topic_alias = NumberOr(g, ps.list, "topic_alias", 0)
  <2> DEFINE gone == b >= Len(g) \/ ~ps.ok
             pay == SubSeq(g, PropertyBlockEnd(g, b, Len(g)) + 1,
                           Min({BodyEnd(g, Len(g)), Len(g)}))
             props == ReadPublishProperties(g, ps.list)
  <2>1. heard = IF gone THEN [ok |-> FALSE]
                ELSE [ok |-> TRUE, topic |-> StringAt(g, h), property |-> props,
                      payload |-> pay]
    BY <1>13, Zenon DEF PublishOf
  <2>2. ~gone
    <3> HIDE DEF gone, pay, props
    <3> SUFFICES ASSUME gone PROVE FALSE
      OBVIOUS
    <3>1. heard = [ok |-> FALSE]
      BY <2>1, Zenon
    <3> QED
      BY <3>1
  <2>3. ps.ok
    BY <2>2
  <2> HIDE DEF gone, pay, props
  <2>4. heard.property = props
    BY <2>1, <2>2
  <2>5. props.topic_alias = NumberOr(g, ps.list, "topic_alias", 0)
    BY DEF props, ReadPublishProperties
  <2> QED
    BY <2>3, <2>4, <2>5
<1>15. ps.list \in Seq(Found(end))
  <2>1. end <= Len(g)
    BY <1>9 DEF k
  <2> HIDE DEF from, end
  <2> QED
    BY <1>1, <1>9, <1>12, <1>14, <2>1, PropertiesFound, Zenon DEF ps
<1>16. NumberOr(g, ps.list, "topic_alias", 0) \in Nat
  <2>1. end <= Len(g)
    BY <1>9 DEF k
  <2> HIDE DEF from, end
  <2> QED
    BY <1>1, <1>9, <1>15, <2>1, AliasIs, Zenon
<1> QED
  BY <1>14, <1>16

\* The length of the properties has four bytes at most.
LEMMA EnclosedShort ==
    ASSUME PropertiesFit, NEW m \in Messages
    PROVE  Len(Enclosed(m)) <= MaxRemaining
<1> DEFINE b == AtBlock(m)
           l == Len(Enclosed(m))
           w == LenBytes(l)
           c == Len(Block(Enclosed(m)))
<1>1. b \in Nat /\ l \in Nat /\ w \in 1..4 /\ c = w + l
  BY PublishLens, Zenon
<1>2. b + c <= InLength
  BY PublishFits, Zenon
<1> HIDE DEF b, l, w, c
<1>3. InLength \in Nat /\ InLength <= MaxRemaining
  BY InLengthType, Zenon
<1>4. MaxRemaining \in Nat
  BY DEF MaxRemaining
<1>5. l <= MaxRemaining
  BY <1>1, <1>2, <1>3, <1>4, Short5, Zenon
<1> QED
  BY <1>5 DEF l

\* So it is in what the client reads of a PUBLISH of the broker.
LEMMA AliasRead ==
    ASSUME PropertiesFit, NEW g, Message5(g), NEW f,
           f = SubSeq(g, 1, Min({InLength, Len(g)})),
           NEW heard, heard = mqtt5_get_publish_property_payload(f), heard.ok
    PROVE  heard.property.topic_alias \in Nat
<1>1. PICK m \in Messages, id \in Nat : g = SendPublish(m, id)
  BY DEF Message5
<1>2. FrontOf(f, m) /\ AtBlock(m) + Len(Block(Enclosed(m))) <= Len(f)
  BY <1>1, BufferIs, Zenon
<1>3. Len(Enclosed(m)) <= MaxRemaining
  BY EnclosedShort, Zenon
<1> QED
  BY <1>2, <1>3, AliasHeard, Zenon

\* The aliases of the broker are those the client allows.
Alias5 == DOMAIN peer_topic_alias \subseteq 1..connect_property.topic_alias_maximum

\* CONNACK leaves the number that the client allows.
LEMMA ConnAckAllows ==
    ASSUME NEW buffer, NEW i, NEW p \in esp_mqtt5_connection_property_storage_t, NEW s,
           NEW c, c = mqtt5_msg_parse_connack_property(buffer, i, p, s), c.ok
    PROVE  c.property.topic_alias_maximum = p.topic_alias_maximum
<1> DEFINE flags == BodyStart(buffer, Len(buffer))
           ps == PropertyBlock(buffer, flags + 2, Len(buffer), InConnAck)
           bad == \/ BodyEnd(buffer, Len(buffer)) > Len(buffer)
                  \/ PropertyBlockEnd(buffer, flags + 2, Len(buffer)) > Len(buffer)
                  \/ ~ps.ok
           new == [p EXCEPT !.session_expiry_interval =
                              NumberOr(buffer, ps.list, "session_expiry_interval", @)]
<1>1. c = IF bad THEN [ok |-> FALSE]
          ELSE [ok |-> TRUE, ack_flag |-> buffer[flags + 1], reason_code |-> buffer[flags + 2],
                info |-> [i EXCEPT
                   !.client_id = StringOr(buffer, ps.list, "assigned_client_identifier", @),
                   !.keepalive = NumberOr(buffer, ps.list, "server_keep_alive", @)],
                property |-> new,
                server |-> ServerOf(buffer, ps.list, s),
                user_property |-> UserPropertyList(buffer, ps.list)]
  BY Zenon DEF mqtt5_msg_parse_connack_property, ConnAckAt, ConnAckOf
<1>2. new.topic_alias_maximum = p.topic_alias_maximum
  <2> DEFINE v == NumberOr(buffer, ps.list, "session_expiry_interval", p.session_expiry_interval)
  <2>1. new = [p EXCEPT !.session_expiry_interval = v]
    OBVIOUS
  <2> HIDE DEF v, new, ps
  <2> QED
    BY <2>1 DEF esp_mqtt5_connection_property_storage_t
<1> HIDE DEF bad, new, ps, flags
<1>3. ~bad
  <2> SUFFICES ASSUME bad PROVE FALSE
    OBVIOUS
  <2>1. c = [ok |-> FALSE]
    BY <1>1, Zenon
  <2> QED
    BY <2>1
<1>4. c.property = new
  BY <1>1, <1>3
<1> QED
  BY <1>2, <1>4

\* An alias that is new is one that is allowed.
LEMMA AliasHears ==
    ASSUME PropertiesFit, IInv, Kept5, Alias5, ReceivesPublish
    PROVE  Alias5'
<1>1. toClient # <<>> /\ mqtt_get_type(in) = PUBLISH /\ connect_property' = connect_property
  BY DEF ReceivesPublish, Receives, Hears, in
<1> DEFINE buffer == SubSeq(in, 1, Min({InLength, Len(in)}))
           heard == mqtt5_get_publish_property_payload(buffer)
           alias == heard.property.topic_alias
           most == connect_property.topic_alias_maximum
           old == DOMAIN peer_topic_alias
<1>2. \/ peer_topic_alias' = peer_topic_alias
      \/ /\ Sound(heard) /\ alias # 0
         /\ \E topic : esp_mqtt5_client_update_topic_alias(alias, topic)
  <2>1. PICK id : HearsPublish(buffer, mqtt_get_qos(buffer), id, heard)
    BY Zenon DEF ReceivesPublish
  <2> HIDE DEF buffer, heard
  <2>2. CASE ~Sound(heard)
    BY <2>1, <2>2 DEF HearsPublish
  <2>3. CASE Sound(heard)
    <3>1. PICK topic : Delivers(buffer, mqtt_get_qos(buffer), heard, alias, topic)
      BY <2>1, <2>3, Zenon DEF HearsPublish
    <3>2. IF alias # 0 /\ heard.topic # <<>>
          THEN esp_mqtt5_client_update_topic_alias(alias, topic)
          ELSE UNCHANGED peer_topic_alias
      BY <3>1, Zenon DEF Delivers
    <3>3. CASE alias # 0 /\ heard.topic # <<>>
      BY <2>3, <3>2, <3>3, Zenon
    <3>4. CASE ~(alias # 0 /\ heard.topic # <<>>)
      BY <3>2, <3>4
    <3> QED
      BY <3>3, <3>4
  <2> QED
    BY <2>2, <2>3
<1>3. CASE peer_topic_alias' = peer_topic_alias
  BY <1>1, <1>3, Zenon DEF Alias5
<1>4. ASSUME Sound(heard), alias # 0, NEW topic, esp_mqtt5_client_update_topic_alias(alias, topic)
      PROVE  Alias5'
  <2>1. Message5(in)
    <3>1. /\ Shrunk(Tail(toClient), toClient) /\ in = toClient[1].bytes
          /\ SaidType(toClient[1]) = PUBLISH
      BY <1>1, FirstHeard, Zenon
    <3>2. TwoHeard(toClient[1], outbox)
      BY <3>1, KindsHeardShrink, Zenon DEF Kept5
    <3> QED
      BY <3>1, <3>2, Zenon DEF TwoHeard
  <2>2. heard.ok /\ alias <= most
    BY <1>4, Zenon DEF Sound
  <2>3. alias \in Nat
    BY <2>1, <2>2, AliasRead, Zenon
  <2>4. most \in Nat
    <3>1. connect_property \in esp_mqtt5_connection_property_storage_t
      BY Parts, Zenon
    <3> QED
      BY <3>1, Zenon DEF esp_mqtt5_connection_property_storage_t
  <2>5. DOMAIN peer_topic_alias' = old \cup {alias}
    <3> HIDE DEF heard
    <3> QED
      BY <1>4, Zenon DEF esp_mqtt5_client_update_topic_alias
  <2>6. old \subseteq 1..most
    BY Zenon DEF Alias5
  <2>7. connect_property'.topic_alias_maximum = most
    BY <1>1
  <2> DEFINE new == DOMAIN peer_topic_alias'
  <2> HIDE DEF heard, most, old, buffer
  <2>8. alias # 0
    BY <1>4
  <2> HIDE DEF alias, new
  <2>9. new \subseteq 1..most
    <3>1. alias \in 1..most
      BY <2>2, <2>3, <2>4, <2>8
    <3> QED
      BY <2>5, <2>6, <3>1, Zenon DEF new
  <2> QED
    BY <2>7, <2>9, Zenon DEF Alias5, new
<1> QED
  BY <1>2, <1>3, <1>4, Zenon

\* The list of aliases and what is allowed do not change.
LEMMA AliasStays ==
    ASSUME Alias5, peer_topic_alias' = peer_topic_alias,
           connect_property'.topic_alias_maximum = connect_property.topic_alias_maximum
    PROVE  Alias5'
BY Zenon DEF Alias5

\* Every step keeps the list of aliases.
LEMMA AliasStep ==
    ASSUME PropertiesFit, IInv, Kept5, Alias5, [Next]_vars
    PROVE  Alias5'
<1> DEFINE Still == peer_topic_alias' = peer_topic_alias /\ connect_property' = connect_property
<1>1. Still => Alias5'
  BY AliasStays, Zenon
<1>2. CASE Call
  <2>1. Calls
    <3>1. CASE \E p \in Publications : Publish(p) \/ PublishOffline(p)
      BY <3>1, Zenon DEF Publish, PublishOffline, Enqueue
    <3>2. CASE \E p \in Stored : Enqueue(p)
      BY <3>2, Zenon DEF Enqueue
    <3>3. CASE \E s \in Subscriptions : esp_mqtt_client_subscribe(s)
      BY <3>3, Zenon DEF esp_mqtt_client_subscribe, SubscribeMessage, Requests
    <3>4. CASE \E u \in Unsubscriptions : esp_mqtt_client_unsubscribe(u)
      BY <3>4, Zenon DEF esp_mqtt_client_unsubscribe, Requests
    <3>5. CASE \E d \in Disconnections : Disconnect(d)
      BY <3>5, Zenon DEF Disconnect
    <3> QED
      BY <1>2, <3>1, <3>2, <3>3, <3>4, <3>5, Zenon DEF Call
  <2>2. Still
    BY <2>1 DEF Calls
  <2> QED
    BY <1>1, <2>2, Zenon
<1>3. CASE Connect
  <2>1. Still
    BY <1>3 DEF Connect
  <2> QED
    BY <1>1, <2>1, Zenon
<1>4. CASE ReceivesConnAck
  <2> DEFINE c == mqtt5_msg_parse_connack_property(in, info, connect_property, server)
  <2>1. peer_topic_alias' = peer_topic_alias /\ HearsConnAck(c)
    BY <1>4, Zenon DEF ReceivesConnAck
  <2>2. connect_property \in esp_mqtt5_connection_property_storage_t
    BY Parts, Zenon
  <2>3. c.ok => c.property.topic_alias_maximum = connect_property.topic_alias_maximum
    BY <2>2, ConnAckAllows
  <2> HIDE DEF c
  <2>4. connect_property' = connect_property \/ (c.ok /\ connect_property' = c.property)
    BY <2>1 DEF HearsConnAck
  <2> QED
    BY <1>1, <2>1, <2>3, <2>4, AliasStays, Zenon
<1>5. CASE ReceivesPublish
  BY <1>5, AliasHears, Zenon
<1>6. ASSUME NEW type, Receives(type), peer_topic_alias' = peer_topic_alias PROVE Alias5'
  <2>1. Still
    BY <1>6 DEF Receives
  <2> QED
    BY <1>1, <2>1, Zenon
<1>7. CASE ReceivesPuback \/ ReceivesPubcomp \/ ReceivesSuback \/ ReceivesUnsuback
  <2>1. PICK type, initiator, told : Finishes(type, initiator, told)
    BY <1>7, Zenon DEF ReceivesPuback, ReceivesPubcomp, ReceivesSuback, ReceivesUnsuback
  <2>2. Receives(type) /\ peer_topic_alias' = peer_topic_alias
    BY <2>1 DEF Finishes
  <2> QED
    BY <1>6, <2>2, Zenon
<1>8. CASE ReceivesPubrec
  <2>1. Receives(PUBREC) /\ peer_topic_alias' = peer_topic_alias
    BY <1>8 DEF ReceivesPubrec
  <2> QED
    BY <1>6, <2>1, Zenon
<1>9. CASE ReceivesPubrel
  <2>1. Receives(PUBREL) /\ peer_topic_alias' = peer_topic_alias
    BY <1>9 DEF ReceivesPubrel
  <2> QED
    BY <1>6, <2>1, Zenon
<1>10. CASE ReceivesDisconnect
  <2>1. Receives(DISCONNECT) /\ peer_topic_alias' = peer_topic_alias
    BY <1>10 DEF ReceivesDisconnect
  <2> QED
    BY <1>6, <2>1, Zenon
<1>11. CASE ResendQueued \/ \E publish, pubrel \in BOOLEAN : Retransmit(publish, pubrel)
  <2>1. Resends
    BY <1>11, Zenon DEF ResendQueued, Retransmit
  <2>2. Still
    BY <2>1 DEF Resends
  <2> QED
    BY <1>1, <2>2, Zenon
<1>12. CASE LinkFails \/ LinkCloses
  <2>1. LinkGoes
    BY <1>12, Zenon DEF LinkFails, LinkCloses
  <2>2. Still
    BY <2>1 DEF LinkGoes
  <2> QED
    BY <1>1, <2>2, Zenon
<1>13. CASE BrokerReads
  <2>1. Still
    BY <1>13 DEF BrokerReads, client
  <2> QED
    BY <1>1, <2>1, Zenon
<1>14. ASSUME NEW bytes, NEW record, BrokerSends(bytes, record) PROVE Alias5'
  <2>1. Still
    BY <1>14 DEF BrokerSends, client
  <2> QED
    BY <1>1, <2>1, Zenon
<1>15. CASE (\E m \in Messages : BrokerPublishes(m)) \/ BrokerDisconnects
  BY <1>14, <1>15, Zenon DEF BrokerPublishes, BrokerDisconnects
<1>16. CASE UNCHANGED vars
  <2>1. Still
    BY <1>16 DEF vars, client
  <2> QED
    BY <1>1, <2>1, Zenon
<1>17. CASE \E i \in DOMAIN outbox : Expire(i)
  <2>1. Still
    BY <1>17 DEF Expire
  <2> QED
    BY <1>1, <2>1, Zenon
<1> QED
  BY <1>2, <1>3, <1>4, <1>5, <1>7, <1>8, <1>9, <1>10, <1>11, <1>12, <1>13, <1>15, <1>16,
     <1>17, Zenon DEF Next, Receive

---------------------------------------------------------------------------
\* The types.

\* What holds of every state, when what the broker publishes fits, too.
Typed5 == Inv5 /\ Kept5 /\ Ranges5 /\ Alias5

LEMMA TypedStarts == Init => Typed5
<1> SUFFICES ASSUME Init PROVE Typed5
  OBVIOUS
<1>1. Kept5 /\ IInv
  BY KeptStarts, Starts, Zenon
<1>2. /\ messages = 0 /\ send_publish_packet_count = 0 /\ fragmented_msg_data_offset = 0
      /\ last_message_id = 0 /\ peer_topic_alias = <<>>
  BY Zenon DEF Init
<1>3. Inv5
  <2>1. 0 \in Nat
    OBVIOUS
  <2> QED
    BY <1>1, <1>2, <2>1, Zenon DEF Inv5
<1>4. Ranges5
  <2>1. OutLength \in Nat
    BY OutLengthIs, Zenon
  <2>2. \A k \in Nat : 0 \in 0..k
    OBVIOUS
  <2>3. send_publish_packet_count \in 0..(last_message_id + 1)
    BY <1>2
  <2> QED
    BY <1>2, <2>1, <2>2, <2>3, Zenon DEF Ranges5
<1>5. Alias5
  BY <1>2 DEF Alias5
<1> QED
  BY <1>1, <1>3, <1>4, <1>5, Zenon DEF Typed5

LEMMA TypedStep ==
    ASSUME StoredFits, PropertiesFit, Typed5, [Next]_vars
    PROVE  Typed5'
<1>1. IInv /\ messages \in Nat /\ Kept5 /\ Ranges5 /\ Alias5
  BY Zenon DEF Typed5, Inv5
<1>2. messages' \in Nat
  BY <1>1, Counted5, Zenon
<1>3. Alias5'
  BY <1>1, AliasStep, Zenon
<1>4. CASE Next
  <2>1. IInv'
    BY <1>1, <1>4, NextStep, Zenon
  <2>2. Kept5'
    BY <1>1, <1>4, KeptStep, Zenon
  <2>3. Ranges5'
    BY <1>1, <1>4, <2>1, RangesStep, Zenon
  <2> QED
    BY <1>2, <1>3, <2>1, <2>2, <2>3, Zenon DEF Typed5, Inv5
<1>5. CASE UNCHANGED vars
  <2>1. IInv' /\ Kept5'
    BY <1>1, <1>5, StutterStep, KeptStutters, Zenon
  <2>2. /\ send_publish_packet_count' = send_publish_packet_count
        /\ fragmented_msg_data_offset' = fragmented_msg_data_offset
        /\ last_message_id' = last_message_id
    BY <1>5 DEF vars, client
  <2>3. Ranges5'
    BY <1>1, <2>2, Zenon DEF Ranges5
  <2> QED
    BY <1>2, <1>3, <2>1, <2>3, Zenon DEF Typed5, Inv5
<1> QED
  BY <1>4, <1>5, Zenon

\* The types are among it.
LEMMA TypesFollow == Typed5 => Mqtt5TypeOK
<1> SUFFICES ASSUME Typed5 PROVE Mqtt5TypeOK
  OBVIOUS
<1>1. IInv /\ Kept5 /\ Ranges5 /\ Alias5
  BY Zenon DEF Typed5, Inv5
<1>2. /\ state \in {"down", "connecting", "CONNECTED"}
      /\ state = "down" => toClient = <<>>
      /\ Items(outbox, last_message_id)
  BY <1>1, Parts, Zenon
<1>3. /\ \A i \in DOMAIN outbox : outbox[i].pending \in Pending
      /\ \A i, j \in DOMAIN outbox :
            outbox[i].id = outbox[j].id /\ outbox[i].id # 0 => i = j
  BY <1>2, Zenon DEF Items, ItemOK
<1>4. /\ inflight \subseteq accepted
      /\ \A i \in DOMAIN outbox :
            outbox[i].pending = "ACKNOWLEDGED" => outbox[i].type = PUBLISH /\ outbox[i].qos = 2
  BY <1>1, Zenon DEF Kept5, Kinds, TwoItem
<1>5. /\ send_publish_packet_count \in 0..(last_message_id + 1)
      /\ fragmented_msg_data_offset \in 0..OutLength
      /\ DOMAIN peer_topic_alias \subseteq 1..connect_property.topic_alias_maximum
  BY <1>1, Zenon DEF Ranges5, Alias5
<1> QED
  BY <1>2, <1>3, <1>4, <1>5, Zenon DEF Mqtt5TypeOK

\* What is stored, and what the broker publishes but for its data, fits the
\* buffers: then the outbox, the counter, the offset of a long message and the
\* aliases keep their types, whatever bytes the client is sent and finds in
\* them; for every configuration and every message (mqtt_client.c:1088, 1729;
\* mqtt5_client.c:32, 204).
THEOREM Mqtt5Types ==
    ASSUME StoredFits, PropertiesFit
    PROVE  Spec => []Mqtt5TypeOK
<1>1. Typed5 /\ [Next]_vars => Typed5'
  BY TypedStep, Zenon
<1> QED
  BY <1>1, TypedStarts, TypesFollow, PTL DEF Spec

=============================================================================
