------------------------------ MODULE Mqtt5Msg ------------------------------
(***************************************************************************)
(* components/mqtt/lib/mqtt5_msg.c: the messages of MQTT 5, on sequences   *)
(* of bytes as in MqttMsg.  An offset counts from 0 as in the code.        *)
(*                                                                         *)
(* A property of the application that is NULL, or a number that is 0, is   *)
(* the default of its record: the code leaves it out.  Memory is never     *)
(* short.  Values have fewer than 31 bits.  What a parser has stored before *)
(* it gives up is left out.                                                *)
(***************************************************************************)
EXTENDS MqttMsg

CONSTANT OutLength      \* connection->buffer_length

ASSUME Mqtt5MsgAssumption == OutLength \in 16..65535

MQTT5_MAX_FIXED_HEADER_SIZE == 5
MQTT5_MAX_PROPERTY_STRING_LEN == 16 * 1024

\* mqtt_msg.h: the other types of enum mqtt_message_type.
CONNECT == 1
SUBSCRIBE == 8
UNSUBSCRIBE == 10
DISCONNECT == 14

\* enum mqtt_properties_type.
MQTT5_PROPERTY ==
    [payload_format_indicator |-> 1, message_expiry_interval |-> 2,
     content_type |-> 3, response_topic |-> 8, correlation_data |-> 9,
     subscribe_identifier |-> 11, session_expiry_interval |-> 17,
     assigned_client_identifier |-> 18, server_keep_alive |-> 19,
     authentication_method |-> 21, authentication_data |-> 22,
     request_problem_info |-> 23, will_delay_interval |-> 24,
     request_resp_info |-> 25, resp_info |-> 26, server_reference |-> 28,
     reason_string |-> 31, receive_maximum |-> 33, topic_alias_maximum |-> 34,
     topic_alias |-> 35, maximum_qos |-> 36, retain_available |-> 37,
     user_property |-> 38, maximum_packet_size |-> 39,
     wildcard_subscr_available |-> 40, subscr_identifier_available |-> 41,
     shared_subscr_available |-> 42]

Ids(names) == {MQTT5_PROPERTY[name] : name \in names}

\* The properties that the parsers read as one, two and four bytes.
OneByte == Ids({"payload_format_indicator", "request_problem_info",
                "request_resp_info", "maximum_qos", "retain_available",
                "wildcard_subscr_available", "subscr_identifier_available",
                "shared_subscr_available"})
TwoBytes == Ids({"server_keep_alive", "receive_maximum", "topic_alias_maximum",
                 "topic_alias"})
FourBytes == Ids({"message_expiry_interval", "session_expiry_interval",
                  "will_delay_interval", "maximum_packet_size"})

---------------------------------------------------------------------------
\* Numbers.

\* The bytes of append_property, and MQTT5_CONVERT_ONE_BYTE_TO_FOUR back.
BigEndian(n, k) == [i \in 1..k |-> (n \div (256 ^ (k - i))) % 256]
FromBigEndian(bytes) ==
    LET byte(i) == IF i < Len(bytes) THEN bytes[Len(bytes) - i] ELSE 0
    IN byte(0) + 256 * byte(1) + 65536 * byte(2) + 16777216 * byte(3)

\* get_variable_len: the bytes read and what they say.
VariableLenBytes(buffer, offset, length) ==
    LET last == {i \in 0..3 : offset + i < length /\ buffer[offset + i + 1] < 128}
    IN IF last # {} THEN Min(last) + 1
       ELSE IF offset + 4 <= length THEN 0
       ELSE Max({length - offset, 0})
VariableLen(buffer, offset, bytes) ==
    LET digit(i) == IF i <= bytes THEN buffer[offset + i] % 128 ELSE 0
    IN [bytes |-> bytes,
        len |-> digit(1) + 128 * digit(2) + 16384 * digit(3) + 2097152 * digit(4)]
get_variable_len(buffer, offset, length) ==
    VariableLen(buffer, offset, VariableLenBytes(buffer, offset, length))

\* Where the body of a message begins, and where it ends.
BodyStart(buffer, length) == 1 + get_variable_len(buffer, 1, length).bytes
BodyEnd(buffer, length) ==
    BodyStart(buffer, length) + get_variable_len(buffer, 1, length).len

WordAt(buffer, offset) == 256 * buffer[offset + 1] + buffer[offset + 2]

---------------------------------------------------------------------------
\* Building a message.  Every step of the code adds to outbound_message.length
\* and fails when it passes the end of the buffer, so that the whole fails if
\* and only if its end lies beyond.

Failed == <<>>
Fits(rest) == MQTT5_MAX_FIXED_HEADER_SIZE + Len(rest) <= OutLength

\* fini_message, of a message that is not fragmented.
Finished(type, qos, rest) ==
    IF Fits(rest) THEN fini_message(type, qos, rest) ELSE Failed

String(string) == append_string(<<>>, string)

\* append_property.
NumberProperty(name, k, n) ==
    IF n = 0 THEN <<>> ELSE <<MQTT5_PROPERTY[name]>> \o BigEndian(n, k)
FlagProperty(name, flag) ==
    IF flag THEN <<MQTT5_PROPERTY[name], 1>> ELSE <<>>
VariableProperty(name, n) ==
    IF n = 0 THEN <<>> ELSE <<MQTT5_PROPERTY[name]>> \o EncodedLens(n)
StringProperty(name, string) ==
    IF string = <<>> THEN <<>> ELSE <<MQTT5_PROPERTY[name]>> \o String(string)
UserProperties(list) ==
    FlattenSeq([i \in DOMAIN list |->
                   <<MQTT5_PROPERTY.user_property>>
                     \o String(list[i].key) \o String(list[i].value)])

\* Seeded fault: the length of the properties has one byte.
update_property_len_value_OneByte(properties) == <<Len(properties)>> \o properties

\* update_property_len_value puts the length in front, in one byte or more.
update_property_len_value(properties) == EncodedLens(Len(properties)) \o properties

ConnectProperties(property) ==
    NumberProperty("session_expiry_interval", 4, property.session_expiry_interval)
      \o NumberProperty("maximum_packet_size", 4, property.maximum_packet_size)
      \o NumberProperty("receive_maximum", 2, property.receive_maximum)
      \o NumberProperty("topic_alias_maximum", 2, property.topic_alias_maximum)
      \o FlagProperty("request_resp_info", property.request_resp_info)
      \o FlagProperty("request_problem_info", property.request_problem_info)
      \o UserProperties(property.user_property)

WillProperties(property) ==
    NumberProperty("will_delay_interval", 4, property.will_delay_interval)
      \o FlagProperty("payload_format_indicator", property.payload_format_indicator)
      \o NumberProperty("message_expiry_interval", 4, property.message_expiry_interval)
      \o StringProperty("content_type", property.content_type)
      \o StringProperty("response_topic", property.response_topic)
      \o StringProperty("correlation_data", property.correlation_data)
      \o UserProperties(property.user_property)

\* A will, a username and a password that are empty are absent; a password
\* without a username brings an empty one with it.
ConnectFlags(info) ==
    (IF info.clean_session THEN 2 ELSE 0)
      + (IF info.will_topic = <<>> THEN 0
         ELSE 4 + (8 * info.will_qos) + IF info.will_retain THEN 32 ELSE 0)
      + (IF info.username # <<>> \/ info.password # <<>> THEN 128 ELSE 0)
      + (IF info.password # <<>> THEN 64 ELSE 0)

mqtt5_msg_connect(info, property, will_property) ==
    Finished(CONNECT, 0,
        <<0, 4, 77, 81, 84, 84, 5, ConnectFlags(info)>> \o Word(info.keepalive)
          \o update_property_len_value(ConnectProperties(property))
          \o String(info.client_id)
          \o (IF info.will_topic = <<>> THEN <<>>
              ELSE update_property_len_value(WillProperties(will_property))
                     \o String(info.will_topic) \o String(info.will_message))
          \o (IF info.username = <<>> /\ info.password = <<>> THEN <<>>
              ELSE String(info.username))
          \o (IF info.password = <<>> THEN <<>> ELSE String(info.password)))

\* With the response information of the server, snprintf writes "%s/%s" into
\* room that is too small by one character, and its terminator is sent.
ResponseTopic(topic, info) ==
    IF topic = <<>> \/ info = <<>> THEN topic
    ELSE SubSeq(topic \o <<47>> \o info, 1, Len(topic) + Len(info)) \o <<0>>

PublishProperties(property, info) ==
    FlagProperty("payload_format_indicator", property.payload_format_indicator)
      \o NumberProperty("message_expiry_interval", 4, property.message_expiry_interval)
      \o NumberProperty("topic_alias", 2, property.topic_alias)
      \o StringProperty("response_topic", ResponseTopic(property.response_topic, info))
      \o StringProperty("correlation_data", property.correlation_data)
      \o UserProperties(property.user_property)
      \o StringProperty("content_type", property.content_type)

\* mqtt5_msg_publish: the bytes in the buffer, the length of the whole if it
\* is fragmented, and what fragmented_msg_data_offset, which was `offset`, is
\* after fini_message.
mqtt5_msg_publish(topic, data, qos, retain, id, property, info, offset) ==
    LET header == append_string(<<>>, topic)
                    \o (IF qos > 0 THEN Word(id) ELSE <<>>)
                    \o update_property_len_value(PublishProperties(property, info))
        room == OutLength - MQTT5_MAX_FIXED_HEADER_SIZE - Len(header)
        fragmented == Len(data) > room
        encoded_lens == EncodedLens(Len(header) + Len(data))
        offs == MQTT5_MAX_FIXED_HEADER_SIZE - 1 - Len(encoded_lens)
    IN IF (topic = <<>> /\ property.topic_alias = 0) \/ ~Fits(header)
       THEN [message |-> Failed, fragmented |-> FALSE, offset |-> offset]
       ELSE [message |-> <<16 * PUBLISH + 2 * qos + IF retain THEN 1 ELSE 0>>
                           \o encoded_lens \o header
                           \o (IF fragmented THEN SubSeq(data, 1, room) ELSE data),
             fragmented |-> fragmented,
             offset |-> (IF fragmented THEN MQTT5_MAX_FIXED_HEADER_SIZE + Len(header)
                         ELSE offset) - offs]

\* "$share/%s/%s".
SharedTopic(property, filter) ==
    IF property.is_share_subscribe
    THEN <<36, 115, 104, 97, 114, 101, 47>> \o property.share_name
           \o <<47>> \o filter
    ELSE filter

SubscribeOptions(property, qos) ==
    qos + (16 * property.retain_handle)
      + (IF property.no_local_flag THEN 4 ELSE 0)
      + (IF property.retain_as_published_flag THEN 8 ELSE 0)

mqtt5_msg_subscribe(topic_list, id, property) ==
    Finished(SUBSCRIBE, 1,
        Word(id)
          \o update_property_len_value(
                 VariableProperty("subscribe_identifier", property.subscribe_id)
                   \o UserProperties(property.user_property))
          \o FlattenSeq([i \in DOMAIN topic_list |->
                 String(SharedTopic(property, topic_list[i].filter))
                   \o <<SubscribeOptions(property, topic_list[i].qos)>>]))

mqtt5_msg_unsubscribe(topic, id, property) ==
    IF topic = <<>> THEN Failed
    ELSE Finished(UNSUBSCRIBE, 1,
             Word(id)
               \o update_property_len_value(UserProperties(property.user_property))
               \o String(SharedTopic(property, topic)))

mqtt5_msg_disconnect(property) ==
    Finished(DISCONNECT, 0,
        <<property.disconnect_reason>>
          \o update_property_len_value(
                 NumberProperty("session_expiry_interval", 4, property.session_expiry_interval)
                   \o UserProperties(property.user_property)))

\* Reason code 0 and no properties.
Acknowledges(type, qos, id) ==
    Finished(type, qos, Word(id) \o <<0>> \o update_property_len_value(<<>>))

mqtt5_msg_puback(id) == Acknowledges(PUBACK, 0, id)
mqtt5_msg_pubrec(id) == Acknowledges(PUBREC, 0, id)
mqtt5_msg_pubrel(id) == Acknowledges(PUBREL, 1, id)
mqtt5_msg_pubcomp(id) == Acknowledges(PUBCOMP, 0, id)

---------------------------------------------------------------------------
\* Taking a message apart.

\* mqtt5_property_has_bytes, and the string of a property.
HasBytes(offset, needed, end) == offset + needed <= end
HasString(buffer, offset, end) ==
    /\ HasBytes(offset, 2, end)
    /\ WordAt(buffer, offset) <= MQTT5_MAX_PROPERTY_STRING_LEN
    /\ HasBytes(offset + 2, WordAt(buffer, offset), end)
StringEnd(buffer, offset) == offset + 2 + WordAt(buffer, offset)
StringAt(buffer, offset) == SubSeq(buffer, offset + 3, StringEnd(buffer, offset))

\* The properties whose length the parsers do not compare with the block's.
Unchecked == Ids({"correlation_data", "content_type", "receive_maximum",
                  "maximum_packet_size", "topic_alias_maximum"})

\* Where the value of a property ends that begins at offset and, if its length
\* is fixed by the type, has that many bytes; 0 if the parser gives up.
FixedEnd(id, offset, bytes, end) ==
    IF id \in Unchecked \/ HasBytes(offset, bytes, end) THEN offset + bytes ELSE 0
ValueEnd(buffer, id, offset, end) ==
    IF id \in OneByte THEN FixedEnd(id, offset, 1, end)
    ELSE IF id \in TwoBytes THEN FixedEnd(id, offset, 2, end)
    ELSE IF id \in FourBytes THEN FixedEnd(id, offset, 4, end)
    ELSE IF id = MQTT5_PROPERTY.subscribe_identifier
    THEN FixedEnd(id, offset, VariableLenBytes(buffer, offset, end), end)
    ELSE IF id = MQTT5_PROPERTY.user_property
    THEN IF HasString(buffer, offset, end)
              /\ HasString(buffer, StringEnd(buffer, offset), end)
         THEN StringEnd(buffer, StringEnd(buffer, offset)) ELSE 0
    ELSE IF id \in Unchecked \/ HasString(buffer, offset, end)
    THEN StringEnd(buffer, offset) ELSE 0

\* The loop `while (property_offset < property_len)`, from offset to end: the
\* properties in their order, and whether the parser got to the end.  A round
\* takes a byte at least.
PropertyAt(buffer, offset, end) ==
    [id |-> buffer[offset + 1], at |-> offset + 1,
     to |-> ValueEnd(buffer, buffer[offset + 1], offset + 1, end)]
GaveUp == [ok |-> FALSE, list |-> <<>>]
Before(item, rest) == [ok |-> rest.ok, list |-> <<item>> \o rest.list]
Properties(buffer, from, end, accepted) ==
    LET loop[rounds \in Nat] ==
            [offset \in Nat |->
                IF offset >= end THEN [ok |-> TRUE, list |-> <<>>]
                ELSE LET item == PropertyAt(buffer, offset, end)
                     IN IF rounds = 0 \/ item.id \notin accepted \/ item.to = 0
                        THEN GaveUp ELSE Before(item, loop[rounds - 1][item.to])]
    IN loop[end - from][from]

\* A block of properties with its length in front.
BlockOf(buffer, size, offset, accepted) ==
    Properties(buffer, offset + size.bytes, offset + size.bytes + size.len, accepted)
PropertyBlock(buffer, offset, length, accepted) ==
    BlockOf(buffer, get_variable_len(buffer, offset, length), offset, accepted)
EndOf(size, offset) == offset + size.bytes + size.len
PropertyBlockEnd(buffer, offset, length) ==
    EndOf(get_variable_len(buffer, offset, length), offset)

\* What the parser leaves in a variable: the last value, or the one before.
Given(list, name) == {i \in DOMAIN list : list[i].id = MQTT5_PROPERTY[name]}
Bytes(buffer, item) == SubSeq(buffer, item.at + 1, item.to)
Latest(list, name) == list[Max(Given(list, name))]
NumberOr(buffer, list, name, otherwise) ==
    IF Given(list, name) = {} THEN otherwise
    ELSE FromBigEndian(Bytes(buffer, Latest(list, name)))
FlagOr(buffer, list, name, otherwise) ==
    NumberOr(buffer, list, name, IF otherwise THEN 1 ELSE 0) # 0
StringOr(buffer, list, name, otherwise) ==
    IF Given(list, name) = {} THEN otherwise
    ELSE StringAt(buffer, Latest(list, name).at)
VariableOr(buffer, list, name, otherwise) ==
    IF Given(list, name) = {} THEN otherwise
    ELSE get_variable_len(buffer, Latest(list, name).at, Latest(list, name).to).len

\* mqtt5_msg_set_user_property appends to the list.
UserPropertyList(buffer, list) ==
    LET mine == SelectSeq(list, LAMBDA item : item.id = MQTT5_PROPERTY.user_property)
    IN [i \in DOMAIN mine |->
           [key |-> StringAt(buffer, mine[i].at),
            value |-> StringAt(buffer, StringEnd(buffer, mine[i].at))]]

\* mqtt5_msg_get_user_property of a block; nothing if the parser gave up.
UserPropertiesOf(buffer, properties) ==
    IF properties.ok THEN UserPropertyList(buffer, properties.list) ELSE <<>>
mqtt5_msg_get_user_property(buffer, offset, length) ==
    UserPropertiesOf(buffer, PropertyBlock(buffer, offset, length,
                                           Ids({"reason_string", "user_property"})))

IdAfter(buffer, topic_end, length) ==
    IF topic_end + 2 <= length /\ mqtt_get_qos(buffer) > 0
    THEN WordAt(buffer, topic_end) ELSE 0
IdAt(buffer, offset, length) ==
    IF offset + 2 > length THEN 0
    ELSE IF mqtt_get_type(buffer) = PUBLISH
    THEN IdAfter(buffer, StringEnd(buffer, offset), length)
    ELSE IF mqtt_get_type(buffer) \in {PUBACK, PUBREC, PUBREL, PUBCOMP, SUBACK, UNSUBACK,
                                       SUBSCRIBE, UNSUBSCRIBE}
    THEN WordAt(buffer, offset)
    ELSE 0
mqtt5_get_id(buffer, length) == IdAt(buffer, BodyStart(buffer, length), length)

InPublish == Ids({"payload_format_indicator", "message_expiry_interval",
                  "topic_alias", "response_topic", "correlation_data",
                  "subscribe_identifier", "content_type", "user_property",
                  "reason_string"})

ReadPublishProperties(buffer, list) ==
    [payload_format_indicator |-> FlagOr(buffer, list, "payload_format_indicator", FALSE),
     message_expiry_interval |-> NumberOr(buffer, list, "message_expiry_interval", 0),
     topic_alias |-> NumberOr(buffer, list, "topic_alias", 0),
     response_topic |-> StringOr(buffer, list, "response_topic", <<>>),
     correlation_data |-> StringOr(buffer, list, "correlation_data", <<>>),
     content_type |-> StringOr(buffer, list, "content_type", <<>>),
     subscribe_id |-> VariableOr(buffer, list, "subscribe_identifier", 0),
     user_property |-> UserPropertyList(buffer, list)]

\* mqtt5_get_publish_property_payload, with buffer_length = Len(buffer): the
\* message may go on after the buffer, but not before its properties end.
PublishOf(buffer, topic, block, properties) ==
    IF block >= Len(buffer) \/ ~properties.ok
    THEN [ok |-> FALSE]
    ELSE [ok |-> TRUE,
          topic |-> StringAt(buffer, topic),
          property |-> ReadPublishProperties(buffer, properties.list),
          payload |-> SubSeq(buffer, PropertyBlockEnd(buffer, block, Len(buffer)) + 1,
                             Min({BodyEnd(buffer, Len(buffer)), Len(buffer)}))]
PublishAt(buffer, topic, block) ==
    PublishOf(buffer, topic, block, PropertyBlock(buffer, block, Len(buffer), InPublish))
mqtt5_get_publish_property_payload(buffer) ==
    LET topic == BodyStart(buffer, Len(buffer))
    IN PublishAt(buffer, topic,
                 StringEnd(buffer, topic) + IF mqtt_get_qos(buffer) > 0 THEN 2 ELSE 0)

\* mqtt5_get_suback_data, and mqtt5_get_unsuback_data: the reason codes.
NoData == [data |-> <<>>, user_property |-> <<>>]
CodesAt(buffer, block, data, totlen) ==
    IF totlen > Len(buffer) \/ block >= totlen \/ data >= totlen THEN NoData
    ELSE [data |-> SubSeq(buffer, data + 1, totlen),
          user_property |-> mqtt5_msg_get_user_property(buffer, block, totlen)]
mqtt5_get_suback_data(buffer) ==
    LET block == BodyStart(buffer, Len(buffer)) + 2
        totlen == BodyEnd(buffer, Len(buffer))
    IN CodesAt(buffer, block, PropertyBlockEnd(buffer, block, totlen), totlen)

\* mqtt5_get_puback_data, and mqtt5_get_pubcomp_data.
CodeAt(buffer, reason, totlen) ==
    IF reason >= totlen THEN NoData
    ELSE [data |-> <<buffer[reason + 1]>>,
          user_property |->
              IF reason + 1 < totlen
              THEN mqtt5_msg_get_user_property(buffer, reason + 1, totlen) ELSE <<>>]
mqtt5_get_puback_data(buffer) ==
    CodeAt(buffer, BodyStart(buffer, Len(buffer)) + 2, BodyEnd(buffer, Len(buffer)))

ByteOr(buffer, at) == IF at < Len(buffer) THEN buffer[at + 1] ELSE -1
mqtt5_msg_get_reason_code(buffer) ==
    LET offset == BodyStart(buffer, Len(buffer))
        type == mqtt_get_type(buffer)
    IN IF type \in {PUBACK, PUBREC, PUBREL, PUBCOMP}
       THEN IF BodyEnd(buffer, Len(buffer)) = offset + 2 THEN 0 ELSE ByteOr(buffer, offset + 2)
       ELSE IF type \in {SUBACK, UNSUBACK}
       THEN ByteOr(buffer, PropertyBlockEnd(buffer, offset + 2, Len(buffer)))
       ELSE IF type = DISCONNECT THEN ByteOr(buffer, offset)
       ELSE -1

InConnAck == Ids({"session_expiry_interval", "receive_maximum", "maximum_qos",
                  "retain_available", "maximum_packet_size",
                  "assigned_client_identifier", "topic_alias_maximum",
                  "reason_string", "user_property", "wildcard_subscr_available",
                  "subscr_identifier_available", "shared_subscr_available",
                  "server_keep_alive", "resp_info", "server_reference",
                  "authentication_method", "authentication_data"})

ServerOf(buffer, list, server) ==
    LET Number(name, old) == NumberOr(buffer, list, name, old)
        Flag(name, old) == FlagOr(buffer, list, name, old)
    IN [maximum_packet_size |-> Number("maximum_packet_size", server.maximum_packet_size),
        receive_maximum |-> Number("receive_maximum", server.receive_maximum),
        topic_alias_maximum |-> Number("topic_alias_maximum", server.topic_alias_maximum),
        max_qos |-> Number("maximum_qos", server.max_qos),
        retain_available |-> Flag("retain_available", server.retain_available),
        wildcard_subscribe_available |->
            Flag("wildcard_subscr_available", server.wildcard_subscribe_available),
        subscribe_identifiers_available |->
            Flag("subscr_identifier_available", server.subscribe_identifiers_available),
        shared_subscribe_available |->
            Flag("shared_subscr_available", server.shared_subscribe_available),
        response_info |-> StringOr(buffer, list, "resp_info", server.response_info)]

\* mqtt5_msg_parse_connack_property: what becomes of the connection's
\* information, of its properties and of what is known of the server.
ConnAckOf(buffer, flags, properties, info, property, server) ==
    IF BodyEnd(buffer, Len(buffer)) > Len(buffer)
         \/ PropertyBlockEnd(buffer, flags + 2, Len(buffer)) > Len(buffer)
         \/ ~properties.ok
    THEN [ok |-> FALSE]
    ELSE [ok |-> TRUE,
          ack_flag |-> buffer[flags + 1],
          reason_code |-> buffer[flags + 2],
          info |-> [info EXCEPT
              !.client_id =
                  StringOr(buffer, properties.list, "assigned_client_identifier", @),
              !.keepalive = NumberOr(buffer, properties.list, "server_keep_alive", @)],
          property |-> [property EXCEPT
              !.session_expiry_interval =
                  NumberOr(buffer, properties.list, "session_expiry_interval", @)],
          server |-> ServerOf(buffer, properties.list, server),
          user_property |-> UserPropertyList(buffer, properties.list)]
ConnAckAt(buffer, flags, info, property, server) ==
    ConnAckOf(buffer, flags, PropertyBlock(buffer, flags + 2, Len(buffer), InConnAck),
              info, property, server)
mqtt5_msg_parse_connack_property(buffer, info, property, server) ==
    ConnAckAt(buffer, BodyStart(buffer, Len(buffer)), info, property, server)

=============================================================================
