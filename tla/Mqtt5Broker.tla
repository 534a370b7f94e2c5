---------------------------- MODULE Mqtt5Broker ----------------------------
(***************************************************************************)
(* The other side of mqtt5_client.c: what a broker reads in the bytes of   *)
(* the client, and the bytes it sends, by the MQTT 5 standard.             *)
(***************************************************************************)
EXTENDS Mqtt5Msg

---------------------------------------------------------------------------
\* What the bytes of the client say.

\* A stream begins with a whole message.
HasMessage(stream) ==
    /\ Len(stream) >= 2
    /\ FixedHeaderLen(stream) >= 2
    /\ mqtt_get_total_length(stream) <= Len(stream)
FirstMessage(stream) == SubSeq(stream, 1, mqtt_get_total_length(stream))
AfterFirst(stream) == SubSeq(stream, mqtt_get_total_length(stream) + 1, Len(stream))

AllProperties == {MQTT5_PROPERTY[name] : name \in DOMAIN MQTT5_PROPERTY}
ListAt(message, offset) == PropertyBlock(message, offset, Len(message), AllProperties).list
AfterBlock(message, offset) == PropertyBlockEnd(message, offset, Len(message))

ReadConnectProperties(message, list) ==
    [session_expiry_interval |-> NumberOr(message, list, "session_expiry_interval", 0),
     maximum_packet_size |-> NumberOr(message, list, "maximum_packet_size", 0),
     receive_maximum |-> NumberOr(message, list, "receive_maximum", 0),
     topic_alias_maximum |-> NumberOr(message, list, "topic_alias_maximum", 0),
     request_resp_info |-> FlagOr(message, list, "request_resp_info", FALSE),
     request_problem_info |-> FlagOr(message, list, "request_problem_info", FALSE),
     user_property |-> UserPropertyList(message, list)]

ReadWillProperties(message, list) ==
    [will_delay_interval |-> NumberOr(message, list, "will_delay_interval", 0),
     payload_format_indicator |-> FlagOr(message, list, "payload_format_indicator", FALSE),
     message_expiry_interval |-> NumberOr(message, list, "message_expiry_interval", 0),
     content_type |-> StringOr(message, list, "content_type", <<>>),
     response_topic |-> StringOr(message, list, "response_topic", <<>>),
     correlation_data |-> StringOr(message, list, "correlation_data", <<>>),
     user_property |-> UserPropertyList(message, list)]

Bit(byte, weight) == (byte \div weight) % 2 = 1

\* A CONNECT with a will, a username and a password, which the client here
\* has: its parts begin at the offsets that are the parameters.
ReadUser(message, flags, user) ==
    [username |-> IF Bit(flags, 128) THEN StringAt(message, user) ELSE <<>>,
     password |-> IF Bit(flags, 64) THEN StringAt(message, StringEnd(message, user)) ELSE <<>>]
ReadWill(message, flags, topic) ==
    [will_topic |-> StringAt(message, topic),
     will_message |-> StringAt(message, StringEnd(message, topic)),
     will_qos |-> (flags \div 8) % 4, will_retain |-> Bit(flags, 32)]
ReadConnectAt(message, at, id, will, topic) ==
    [type |-> "CONNECT",
     version |-> SubSeq(message, at + 1, at + 7),
     info |-> [client_id |-> StringAt(message, id), keepalive |-> WordAt(message, at + 8),
               clean_session |-> Bit(message[at + 8], 2)]
                @@ ReadWill(message, message[at + 8], topic)
                @@ ReadUser(message, message[at + 8],
                            StringEnd(message, StringEnd(message, topic))),
     property |-> ReadConnectProperties(message, ListAt(message, at + 10)),
     will_property |-> ReadWillProperties(message, ListAt(message, will))]
ReadConnectWill(message, at, id, will) ==
    ReadConnectAt(message, at, id, will, AfterBlock(message, will))
ReadConnectId(message, at, id) == ReadConnectWill(message, at, id, StringEnd(message, id))
ReadConnect(message, at) == ReadConnectId(message, at, AfterBlock(message, at + 10))

\* topic_of is what the aliases of this connection stand for.
TopicOf(topic, alias, topic_of) ==
    IF topic = <<>> /\ alias \in DOMAIN topic_of THEN topic_of[alias] ELSE topic
PublishRead(message, at, qos, block, property, topic_of) ==
    [type |-> "PUBLISH", qos |-> qos, retain |-> Bit(message[1], 1),
     id |-> IF qos > 0 THEN WordAt(message, block - 2) ELSE 0,
     topic |-> TopicOf(StringAt(message, at), property.topic_alias, topic_of),
     property |-> property,
     data |-> SubSeq(message, AfterBlock(message, block) + 1, Len(message))]
ReadPublishAt(message, at, qos, block, topic_of) ==
    PublishRead(message, at, qos, block,
                ReadPublishProperties(message, ListAt(message, block)), topic_of)
ReadPublish(message, at, qos, topic_of) ==
    ReadPublishAt(message, at, qos, StringEnd(message, at) + (IF qos > 0 THEN 2 ELSE 0),
                  topic_of)

\* One filter with its options.
ReadSubscribeAt(message, at, list, filter, options) ==
    [type |-> "SUBSCRIBE", id |-> WordAt(message, at),
     filter |-> StringAt(message, filter),
     qos |-> message[options + 1] % 4, no_local_flag |-> Bit(message[options + 1], 4),
     retain_as_published_flag |-> Bit(message[options + 1], 8),
     retain_handle |-> (message[options + 1] \div 16) % 4,
     subscribe_id |-> VariableOr(message, list, "subscribe_identifier", 0),
     user_property |-> UserPropertyList(message, list),
     whole |-> options + 1 = Len(message)]
ReadSubscribeFilter(message, at, filter) ==
    ReadSubscribeAt(message, at, ListAt(message, at + 2), filter, StringEnd(message, filter))
ReadSubscribe(message, at) ==
    ReadSubscribeFilter(message, at, AfterBlock(message, at + 2))

ReadUnsubscribe(message, at) ==
    [type |-> "UNSUBSCRIBE", id |-> WordAt(message, at),
     filter |-> StringAt(message, AfterBlock(message, at + 2)),
     user_property |-> UserPropertyList(message, ListAt(message, at + 2))]

ReadDisconnectAt(message, at, list) ==
    [type |-> "DISCONNECT", disconnect_reason |-> message[at + 1],
     session_expiry_interval |-> NumberOr(message, list, "session_expiry_interval", 0),
     user_property |-> UserPropertyList(message, list)]
ReadDisconnect(message, at) == ReadDisconnectAt(message, at, ListAt(message, at + 1))

\* PUBACK, PUBREC, PUBREL and PUBCOMP.
AckTypes == [PUBACK |-> PUBACK, PUBREC |-> PUBREC, PUBREL |-> PUBREL, PUBCOMP |-> PUBCOMP]
ReadAck(message, at, type) ==
    [type |-> type, id |-> WordAt(message, at),
     flags |-> message[1] % 16, reason_code |-> message[at + 3],
     whole |-> AfterBlock(message, at + 3) = Len(message)]

ReadingAt(message, type, at, topic_of) ==
    IF type = CONNECT THEN ReadConnect(message, at)
    ELSE IF type = PUBLISH THEN ReadPublish(message, at, mqtt_get_qos(message), topic_of)
    ELSE IF type = SUBSCRIBE THEN ReadSubscribe(message, at)
    ELSE IF type = UNSUBSCRIBE THEN ReadUnsubscribe(message, at)
    ELSE IF type = DISCONNECT THEN ReadDisconnect(message, at)
    ELSE IF type \in {PUBACK, PUBREC, PUBREL, PUBCOMP}
    THEN ReadAck(message, at, CHOOSE name \in DOMAIN AckTypes : AckTypes[name] = type)
    ELSE [type |-> "none"]
Reading(message, topic_of) ==
    ReadingAt(message, mqtt_get_type(message), BodyStart(message, Len(message)), topic_of)

---------------------------------------------------------------------------
\* The bytes of the broker.

Block(properties) == EncodedLens(Len(properties)) \o properties
SendMessage(type, flags, body) ==
    <<16 * type + flags>> \o EncodedLens(Len(body)) \o body

\* A flag that is on by default is sent when it is off.
OffProperty(name, flag) == IF flag THEN <<>> ELSE <<MQTT5_PROPERTY[name], 0>>

SendConnAck(session_present, answer) ==
    SendMessage(CONNACK, 0,
        <<IF session_present THEN 1 ELSE 0, answer.reason_code>>
          \o Block(StringProperty("reason_string", answer.reason_string)
               \o NumberProperty("session_expiry_interval", 4, answer.session_expiry_interval)
               \o NumberProperty("receive_maximum", 2, answer.receive_maximum)
               \o (IF answer.max_qos = 2 THEN <<>>
                   ELSE <<MQTT5_PROPERTY.maximum_qos, answer.max_qos>>)
               \o OffProperty("retain_available", answer.retain_available)
               \o NumberProperty("maximum_packet_size", 4, answer.maximum_packet_size)
               \o StringProperty("assigned_client_identifier", answer.client_id)
               \o NumberProperty("topic_alias_maximum", 2, answer.topic_alias_maximum)
               \o OffProperty("wildcard_subscr_available", answer.wildcard)
               \o OffProperty("subscr_identifier_available", answer.subscr_identifier)
               \o OffProperty("shared_subscr_available", answer.shared)
               \o NumberProperty("server_keep_alive", 2, answer.keepalive)
               \o StringProperty("resp_info", answer.response_info)
               \o StringProperty("server_reference", answer.server_reference)
               \o UserProperties(answer.user_property)))

SendPublish(m, id) ==
    SendMessage(PUBLISH, (2 * m.qos) + (IF m.retain THEN 1 ELSE 0),
        String(m.topic) \o (IF m.qos > 0 THEN Word(id) ELSE <<>>)
          \o Block(VariableProperty("subscribe_identifier", m.property.subscribe_id)
               \o PublishProperties(m.property, <<>>))
          \o m.data)

\* The short form leaves out reason code 0 and the properties.
SendAck(type, id, reason_code, user_property) ==
    SendMessage(type, IF type = PUBREL THEN 2 ELSE 0,
        Word(id) \o (IF reason_code = 0 /\ user_property = <<>> THEN <<>>
                     ELSE <<reason_code>> \o Block(UserProperties(user_property))))

SendSubAck(type, id, reason_code, user_property) ==
    SendMessage(type, 0, Word(id) \o Block(UserProperties(user_property)) \o <<reason_code>>)

SendDisconnect(reason_code) ==
    SendMessage(DISCONNECT, 0, <<reason_code>> \o Block(<<>>))

=============================================================================
