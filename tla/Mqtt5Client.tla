---------------------------- MODULE Mqtt5Client ----------------------------
(***************************************************************************)
(* The client of components/mqtt with MQTT 5: mqtt5_client.c, and what     *)
(* mqtt_client.c does around it.  Both directions are bytes, built and     *)
(* taken apart by Mqtt5Msg; each message travels with the record of what   *)
(* its sender meant, which is compared with what its receiver makes of it. *)
(*                                                                         *)
(* The calls are made from the event handler, as in examples/mqtt5: a set  *)
(* of properties and the call it is for have the client's lock together.   *)
(* A session outlives its connections.  A write that fails is LinkFails    *)
(* next to the call; PINGREQ is left out, and so are the states of the     *)
(* task that MqttLifecycle has.  Between CONNECT and CONNACK the task has   *)
(* the lock.                                                               *)
(***************************************************************************)
EXTENDS Mqtt5Broker

CONSTANTS
    InLength,           \* client->mqtt_state.in_buffer_length
    Info,               \* connection.information, as configured
    ConnectConfig,      \* what esp_mqtt5_client_set_connect_property is given
    WillProperty,       \* ... for the will
    Publications,       \* what is given to esp_mqtt_client_publish
    Stored,             \* ... and to esp_mqtt_client_enqueue
    Subscriptions, Unsubscriptions, Disconnections,
    Answers,            \* the CONNACKs of the broker
    Messages,           \* what the broker publishes
    MaxCalls, MaxMessages, MaxLosses,
    Window              \* bound on the messages under way

ASSUME Mqtt5ClientAssumption ==
    /\ InLength \in 16..65535
    /\ MaxCalls \in Nat /\ MaxMessages \in Nat /\ MaxLosses \in Nat /\ Window \in Nat

---------------------------------------------------------------------------
\* What the constants are: the configuration of the application, and a broker
\* that sends what MQTT 5 has.  A string is a sequence of bytes.

esp_mqtt5_user_property_item_t == [key : Seq(Byte), value : Seq(Byte)]
mqtt_connect_info_t ==
    [client_id : Seq(Byte), keepalive : Nat, clean_session : BOOLEAN,
     will_topic : Seq(Byte), will_message : Seq(Byte), will_qos : 0..2,
     will_retain : BOOLEAN, username : Seq(Byte), password : Seq(Byte)]
esp_mqtt5_connection_property_storage_t ==
    [session_expiry_interval : Nat, maximum_packet_size : Nat, receive_maximum : Nat,
     topic_alias_maximum : Nat, request_resp_info : BOOLEAN,
     request_problem_info : BOOLEAN, user_property : Seq(esp_mqtt5_user_property_item_t)]
esp_mqtt5_connection_will_property_storage_t ==
    [will_delay_interval : Nat, payload_format_indicator : BOOLEAN,
     message_expiry_interval : Nat, content_type : Seq(Byte),
     response_topic : Seq(Byte), correlation_data : Seq(Byte),
     user_property : Seq(esp_mqtt5_user_property_item_t)]
\* What a message may have; subscribe_id is only in what is received
\* (esp_mqtt5_publish_resp_property_t): nothing sends it.
esp_mqtt5_publish_property_config_t ==
    [payload_format_indicator : BOOLEAN, message_expiry_interval : Nat,
     topic_alias : Nat, response_topic : Seq(Byte), correlation_data : Seq(Byte),
     content_type : Seq(Byte), subscribe_id : Nat,
     user_property : Seq(esp_mqtt5_user_property_item_t)]
esp_mqtt5_subscribe_property_config_t ==
    [subscribe_id : Nat, no_local_flag : BOOLEAN, retain_as_published_flag : BOOLEAN,
     retain_handle : Nat, is_share_subscribe : BOOLEAN, share_name : Seq(Byte),
     user_property : Seq(esp_mqtt5_user_property_item_t)]
esp_mqtt5_unsubscribe_property_config_t ==
    [is_share_subscribe : BOOLEAN, share_name : Seq(Byte),
     user_property : Seq(esp_mqtt5_user_property_item_t)]
esp_mqtt5_disconnect_property_config_t ==
    [disconnect_reason : Byte, session_expiry_interval : Nat,
     user_property : Seq(esp_mqtt5_user_property_item_t)]

PublicationType ==
    [topic : Seq(Byte), data : Seq(Byte), qos : 0..2, retain : BOOLEAN,
     property : esp_mqtt5_publish_property_config_t, store : BOOLEAN]
MessageType ==
    [topic : Seq(Byte), data : Seq(Byte), qos : 0..2, retain : BOOLEAN,
     property : esp_mqtt5_publish_property_config_t]
AnswerType ==
    [reason_code : Byte, reason_string : Seq(Byte), session_expiry_interval : Nat,
     receive_maximum : Nat, max_qos : 0..2, retain_available : BOOLEAN,
     maximum_packet_size : Nat, client_id : Seq(Byte), topic_alias_maximum : Nat,
     wildcard : BOOLEAN, subscr_identifier : BOOLEAN, shared : BOOLEAN,
     keepalive : Nat, response_info : Seq(Byte), server_reference : Seq(Byte),
     user_property : Seq(esp_mqtt5_user_property_item_t)]

\* esp_mqtt_client_publish does not store QoS 0.  With more data, the length of
\* a message would not have four bytes.
ASSUME Mqtt5DataAssumption ==
    /\ Info \in mqtt_connect_info_t
    /\ ConnectConfig \in esp_mqtt5_connection_property_storage_t
    /\ WillProperty \in esp_mqtt5_connection_will_property_storage_t
    /\ Publications \subseteq PublicationType /\ Stored \subseteq PublicationType
    /\ \A p \in Publications : ~p.store
    /\ \A p \in Publications \cup Stored : OutLength + Len(p.data) <= MaxRemaining
    /\ Subscriptions \subseteq [filter : Seq(Byte), qos : 0..2,
                                property : esp_mqtt5_subscribe_property_config_t]
    /\ Unsubscriptions \subseteq [filter : Seq(Byte),
                                  property : esp_mqtt5_unsubscribe_property_config_t]
    /\ Disconnections \subseteq esp_mqtt5_disconnect_property_config_t
    /\ Answers \subseteq AnswerType
    /\ Messages \subseteq MessageType

\* What is stored for later while the client is connected fits the buffer,
\* whatever the broker answers.
StoredFits ==
    \A p \in Stored :
        /\ p.property.response_topic = <<>>
        /\ ~mqtt5_msg_publish(p.topic, p.data, p.qos, p.retain, 0, p.property, <<>>, 0).fragmented

\* What the broker publishes fits the client's buffer but for its data: the
\* parser does not compare the length of the properties with the buffer's.
PropertiesFit == \A m \in Messages : Len(SendPublish(m, 1)) - Len(m.data) <= InLength

VARIABLES
    \* The client.
    state,              \* "down", "connecting" (CONNECT is sent) or "CONNECTED"
    info,               \* connection.information
    connect_property,   \* mqtt5_config->connect_property_info
    server,             \* mqtt5_config->server_resp_property_info
    send_publish_packet_count,
    peer_topic_alias,   \* the topics of the broker's aliases
    outbox,
    fragmented_msg_data_offset,
    last_message_id,
    \* The network: bytes, and what they mean.
    toBroker, meant, toClient,
    \* The broker.
    session,
    online,             \* it has accepted the connection and not ended it
    known,              \* the topics of the client's aliases
    given,              \* the topics of its own aliases
    held, got,          \* identifiers of QoS 2 not released; of QoS 1 and 2 published
    \* History.
    misread, mistold, twice,
    accepted,           \* the identifiers of the publications that were accepted
    expired,            \* ... of the messages deleted for their age
    inflight,           \* those written on this connection and not acknowledged
    uncounted,          \* a message of this connection is not in the counter
    mapped,             \* the aliases the client has given on this connection
    calls, messages, losses

client == <<state, info, connect_property, server, send_publish_packet_count,
            peer_topic_alias, outbox, fragmented_msg_data_offset, last_message_id>>
network == <<toBroker, meant, toClient>>
broker == <<session, online, known, given, held, got, misread, twice>>
history == <<mistold, accepted, expired, inflight, uncounted, mapped>>
bounds == <<calls, messages, losses>>
vars == <<client, network, broker, history, bounds>>

Pending == {"QUEUED", "TRANSMITTED", "ACKNOWLEDGED"}

---------------------------------------------------------------------------
\* The properties of the application.

\* A field that has the value it has by default is not set.
Merged(old, new, default) ==
    [name \in DOMAIN old |-> IF new[name] = default[name] THEN old[name] ELSE new[name]]

NoConnectProperty ==
    [session_expiry_interval |-> 0, maximum_packet_size |-> 0, receive_maximum |-> 0,
     topic_alias_maximum |-> 0, request_resp_info |-> FALSE,
     request_problem_info |-> FALSE, user_property |-> <<>>]
NoDisconnectProperty ==
    [disconnect_reason |-> 0, session_expiry_interval |-> 0, user_property |-> <<>>]

esp_mqtt5_client_set_connect_property(old, property) ==
    Merged([old EXCEPT !.maximum_packet_size = InLength], property, NoConnectProperty)
esp_mqtt5_client_set_disconnect_property(old, property) ==
    Merged(old, property, NoDisconnectProperty)

\* The calls below succeed ...
esp_mqtt5_client_set_publish_property(property) ==
    property.topic_alias <= server.topic_alias_maximum
esp_mqtt5_client_set_subscribe_property(property) ==
    /\ property.retain_handle <= 2
    /\ property.is_share_subscribe =>
          /\ ~property.no_local_flag
          /\ server.shared_subscribe_available
          /\ property.share_name # <<>>
esp_mqtt5_client_set_unsubscribe_property(property) ==
    property.is_share_subscribe =>
        server.shared_subscribe_available /\ property.share_name # <<>>
esp_mqtt5_client_subscribe_check(qos) == qos <= server.max_qos
esp_mqtt5_client_publish_check(qos, retain) ==
    /\ qos <= server.max_qos
    /\ retain => server.retain_available
    /\ send_publish_packet_count <= server.receive_maximum

\* esp_mqtt5_create_default_config.
DefaultServer ==
    [maximum_packet_size |-> 0, receive_maximum |-> 65535, topic_alias_maximum |-> 0,
     max_qos |-> 2, retain_available |-> TRUE, wildcard_subscribe_available |-> TRUE,
     subscribe_identifiers_available |-> TRUE, shared_subscribe_available |-> TRUE,
     response_info |-> <<>>]

Init ==
    /\ state = "down"
    /\ info = Info
    /\ connect_property =
           esp_mqtt5_client_set_connect_property(NoConnectProperty, ConnectConfig)
    /\ server = DefaultServer
    /\ send_publish_packet_count = 0
    /\ peer_topic_alias = <<>>
    /\ outbox = <<>>
    /\ fragmented_msg_data_offset = 0
    /\ last_message_id = 0
    /\ toBroker = <<>> /\ meant = <<>> /\ toClient = <<>>
    /\ session = FALSE /\ online = FALSE
    /\ known = <<>> /\ given = <<>>
    /\ held = {} /\ got = {}
    /\ misread = FALSE /\ mistold = FALSE /\ twice = FALSE
    /\ accepted = {} /\ expired = {} /\ inflight = {} /\ uncounted = FALSE /\ mapped = <<>>
    /\ calls = 0 /\ messages = 0 /\ losses = 0

---------------------------------------------------------------------------
\* Writing, counting and losing the connection.

Room == Len(meant) + Len(toClient) < Window
Writes(bytes, record) ==
    /\ toBroker' = toBroker \o bytes
    /\ meant' = Append(meant, record)

\* fini_message takes the unused bytes of the fixed header off the offset,
\* whatever the message; an offset below 0 acts as 0 does.
NotNegative(offset) == Max({0, offset})
AfterBuilding(message) ==
    NotNegative(fragmented_msg_data_offset
                  - (MQTT5_MAX_FIXED_HEADER_SIZE - FixedHeaderLen(message)))

\* Seeded fault: a message that is sent again is counted again.
esp_mqtt5_increment_packet_counter_Dup(id, first) ==
    /\ send_publish_packet_count' = send_publish_packet_count + 1
    /\ uncounted' = (uncounted \/ Bit(first, 8))
    /\ inflight' = inflight \cup {id}

\* The flag is read from the first of the bytes that were written last.
esp_mqtt5_increment_packet_counter(id, first) ==
    /\ send_publish_packet_count' =
           send_publish_packet_count + IF Bit(first, 8) THEN 0 ELSE 1
    /\ uncounted' = (uncounted \/ Bit(first, 8))
    /\ inflight' = inflight \cup {id}

\* Seeded fault: an answer is taken off whether or not one is counted.
esp_mqtt5_decrement_packet_counter_Unguarded(id) ==
    /\ send_publish_packet_count' = send_publish_packet_count - 1
    /\ inflight' = inflight \ {id}

esp_mqtt5_decrement_packet_counter(id) ==
    /\ send_publish_packet_count' = NotNegative(send_publish_packet_count - 1)
    /\ inflight' = inflight \ {id}

\* What was written may still reach the broker.
AbortConnection ==
    /\ state' = "down"
    /\ toClient' = <<>>

Loses == losses < MaxLosses /\ losses' = losses + 1

LinkGoes ==
    /\ AbortConnection
    /\ UNCHANGED <<info, connect_property, server, send_publish_packet_count,
                   peer_topic_alias, outbox, fragmented_msg_data_offset,
                   last_message_id, toBroker, meant, broker, history, calls, messages>>

LinkFails ==
    /\ state # "down"
    /\ Loses
    /\ LinkGoes

\* The broker has ended the connection.
LinkCloses ==
    /\ state = "CONNECTED" /\ ~online
    /\ LinkGoes
    /\ UNCHANGED losses

---------------------------------------------------------------------------
\* The outbox.

Item(id, type, qos, bytes, pending, record) ==
    [id |-> id, type |-> type, qos |-> qos, bytes |-> bytes, pending |-> pending,
     record |-> record]
Oldest(items) == IF items = {} THEN 0 ELSE Min(items)
First(pending) == Oldest({i \in DOMAIN outbox : outbox[i].pending = pending})
Find(id, type) == Oldest({i \in DOMAIN outbox : outbox[i].id = id /\ outbox[i].type = type})
outbox_delete(id, type) ==
    IF Find(id, type) = 0 THEN outbox ELSE RemoveAt(outbox, Find(id, type))

---------------------------------------------------------------------------
\* The calls.

Calls ==
    /\ calls < MaxCalls
    /\ calls' = calls + 1
    /\ UNCHANGED <<info, connect_property, server, peer_topic_alias, broker, mistold,
                   expired, messages, losses>>

\* make_publish, and what the outbox gets if it keeps the message.
make_publish(p) ==
    mqtt5_msg_publish(p.topic, p.data, p.qos, p.retain, last_message_id + 1,
                      p.property, server.response_info, fragmented_msg_data_offset)
Kept(m, p) ==
    m.message \o (IF m.fragmented THEN SubSeq(p.data, Len(m.message) - m.offset + 1, Len(p.data))
                  ELSE <<>>)
Means(p, id) ==
    [type |-> "PUBLISH", qos |-> p.qos, retain |-> p.retain, id |-> id,
     topic |-> IF p.topic = <<>> THEN mapped[p.property.topic_alias] ELSE p.topic,
     property |-> p.property, data |-> p.data]
Maps(record) ==
    mapped' = IF record.property.topic_alias = 0 THEN mapped
              ELSE (record.property.topic_alias :> record.topic) @@ mapped

\* An alias stands alone only for a topic it was given on this connection.
Publishable(p, m) ==
    /\ esp_mqtt5_client_set_publish_property(p.property)
    /\ esp_mqtt5_client_publish_check(p.qos, p.retain)
    /\ p.topic = <<>> => state = "CONNECTED" /\ p.property.topic_alias \in DOMAIN mapped
    /\ m.message # Failed

MessageId(p) == IF p.qos > 0 THEN last_message_id + 1 ELSE 0
Enqueues(p, m, pending) ==
    /\ last_message_id' = last_message_id + IF p.qos > 0 THEN 1 ELSE 0
    /\ accepted' = accepted \cup ({MessageId(p)} \ {0})
    /\ outbox' = IF p.qos = 0 /\ ~p.store THEN outbox
                 ELSE Append(outbox, Item(MessageId(p), PUBLISH, p.qos, Kept(m, p),
                                          pending, Means(p, MessageId(p))))

\* esp_mqtt_client_publish, while connected: the rest of a message that does
\* not fit goes out in parts of the buffer.
Transmits(p, m, rest, record) ==
    /\ Writes(m.message \o rest, record)
    /\ Maps(record)
    /\ IF p.qos > 0
       THEN esp_mqtt5_increment_packet_counter(record.id,
                IF rest = <<>> THEN m.message[1]
                ELSE rest[OutLength * ((Len(rest) - 1) \div OutLength) + 1])
       ELSE UNCHANGED <<send_publish_packet_count, inflight, uncounted>>
PublishMessage(p, m) ==
    /\ Publishable(p, m)
    /\ Enqueues(p, m, "TRANSMITTED")
    /\ Transmits(p, m,
                 SubSeq(p.data, Len(m.message) - NotNegative(m.offset) + 1, Len(p.data)),
                 Means(p, MessageId(p)))
Publish(p) ==
    /\ Calls /\ Room
    /\ state = "CONNECTED"
    /\ PublishMessage(p, make_publish(p))
    /\ fragmented_msg_data_offset' = 0
    /\ UNCHANGED <<state, toClient>>

\* ... and while not, or esp_mqtt_client_enqueue: it stays in the outbox.
EnqueueMessage(p, m) ==
    /\ Publishable(p, m)
    /\ Enqueues(p, m, "QUEUED")
    /\ fragmented_msg_data_offset' = NotNegative(m.offset)
Enqueue(p) ==
    /\ Calls
    /\ state # "connecting"
    /\ p.qos > 0 \/ p.store
    /\ EnqueueMessage(p, make_publish(p))
    /\ UNCHANGED <<state, send_publish_packet_count, network, inflight, uncounted, mapped>>

PublishOffline(p) == state = "down" /\ Enqueue(p)

\* SUBSCRIBE and UNSUBSCRIBE.
Requests(type, message, record) ==
    /\ Calls /\ Room
    /\ state = "CONNECTED"
    /\ message # Failed
    /\ last_message_id' = last_message_id + 1
    /\ outbox' = Append(outbox, Item(last_message_id + 1, type, 0, message, "TRANSMITTED", record))
    /\ Writes(message, record)
    /\ UNCHANGED <<state, send_publish_packet_count, toClient, accepted, inflight,
                   uncounted, mapped>>

SubscribeMessage(s, message) ==
    /\ Requests(SUBSCRIBE, message,
           [type |-> "SUBSCRIBE", id |-> last_message_id + 1,
            filter |-> SharedTopic(s.property, s.filter), qos |-> s.qos,
            no_local_flag |-> s.property.no_local_flag,
            retain_as_published_flag |-> s.property.retain_as_published_flag,
            retain_handle |-> s.property.retain_handle,
            subscribe_id |-> s.property.subscribe_id,
            user_property |-> s.property.user_property, whole |-> TRUE])
    /\ fragmented_msg_data_offset' = AfterBuilding(message)
esp_mqtt_client_subscribe(s) ==
    /\ esp_mqtt5_client_set_subscribe_property(s.property)
    /\ esp_mqtt5_client_subscribe_check(s.qos)
    /\ SubscribeMessage(s, mqtt5_msg_subscribe(<<[filter |-> s.filter, qos |-> s.qos]>>,
                                               last_message_id + 1, s.property))

esp_mqtt_client_unsubscribe(u) ==
    /\ esp_mqtt5_client_set_unsubscribe_property(u.property)
    /\ Requests(UNSUBSCRIBE, mqtt5_msg_unsubscribe(u.filter, last_message_id + 1, u.property),
           [type |-> "UNSUBSCRIBE", id |-> last_message_id + 1,
            filter |-> SharedTopic(u.property, u.filter),
            user_property |-> u.property.user_property])
    /\ fragmented_msg_data_offset' = 0

\* esp_mqtt_client_disconnect, which the task does in its next round:
\* send_disconnect_msg, and the connection is taken down.
DisconnectMessage(d, message) ==
    /\ message # Failed
    /\ Writes(message, [type |-> "DISCONNECT", disconnect_reason |-> d.disconnect_reason,
                        session_expiry_interval |-> d.session_expiry_interval,
                        user_property |-> d.user_property])
    /\ fragmented_msg_data_offset' = AfterBuilding(message)
Disconnect(d) ==
    /\ Calls
    /\ state = "CONNECTED"
    /\ DisconnectMessage(d, mqtt5_msg_disconnect(
           esp_mqtt5_client_set_disconnect_property(NoDisconnectProperty, d)))
    /\ AbortConnection
    /\ UNCHANGED <<send_publish_packet_count, outbox, last_message_id,
                   accepted, inflight, uncounted, mapped>>

---------------------------------------------------------------------------
\* The task: connecting.

\* esp_mqtt_connect, to the writing of CONNECT; the broker forgets the aliases.
ConnectMessage(message) ==
    /\ message # Failed
    /\ toBroker' = message
Connect ==
    /\ state = "down"
    /\ state' = "connecting"
    /\ ConnectMessage(mqtt5_msg_connect(info, connect_property, WillProperty))
    /\ fragmented_msg_data_offset' = 0
    /\ meant' = <<[type |-> "CONNECT", version |-> <<0, 4, 77, 81, 84, 84, 5>>,
                   info |-> info, property |-> connect_property,
                   will_property |-> WillProperty]>>
    /\ online' = FALSE /\ known' = <<>> /\ given' = <<>>
    /\ inflight' = {} /\ uncounted' = FALSE /\ mapped' = <<>>
    /\ UNCHANGED <<info, connect_property, server, send_publish_packet_count,
                   peer_topic_alias, outbox, last_message_id, toClient,
                   session, held, got, misread, twice, mistold, accepted, expired, bounds>>

\* Seeded fault: the counter goes on from the last connection.
CounterStarts_Never == UNCHANGED send_publish_packet_count

CounterStarts == send_publish_packet_count' = 0

Hears(type) ==
    /\ toClient # <<>>
    /\ mqtt_get_type(Head(toClient).bytes) = type
\* What is received.
in == Head(toClient).bytes
Meant == Head(toClient).meant
InId == mqtt5_get_id(in, Len(in))

\* esp_mqtt5_parse_connack: what CONNACK says of the server is kept also when
\* it refuses the connection.
HearsConnAck(connack) ==
    /\ mistold' = (mistold \/ ~connack.ok
          \/ Meant # [type |-> "CONNACK", reason_code |-> connack.reason_code,
                      session_present |-> Bit(connack.ack_flag, 1),
                      server |-> IF connack.reason_code = 0 THEN connack.server
                                 ELSE DefaultServer,
                      client_id |-> connack.info.client_id,
                      keepalive |-> connack.info.keepalive,
                      user_property |-> connack.user_property])
    /\ IF connack.ok
       THEN /\ info' = connack.info
            /\ connect_property' = connack.property
            /\ server' = connack.server
       ELSE UNCHANGED <<info, connect_property, server>>
    /\ IF connack.ok /\ connack.reason_code = 0
       THEN /\ state' = "CONNECTED"
            /\ toClient' = Tail(toClient)
            /\ CounterStarts
       ELSE /\ AbortConnection
            /\ UNCHANGED send_publish_packet_count
ReceivesConnAck ==
    /\ state = "connecting" /\ Hears(CONNACK)
    /\ \E connack \in {mqtt5_msg_parse_connack_property(in, info, connect_property, server)} :
          HearsConnAck(connack)
    /\ UNCHANGED <<peer_topic_alias, outbox, fragmented_msg_data_offset,
                   last_message_id, toBroker, meant, broker, accepted, expired, inflight,
                   uncounted, mapped, bounds>>

---------------------------------------------------------------------------
\* The task: mqtt_process_receive.

Receives(type) ==
    /\ state = "CONNECTED" /\ Hears(type)
    /\ UNCHANGED <<info, connect_property, server, last_message_id, broker, accepted,
                   expired, mapped, bounds>>

Goes == state' = state /\ toClient' = Tail(toClient)
WritesBack(message, record) ==
    /\ Goes
    /\ Writes(message, record)
    /\ fragmented_msg_data_offset' = AfterBuilding(message)
NothingBack == UNCHANGED <<toBroker, meant, fragmented_msg_data_offset>>
Ack(type, id) ==
    [type |-> type, id |-> id, flags |-> IF type = "PUBREL" THEN 2 ELSE 0,
     reason_code |-> 0, whole |-> TRUE]

\* Seeded fault: an alias that is not in the list yet is not added.
esp_mqtt5_client_update_topic_alias_KnownOnly(alias, topic) ==
    peer_topic_alias' = [known_alias \in DOMAIN peer_topic_alias |->
                            IF known_alias = alias THEN topic
                            ELSE peer_topic_alias[known_alias]]

esp_mqtt5_client_update_topic_alias(alias, topic) ==
    peer_topic_alias' = [known_alias \in DOMAIN peer_topic_alias \cup {alias} |->
                            IF known_alias = alias THEN topic
                            ELSE peer_topic_alias[known_alias]]

Sound(heard) ==
    /\ heard.ok
    /\ heard.property.topic_alias <= connect_property.topic_alias_maximum
    /\ heard.property.topic_alias # 0 /\ heard.topic = <<>> =>
          heard.property.topic_alias \in DOMAIN peer_topic_alias

\* esp_mqtt5_get_publish_data, of a message whose properties are sound.
Delivers(buffer, qos, heard, alias, topic) ==
    /\ mistold' = (mistold
          \/ Meant # [type |-> "PUBLISH", qos |-> qos, retain |-> Bit(buffer[1], 1),
                      id |-> mqtt5_get_id(buffer, Len(buffer)), topic |-> topic,
                      property |-> heard.property,
                      data |-> heard.payload \o SubSeq(in, InLength + 1, Len(in))])
    /\ IF alias # 0 /\ heard.topic # <<>>
       THEN esp_mqtt5_client_update_topic_alias(alias, topic)
       ELSE UNCHANGED peer_topic_alias

\* deliver_publish: the properties are in the buffer, the data may go on
\* after it.
HearsPublish(buffer, qos, id, heard) ==
    \/ /\ Sound(heard)
       /\ Delivers(buffer, qos, heard, heard.property.topic_alias,
                   IF heard.topic = <<>> /\ heard.property.topic_alias # 0
                   THEN peer_topic_alias[heard.property.topic_alias] ELSE heard.topic)
       /\ \/ qos = 0 /\ Goes /\ NothingBack
          \/ qos = 1 /\ WritesBack(mqtt5_msg_puback(id), Ack("PUBACK", id))
          \/ qos = 2 /\ WritesBack(mqtt5_msg_pubrec(id), Ack("PUBREC", id))
    \/ /\ ~Sound(heard)
       /\ mistold' = TRUE
       /\ AbortConnection /\ NothingBack
       /\ UNCHANGED peer_topic_alias
ReceivesPublish ==
    /\ Receives(PUBLISH)
    /\ \E buffer \in {SubSeq(in, 1, Min({InLength, Len(in)}))}, id \in {InId} :
       \E heard \in {mqtt5_get_publish_property_payload(buffer)} :
          HearsPublish(buffer, mqtt_get_qos(buffer), id, heard)
    /\ UNCHANGED <<send_publish_packet_count, outbox, inflight, uncounted>>

\* PUBACK and PUBCOMP, which count whether or not they are expected, SUBACK
\* and UNSUBACK, which do not; what they say is told if they are.
FinishesId(initiator, id, told) ==
    /\ outbox' = outbox_delete(id, initiator)
    /\ mistold' = (mistold \/ (Find(id, initiator) # 0 /\ Meant # told))
Finishes(type, initiator, told) ==
    /\ Receives(type)
    /\ Goes
    /\ FinishesId(initiator, InId, told)
    /\ UNCHANGED <<peer_topic_alias, fragmented_msg_data_offset, toBroker, meant, uncounted>>
Told(type, data) ==
    [type |-> type, id |-> InId, reason_code |-> mqtt5_msg_get_reason_code(in),
     user_property |-> data.user_property]
Counted == esp_mqtt5_decrement_packet_counter(InId)
NotCounted == UNCHANGED <<send_publish_packet_count, inflight>>

ReceivesPuback ==
    Finishes(PUBACK, PUBLISH, Told("PUBACK", mqtt5_get_puback_data(in))) /\ Counted
ReceivesPubcomp ==
    Finishes(PUBCOMP, PUBLISH, Told("PUBCOMP", mqtt5_get_puback_data(in))) /\ Counted
ReceivesSuback ==
    Finishes(SUBACK, SUBSCRIBE, Told("SUBACK", mqtt5_get_suback_data(in))) /\ NotCounted
ReceivesUnsuback ==
    Finishes(UNSUBACK, UNSUBSCRIBE, Told("UNSUBACK", mqtt5_get_suback_data(in))) /\ NotCounted

\* Seeded fault: the message may be sent again after PUBREC.
SetsAcknowledged_Not(id) == UNCHANGED outbox

SetsAcknowledged(id) ==
    outbox' = [i \in DOMAIN outbox |->
                  IF i = Oldest({j \in DOMAIN outbox : outbox[j].id = id})
                  THEN [outbox[i] EXCEPT !.pending = "ACKNOWLEDGED"] ELSE outbox[i]]

PubrecOf(id) ==
    /\ WritesBack(mqtt5_msg_pubrel(id), Ack("PUBREL", id))
    /\ SetsAcknowledged(id)
ReceivesPubrec ==
    /\ Receives(PUBREC)
    /\ PubrecOf(InId)
    /\ UNCHANGED <<send_publish_packet_count, peer_topic_alias, mistold, inflight, uncounted>>

PubrelOf(id) == WritesBack(mqtt5_msg_pubcomp(id), Ack("PUBCOMP", id))
ReceivesPubrel ==
    /\ Receives(PUBREL)
    /\ PubrelOf(InId)
    /\ UNCHANGED <<send_publish_packet_count, peer_topic_alias, outbox, mistold,
                   inflight, uncounted>>

\* The application is told; the connection is left to the broker.
ReceivesDisconnect ==
    /\ Receives(DISCONNECT)
    /\ Goes
    /\ mistold' = (mistold \/ Meant.reason_code # mqtt5_msg_get_reason_code(in))
    /\ UNCHANGED <<send_publish_packet_count, peer_topic_alias, outbox,
                   fragmented_msg_data_offset, toBroker, meant, inflight, uncounted>>

---------------------------------------------------------------------------
\* The task: sending again.

Resends ==
    /\ state = "CONNECTED" /\ Room
    /\ UNCHANGED <<state, info, connect_property, server, peer_topic_alias,
                   last_message_id, toClient, broker, mistold, accepted, expired, bounds>>

\* Seeded fault: every message that is sent leaves the outbox.
AfterResend_Deletes(i) == RemoveAt(outbox, i)

\* What becomes of the item at i: QoS 0 is over, QoS 1 and 2 have begun.
AfterResend(i) ==
    IF outbox[i].qos = 0 THEN RemoveAt(outbox, i)
    ELSE [outbox EXCEPT ![i].pending = "TRANSMITTED"]

\* mqtt_resend_queued of the first message that was never transmitted.
ResendQueued ==
    LET i == First("QUEUED")
    IN /\ Resends
       /\ i # 0
       /\ Writes(outbox[i].bytes, outbox[i].record)
       /\ Maps(outbox[i].record)
       /\ outbox' = AfterResend(i)
       /\ IF outbox[i].qos > 0
          THEN esp_mqtt5_increment_packet_counter(outbox[i].id, outbox[i].bytes[1])
          ELSE UNCHANGED <<send_publish_packet_count, inflight, uncounted>>
       /\ UNCHANGED fragmented_msg_data_offset

\* The flag stays in the outbox.
mqtt_set_dup(item) ==
    IF item.type = PUBLISH /\ ~Bit(item.bytes[1], 8)
    THEN [item EXCEPT !.bytes[1] = @ + 8] ELSE item

\* Once per message_retransmit_timeout, the oldest message that is not
\* acknowledged and PUBREL of the oldest that is, those that are due.
RetransmitOf(i, j, again, rel) ==
    /\ outbox' = IF i = 0 THEN outbox ELSE [outbox EXCEPT ![i] = again]
    /\ toBroker' = toBroker \o (IF i = 0 THEN <<>> ELSE again.bytes)
                            \o (IF j = 0 THEN <<>> ELSE rel)
    /\ meant' = meant \o (IF i = 0 THEN <<>> ELSE <<again.record>>)
                      \o (IF j = 0 THEN <<>> ELSE <<Ack("PUBREL", outbox[j].id)>>)
    /\ IF i # 0 /\ again.type = PUBLISH
       THEN /\ Maps(again.record)
            /\ esp_mqtt5_increment_packet_counter(again.id, again.bytes[1])
       ELSE /\ UNCHANGED <<send_publish_packet_count, mapped, inflight>>
            /\ uncounted' = (uncounted \/ j # 0)
    /\ fragmented_msg_data_offset' =
           IF j = 0 THEN fragmented_msg_data_offset ELSE AfterBuilding(rel)
Again(i) == IF i = 0 THEN [type |-> 0] ELSE mqtt_set_dup(outbox[i])
Release(j) == IF j = 0 THEN Failed ELSE mqtt5_msg_pubrel(outbox[j].id)
RetransmitItems(i, j) ==
    /\ i # 0 \/ j # 0
    /\ RetransmitOf(i, j, Again(i), Release(j))
Due(yes, pending) == IF yes THEN First(pending) ELSE 0
Retransmit(publish, pubrel) ==
    /\ Resends
    /\ First("QUEUED") = 0
    /\ RetransmitItems(Due(publish, "TRANSMITTED"), Due(pubrel, "ACKNOWLEDGED"))

\* mqtt_delete_expired_messages, at the start of a round in any state: the
\* item at i has been there for more than OUTBOX_EXPIRED_TIMEOUT_MS.
Expire(i) ==
    /\ state # "connecting"
    /\ outbox' = RemoveAt(outbox, i)
    /\ expired' = expired \cup {outbox[i].id}
    /\ UNCHANGED <<state, info, connect_property, server, send_publish_packet_count,
                   peer_topic_alias, fragmented_msg_data_offset, last_message_id,
                   network, broker, mistold, accepted, inflight, uncounted, mapped, bounds>>

---------------------------------------------------------------------------
\* The broker.

\* Another reason code and a property for every second message: no subscriber,
\* QoS 1, no such subscription.
OddReason == [PUBACK |-> 16, PUBREC |-> 16, PUBREL |-> 0, PUBCOMP |-> 0,
              SUBACK |-> 1, UNSUBACK |-> 17]
BrokerProperty == <<[key |-> <<98>>, value |-> <<2, 3>>]>>

ReplyOf(name, id, reason, property) ==
    <<[bytes |-> IF name = "SUBACK" THEN SendSubAck(SUBACK, id, reason, property)
                 ELSE IF name = "UNSUBACK" THEN SendSubAck(UNSUBACK, id, reason, property)
                 ELSE SendAck(AckTypes[name], id, reason, property),
       meant |-> [type |-> name, id |-> id, reason_code |-> reason,
                  user_property |-> property]]>>
Reply(name, id) ==
    IF id % 2 = 1 /\ OddReason[name] # 0
    THEN ReplyOf(name, id, OddReason[name], BrokerProperty) ELSE ReplyOf(name, id, 0, <<>>)

\* What a CONNACK says of the server: what it leaves out is the default.
Says(answer) ==
    [DefaultServer EXCEPT
        !.maximum_packet_size = answer.maximum_packet_size,
        !.receive_maximum = IF answer.receive_maximum = 0 THEN @ ELSE answer.receive_maximum,
        !.topic_alias_maximum = answer.topic_alias_maximum,
        !.max_qos = answer.max_qos,
        !.retain_available = answer.retain_available,
        !.wildcard_subscribe_available = answer.wildcard,
        !.subscribe_identifiers_available = answer.subscr_identifier,
        !.shared_subscribe_available = answer.shared,
        !.response_info = answer.response_info]

\* A client without an identifier is given one.
SaysTo(connect, a) ==
    LET answer == IF connect.info.client_id = <<>> THEN a ELSE [a EXCEPT !.client_id = <<>>]
    IN <<[bytes |-> SendConnAck(session, answer),
          meant |-> [type |-> "CONNACK", reason_code |-> a.reason_code,
                     session_present |-> session,
                     server |-> IF a.reason_code = 0 THEN Says(a) ELSE DefaultServer,
                     client_id |-> IF answer.client_id = <<>> THEN connect.info.client_id
                                   ELSE answer.client_id,
                     keepalive |-> IF a.keepalive = 0 THEN connect.info.keepalive
                                   ELSE a.keepalive,
                     user_property |-> a.user_property]]>>

ReplyTo(r) ==
    IF r.type = "PUBLISH" /\ r.qos = 1 THEN Reply("PUBACK", r.id)
    ELSE IF r.type = "PUBLISH" /\ r.qos = 2 THEN Reply("PUBREC", r.id)
    ELSE IF r.type = "PUBREC" THEN Reply("PUBREL", r.id)
    ELSE IF r.type = "PUBREL" THEN Reply("PUBCOMP", r.id)
    ELSE IF r.type = "SUBSCRIBE" THEN Reply("SUBACK", r.id)
    ELSE IF r.type = "UNSUBSCRIBE" THEN Reply("UNSUBACK", r.id)
    ELSE <<>>

\* The broker takes the next message of the stream.
Sends(answer) == toClient' = IF state = "down" THEN <<>> ELSE toClient \o answer
AcceptsOrRefuses(connect) ==
    \E answer \in Answers :
        /\ Sends(SaysTo(connect, answer))
        /\ online' = (answer.reason_code = 0)
        /\ session' = (session \/ answer.reason_code = 0)
        /\ IF answer.reason_code = 0 THEN UNCHANGED losses ELSE Loses
BrokerActs(r) ==
    /\ misread' = (misread \/ meant = <<>> \/ (meant # <<>> /\ r # Head(meant)))
    /\ \/ /\ r.type # "CONNECT"
          /\ Sends(ReplyTo(r))
          /\ UNCHANGED <<session, online, losses>>
       \/ r.type = "CONNECT" /\ AcceptsOrRefuses(r)
    /\ known' = IF r.type = "PUBLISH" /\ r.property.topic_alias # 0
                THEN (r.property.topic_alias :> r.topic) @@ known ELSE known
    /\ held' = IF r.type = "PUBLISH" /\ r.qos = 2 THEN held \cup {r.id}
               ELSE IF r.type = "PUBREL" THEN held \ {r.id} ELSE held
    /\ got' = IF r.type = "PUBLISH" /\ r.qos > 0 THEN got \cup {r.id} ELSE got
    /\ twice' = (twice \/ (r.type = "PUBLISH" /\ r.qos = 2 /\ r.id \in got \ held))
BrokerMayRead ==
    /\ HasMessage(toBroker)
    /\ online \/ mqtt_get_type(toBroker) = CONNECT
BrokerReads ==
    /\ BrokerMayRead
    /\ \E r \in {Reading(FirstMessage(toBroker), known)} : BrokerActs(r)
    /\ toBroker' = AfterFirst(toBroker)
    /\ meant' = IF meant = <<>> THEN meant ELSE Tail(meant)
    /\ UNCHANGED <<client, given, history, calls, messages>>

BrokerSends(bytes, record) ==
    /\ online /\ state # "down" /\ Room
    /\ toClient' = Append(toClient, [bytes |-> bytes, meant |-> record])
    /\ UNCHANGED <<client, toBroker, meant, session, known, held, got, misread, twice,
                   history, calls>>

BrokerPublishes(m) ==
    LET id == IF m.qos = 0 THEN 0 ELSE messages + 1
        alias == m.property.topic_alias
        topic == IF m.topic = <<>> THEN given[alias] ELSE m.topic
    IN /\ messages < MaxMessages
       /\ messages' = messages + 1
       /\ m.topic = <<>> => alias \in DOMAIN given
       /\ BrokerSends(SendPublish(m, id),
              [type |-> "PUBLISH", qos |-> m.qos, retain |-> m.retain, id |-> id,
               topic |-> topic, property |-> m.property, data |-> m.data])
       /\ given' = IF alias = 0 THEN given ELSE (alias :> topic) @@ given
       /\ UNCHANGED <<online, losses>>

\* The broker ends the connection, and says so.
BrokerDisconnects ==
    /\ Loses
    /\ BrokerSends(SendDisconnect(139), [type |-> "DISCONNECT", reason_code |-> 139])
    /\ online' = FALSE
    /\ UNCHANGED <<given, messages>>

---------------------------------------------------------------------------
Call ==
    \/ \E p \in Publications : Publish(p) \/ PublishOffline(p)
    \/ \E p \in Stored : Enqueue(p)
    \/ \E s \in Subscriptions : esp_mqtt_client_subscribe(s)
    \/ \E u \in Unsubscriptions : esp_mqtt_client_unsubscribe(u)
    \/ \E d \in Disconnections : Disconnect(d)

Receive ==
    \/ ReceivesConnAck \/ ReceivesPublish \/ ReceivesPuback \/ ReceivesPubrec
    \/ ReceivesPubrel \/ ReceivesPubcomp \/ ReceivesSuback \/ ReceivesUnsuback
    \/ ReceivesDisconnect

Next ==
    \/ Call \/ Connect \/ Receive \/ ResendQueued
    \/ \E publish, pubrel \in BOOLEAN : Retransmit(publish, pubrel)
    \/ \E i \in DOMAIN outbox : Expire(i)
    \/ LinkFails \/ LinkCloses
    \/ BrokerReads \/ (\E m \in Messages : BrokerPublishes(m)) \/ BrokerDisconnects

\* The task runs: it connects (CONNECT fits the buffer), receives, notices
\* that a connection was closed, and sends what is queued or stays unanswered;
\* and the broker reads.  Each is stated of the variable that only its action
\* changes in this way.
TakesConnection == state = "down" /\ state' = "connecting"
TakesMessage == state # "down" /\ toClient # <<>> /\ toClient' = Tail(toClient)
BrokerTakesMessage == BrokerMayRead /\ toBroker' = AfterFirst(toBroker)
TakesQueued ==
    /\ state = "CONNECTED" /\ Room /\ First("QUEUED") # 0
    /\ outbox' = AfterResend(First("QUEUED"))
MeantAgain ==
    (IF First("TRANSMITTED") = 0 THEN <<>> ELSE <<outbox[First("TRANSMITTED")].record>>)
      \o (IF First("ACKNOWLEDGED") = 0 THEN <<>>
          ELSE <<Ack("PUBREL", outbox[First("ACKNOWLEDGED")].id)>>)
TakesUnanswered ==
    /\ state = "CONNECTED" /\ Room /\ First("QUEUED") = 0 /\ outbox # <<>>
    /\ meant' = meant \o MeantAgain /\ toClient' = toClient
Fairness ==
    /\ WF_state(TakesConnection) /\ WF_toClient(TakesMessage)
    /\ WF_vars(LinkCloses) /\ WF_toBroker(BrokerTakesMessage)
    /\ SF_outbox(TakesQueued) /\ SF_meant(TakesUnanswered)

Spec == Init /\ [][Next]_vars /\ Fairness

---------------------------------------------------------------------------
Mqtt5TypeOK ==
    /\ state \in {"down", "connecting", "CONNECTED"}
    /\ toClient # <<>> => state # "down"
    /\ send_publish_packet_count \in 0..(last_message_id + 1)
    /\ \A i \in DOMAIN outbox : outbox[i].pending \in Pending
    /\ \A i, j \in DOMAIN outbox :
          outbox[i].id = outbox[j].id /\ outbox[i].id # 0 => i = j
    /\ \A i \in DOMAIN outbox :
          outbox[i].pending = "ACKNOWLEDGED" => outbox[i].type = PUBLISH /\ outbox[i].qos = 2
    /\ DOMAIN peer_topic_alias \subseteq 1..connect_property.topic_alias_maximum
    /\ fragmented_msg_data_offset \in 0..OutLength
    /\ inflight \subseteq accepted

\* A broker reads in the bytes of a connection, one message after the other,
\* what the calls asked for: every property, whatever its length takes; the
\* topic of an alias; the data of a message that goes out in parts; and what
\* is sent again as it was (mqtt5_msg.c:91, 630, 1063, 1233;
\* mqtt_client.c:2578).
SaysWhatIsMeant ==
    /\ ~misread
    /\ toBroker = <<>> <=> meant = <<>>

\* The application is told what the broker sent: the limits of the server,
\* the topic an alias has on this connection, every property, and the data
\* that does not fit the buffer; no message that is sound ends the connection
\* (mqtt5_client.c:102, 137; mqtt5_msg.c:374, 776).
HearsWhatIsMeant == ~mistold

\* The counter that stops the application at receive_maximum never has more
\* than what was written on this connection and waits for PUBACK or PUBCOMP,
\* and has all of it unless something was sent again
\* (mqtt5_client.c:22, 32; mqtt_client.c:911).
CountsInFlight ==
    state = "CONNECTED" =>
        /\ send_publish_packet_count <= Cardinality(inflight)
        /\ ~uncounted => send_publish_packet_count = Cardinality(inflight)

\* A publication of QoS 2 is published once, however often it and PUBREL are
\* sent again, on this connection or on another (mqtt_client.c:1729, 2068).
OnceOnly == ~twice

\* What a call accepted with QoS 1 or 2 reaches the broker or grows older
\* than OUTBOX_EXPIRED_TIMEOUT_MS, whatever connections fail on the way, and
\* the outbox is empty in the end (mqtt_client.c:1865, 2024-2085;
\* mqtt_client.h:86).
ArrivesOrExpires == <>[](accepted \subseteq got \cup expired /\ outbox = <<>>)

=============================================================================
