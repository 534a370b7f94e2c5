---------------------------- MODULE MqttReceive ----------------------------
(***************************************************************************)
(* How mqtt_client.c finds the messages of the broker in the bytes of a    *)
(* connection: mqtt_message_receive with its two callers, esp_mqtt_connect *)
(* and mqtt_process_receive, and deliver_publish.  A read hands over any   *)
(* part of what was asked for, or nothing, so that a message may take many *)
(* rounds of esp_mqtt_task; the buffer keeps what has been read of it.     *)
(***************************************************************************)
EXTENDS MqttMsg

CONSTANTS
    BufferLength,   \* in_buffer_length
    Messages,       \* what the broker may send
    MaxMessages,    \* bound on the messages of a connection
    MaxFailures     \* bound on the connections the network takes down

\* A message is what the client makes of it in the end.
Message(type, qos, id, topic, data) ==
    [type |-> type, qos |-> qos, id |-> id, topic |-> topic, data |-> data,
     total |-> Len(data)]

WithData(m, data) ==
    [type |-> m.type, qos |-> m.qos, id |-> m.id, topic |-> m.topic, data |-> data,
     total |-> m.total]

\* The data of a SUBACK are its return codes; PINGRESP has no identifier.
MessageSet ==
    [type : {PUBLISH, PUBACK, PUBREC, PUBREL, PUBCOMP, SUBACK, PINGRESP},
     qos : 0..3, id : Nat, topic : Seq(Byte), data : Seq(Byte), total : Nat]

\* What the broker writes to the connection.
Bytes(m) ==
    IF m.type = PUBLISH
    THEN mqtt_msg_publish(m.topic, m.data, m.qos, m.id)
    ELSE fini_message(m.type, IF m.type = PUBREL THEN 1 ELSE 0,
                      (IF m.type = PINGRESP THEN <<>> ELSE append_message_id(<<>>, m.id))
                        \o m.data)

ConnAck(code) == fini_message(CONNACK, 0, <<0, code>>)

\* The end of the topic of a PUBLISH.
TopicStop(m) == FixedHeaderLen(Bytes(m)) + 2 + Len(m.topic)

Large(m) == Len(Bytes(m)) > BufferLength
TooLong(m) == Large(m) /\ (m.type # PUBLISH \/ TopicStop(m) > BufferLength)

\* What the client need not accept.
Unacceptable(m) == TooLong(m) \/ ~mqtt_has_valid_msg_hdr(Bytes(m))

\* The buffer holds a fixed header and what ReadTopicLen asks for, and no
\* identifier is cut by its end: the code would read past it (see the README).
ASSUME ReceiveAssumption ==
    /\ BufferLength \in Nat /\ BufferLength >= 9
    /\ MaxMessages \in Nat /\ MaxFailures \in Nat
    /\ \A m \in Messages :
          m \in MessageSet /\ m.id < 65536 /\ Len(m.topic) < 65536
    /\ \A m \in Messages :
          Large(m) /\ ~TooLong(m) /\ m.qos > 0 => TopicStop(m) + 2 <= BufferLength

\* The last two bytes of a short message, both above 127: if the message is resumed
\* between them, InLength takes the first for one of the remaining length.
Misleading(g) == Len(g) < 6 /\ g[Len(g) - 1] >= 128 /\ g[Len(g)] >= 128

\* A message of MQTT 3.1.1: there is a topic, and the acknowledgments fit the one byte
\* of remaining length that the code expects of them (mqtt_msg.c:259, 321); without
\* QoS there is no identifier.  Only the last line is more than the standard grants:
\* the theorems about what is heard need it.
Ordinary(m) ==
    /\ m.total = Len(m.data)
    /\ 4 + Len(m.topic) + Len(m.data) <= MaxRemaining
    /\ m.type = PUBLISH => m.topic # <<>> /\ (m.qos = 0 => m.id = 0)
    /\ m.type # PUBLISH => m.qos = 0 /\ m.topic = <<>>
    /\ m.type \notin {PUBLISH, SUBACK} => m.data = <<>>
    /\ m.type = SUBACK => Len(m.data) <= 125
    /\ m.type = PINGRESP => m.id = 0
    /\ ~Misleading(Bytes(m))

AllOrdinary == \A m \in Messages : Ordinary(m)

VARIABLES
    link,       \* "down", "connecting" (CONNECT is sent), "up", or "garbled":
                \* the client has lost the boundaries of the messages
    unread,     \* the bytes on their way
    in,         \* the in_buffer_read_len bytes in in_buffer
    at,         \* where mqtt_message_receive is, or "data": deliver_publish
    progress,   \* bytes were read since mqtt_process_receive was called
    current,    \* the PUBLISH being delivered, with the data of its events
    left,       \* msg_total_len - msg_read_len
    sent,       \* the messages the broker sent on this connection
    heard,      \* those that were processed
    replies,    \* what the client answered
    failures

vars == <<link, unread, in, at, progress, current, left, sent, heard, replies, failures>>

Nothing == Message(PINGRESP, 0, 0, <<>>, <<>>)

ReceiveTypeOK ==
    /\ link \in {"down", "connecting", "up", "garbled"}
    /\ unread \in Seq(Byte)
    /\ in \in Seq(Byte) /\ Len(in) <= BufferLength
    /\ at \in {"idle", "length", "body", "data"}
    /\ at \in {"length", "body", "data"} => in # <<>> /\ link # "down"
    /\ progress \in BOOLEAN
    /\ current.data \in Seq(Byte)
    /\ left \in Nat
    /\ left > 0 <=> at = "data"
    /\ at = "data" => Len(current.data) + left = current.total
    /\ sent \in Seq(Messages) /\ Len(sent) <= MaxMessages
    /\ failures \in 0..MaxFailures

Init ==
    /\ link = "down"
    /\ unread = <<>>
    /\ in = <<>>
    /\ at = "idle"
    /\ progress = FALSE
    /\ current = Nothing
    /\ left = 0
    /\ sent = <<>>
    /\ heard = <<>>
    /\ replies = <<>>
    /\ failures = 0

---------------------------------------------------------------------------
\* The connection.

\* esp_mqtt_abort_connection: the buffer is left as it is.
AbortConnection ==
    /\ link' = "down"
    /\ unread' = <<>>
    /\ at' = "idle"
    /\ progress' = FALSE
    /\ current' = Nothing
    /\ left' = 0
    /\ sent' = <<>> /\ heard' = <<>> /\ replies' = <<>>
    /\ UNCHANGED in

\* A read or the poll finds the connection closed, or CONNACK does not come
\* in time.
Breaks ==
    /\ link # "down"
    /\ failures < MaxFailures
    /\ failures' = failures + 1
    /\ AbortConnection

\* Seeded fault: what is in the buffer is kept.
Connect_KeepsBuffer ==
    /\ link = "down"
    /\ link' = "connecting"
    /\ \E code \in {0, 5} :
          /\ code # 0 => failures < MaxFailures
          /\ failures' = failures + (IF code = 0 THEN 0 ELSE 1)
          /\ unread' = ConnAck(code)
    /\ UNCHANGED <<in, at, progress, current, left, sent, heard, replies>>

\* esp_mqtt_connect up to the loop; the broker accepts or refuses.
Connect ==
    /\ link = "down"
    /\ link' = "connecting"
    /\ in' = <<>>
    /\ \E code \in {0, 5} :
          /\ code # 0 => failures < MaxFailures
          /\ failures' = failures + (IF code = 0 THEN 0 ELSE 1)
          /\ unread' = ConnAck(code)
    /\ UNCHANGED <<at, progress, current, left, sent, heard, replies>>

BrokerSends(m) ==
    /\ link # "down"
    /\ Len(sent) < MaxMessages
    /\ sent' = Append(sent, m)
    /\ unread' = unread \o Bytes(m)
    /\ UNCHANGED <<link, in, at, progress, current, left, heard, replies, failures>>

\* esp_transport_read of at most n bytes returns k of them.
Read(k, n) ==
    /\ k \in 1..n /\ k <= Len(unread)
    /\ in' = in \o SubSeq(unread, 1, k)
    /\ unread' = SubSeq(unread, k + 1, Len(unread))

---------------------------------------------------------------------------
\* mqtt_message_receive.

\* The condition of the resumption; the last byte read is taken for one of
\* the remaining length.
InLength(buffer) == Len(buffer) < 6 /\ buffer[Len(buffer)] >= 128

\* A call with an empty buffer reads the first byte.
ReadFirst ==
    /\ at = "idle" /\ link \in {"connecting", "up"} /\ in = <<>>
    /\ Read(1, 1)
    /\ mqtt_has_valid_msg_hdr(in')
    /\ progress' = TRUE
    /\ at' = "length"
    /\ UNCHANGED <<link, current, left, sent, heard, replies, failures>>

ReadFirstInvalid ==
    /\ at = "idle" /\ link \in {"connecting", "up"} /\ in = <<>>
    /\ unread # <<>> /\ ~mqtt_has_valid_msg_hdr(unread)
    /\ AbortConnection
    /\ UNCHANGED failures

\* A call with something in the buffer goes on from there.
Resume ==
    /\ at = "idle" /\ link \in {"connecting", "up"} /\ in # <<>>
    /\ at' = IF Len(in) = 1 \/ InLength(in) THEN "length" ELSE "body"
    /\ UNCHANGED <<link, unread, in, progress, current, left, sent, heard, replies, failures>>

ReadLength ==
    /\ at = "length"
    /\ Read(1, 1)
    /\ at' = IF InLength(in') THEN "length" ELSE "body"
    /\ progress' = TRUE
    /\ UNCHANGED <<link, current, left, sent, heard, replies, failures>>

MessageLength == mqtt_get_total_length(in)
DoesNotFit == BufferLength < MessageLength

\* A PUBLISH that does not fit, of which not even the length of the topic is
\* in the buffer.
LacksTopicLen ==
    /\ DoesNotFit
    /\ mqtt_get_type(in) = PUBLISH
    /\ Len(in) < FixedHeaderLen(in) + 2

\* The length of topic and identifier, less two: the code leaves out the
\* length field of the topic.
TopicEnd ==
    FixedHeaderLen(in) + TopicLen(in, FixedHeaderLen(in))
      + IF mqtt_get_qos(in) > 0 THEN 2 ELSE 0

\* Seeded fault: a PUBLISH that does not fit is refused.
MessageTooLong_Publish == DoesNotFit /\ ~LacksTopicLen

MessageTooLong ==
    /\ DoesNotFit /\ ~LacksTopicLen
    /\ mqtt_get_type(in) = PUBLISH => TopicEnd > BufferLength

\* What has to be in the buffer before the message is processed.
Wanted == IF DoesNotFit THEN BufferLength ELSE MessageLength

\* The call returns 0; esp_mqtt_task comes back in its next round.
ReadTopicLen ==
    /\ at = "body" /\ LacksTopicLen
    /\ \E k \in 1..3 : Read(k, Len(in) - FixedHeaderLen(in) + 2)
    /\ at' = IF Len(in') < FixedHeaderLen(in) + 2 THEN "idle" ELSE "body"
    /\ progress' = (at' = "body")
    /\ UNCHANGED <<link, current, left, sent, heard, replies, failures>>

\* Seeded fault: 0 is returned, as if more were to come.
Refuse_Waits ==
    /\ at = "body" /\ MessageTooLong
    /\ at' = "idle"
    /\ progress' = FALSE
    /\ UNCHANGED <<link, unread, in, current, left, sent, heard, replies, failures>>

Refuse ==
    /\ at = "body" /\ MessageTooLong
    /\ AbortConnection
    /\ UNCHANGED failures

\* Seeded fault: one byte too many is asked for.
ReadRest_OneMore ==
    /\ at = "body" /\ ~LacksTopicLen /\ ~MessageTooLong
    /\ Len(in) < Wanted
    /\ \E k \in 1..BufferLength : Read(k, Wanted - Len(in) + 1)
    /\ at' = IF Len(in') < Wanted THEN "idle" ELSE "body"
    /\ progress' = (at' = "body")
    /\ UNCHANGED <<link, current, left, sent, heard, replies, failures>>

ReadRest ==
    /\ at = "body" /\ ~LacksTopicLen /\ ~MessageTooLong
    /\ Len(in) < Wanted
    /\ \E k \in 1..BufferLength : Read(k, Wanted - Len(in))
    /\ at' = IF Len(in') < Wanted THEN "idle" ELSE "body"
    /\ progress' = (at' = "body")
    /\ UNCHANGED <<link, current, left, sent, heard, replies, failures>>

Complete == at = "body" /\ ~LacksTopicLen /\ ~MessageTooLong /\ Len(in) >= Wanted

\* Nothing comes while a message is being read: -1.  mqtt_process_receive
\* lets it pass if anything was read since it was called, esp_mqtt_connect
\* does not.
TimesOut ==
    /\ at \in {"length", "body"}
    /\ at = "body" => ~Complete /\ ~MessageTooLong
    /\ IF link = "up" /\ progress
       THEN /\ at' = "idle"
            /\ progress' = FALSE
            /\ UNCHANGED <<link, unread, in, current, left, sent, heard, replies, failures>>
       ELSE Breaks

---------------------------------------------------------------------------
\* The callers.

\* esp_mqtt_connect: the answer to CONNECT.
ProcessConnAck ==
    /\ Complete /\ link = "connecting"
    /\ IF mqtt_get_type(in) = CONNACK /\ in[4] = 0
       THEN /\ link' = "up"
            /\ in' = <<>>
            /\ at' = "idle"
            /\ progress' = FALSE
            /\ UNCHANGED <<unread, current, left, sent, heard, replies>>
       ELSE AbortConnection
    /\ UNCHANGED failures

\* The end of mqtt_process_receive for a PUBLISH; the write of the answer may
\* fail only with the connection, which is Breaks.
Answer(m) ==
    /\ heard' = Append(heard, m)
    /\ replies' = CASE m.qos = 1 -> Append(replies, mqtt_msg_puback(m.id))
                    [] m.qos = 2 -> Append(replies, mqtt_msg_pubrec(m.id))
                    [] OTHER -> replies
    /\ in' = <<>>
    /\ at' = "idle"
    /\ progress' = FALSE

\* deliver_publish: the first event has the topic and the data at hand.
ProcessPublish ==
    /\ Complete /\ link = "up" /\ mqtt_get_type(in) = PUBLISH
    /\ HasTopic(in)
    /\ LET data == mqtt_get_publish_data(in)
           rest == MessageLength - Len(in)
           m == [type |-> PUBLISH, qos |-> mqtt_get_qos(in),
                 id |-> mqtt_get_id(in, MessageLength),
                 topic |-> mqtt_get_publish_topic(in), data |-> data,
                 total |-> Len(data) + rest]
       IN IF rest > 0
          THEN /\ current' = m
               /\ left' = rest
               /\ at' = "data"
               /\ UNCHANGED <<in, progress, heard, replies>>
          ELSE /\ Answer(m)
               /\ UNCHANGED <<current, left>>
    /\ UNCHANGED <<link, unread, sent, failures>>

PublishWithoutTopic ==
    /\ Complete /\ link = "up" /\ mqtt_get_type(in) = PUBLISH
    /\ ~HasTopic(in)
    /\ AbortConnection
    /\ UNCHANGED failures

\* The loop of deliver_publish: one event for each further part of the data.
ReadData ==
    /\ at = "data"
    /\ \E k \in 1..Min({left, BufferLength, Len(unread)}) :
          LET m == WithData(current, current.data \o SubSeq(unread, 1, k))
          IN /\ unread' = SubSeq(unread, k + 1, Len(unread))
             /\ IF k = left
                THEN left' = 0 /\ current' = Nothing /\ Answer(m)
                ELSE left' = left - k /\ current' = m /\ UNCHANGED <<in, at, progress, heard, replies>>
    /\ UNCHANGED <<link, sent, failures>>

\* No data within network_timeout_ms is no error: the message is answered,
\* and the next byte is taken for the first of a message.  What the client
\* makes of the rest of the connection is left open.
DataTimesOut ==
    /\ at = "data"
    /\ failures < MaxFailures
    /\ failures' = failures + 1
    /\ link' = "garbled"
    /\ left' = 0
    /\ current' = Nothing
    /\ Answer(current)
    /\ UNCHANGED <<unread, sent>>

\* Seeded fault: PUBREL is answered as a PUBLISH is.
ReplyTo_Pubrec(m) ==
    CASE m.type = PUBREC -> <<mqtt_msg_pubrel(m.id)>>
      [] m.type = PUBREL -> <<mqtt_msg_pubrec(m.id)>>
      [] OTHER -> <<>>

\* mqtt_process_receive: the answer to a message of the QoS 2 exchange.
ReplyTo(m) ==
    CASE m.type = PUBREC -> <<mqtt_msg_pubrel(m.id)>>
      [] m.type = PUBREL -> <<mqtt_msg_pubcomp(m.id)>>
      [] OTHER -> <<>>

\* The other messages.  What an acknowledgment does to the outbox is in
\* MqttClient.
ProcessOther ==
    /\ Complete /\ link = "up" /\ mqtt_get_type(in) # PUBLISH
    /\ LET type == mqtt_get_type(in)
           data == IF type = SUBACK THEN SubSeq(in, 5, Len(in)) ELSE <<>>
           m == Message(type, 0, mqtt_get_id(in, MessageLength), <<>>, data)
       IN /\ heard' = Append(heard, m)
          /\ replies' = replies \o ReplyTo(m)
    /\ in' = <<>>
    /\ at' = "idle"
    /\ progress' = FALSE
    /\ UNCHANGED <<link, unread, current, left, sent, failures>>

---------------------------------------------------------------------------
Network == Breaks \/ Connect \/ \E m \in Messages : BrokerSends(m)

\* mqtt_message_receive and its callers.
Receive ==
    \/ ReadFirst \/ ReadFirstInvalid \/ Resume \/ ReadLength
    \/ ReadTopicLen \/ Refuse \/ ReadRest \/ TimesOut
    \/ ProcessConnAck \/ ProcessPublish \/ PublishWithoutTopic
    \/ ReadData \/ DataTimesOut \/ ProcessOther

Next == Network \/ Receive

Spec == Init /\ [][Next]_vars

\* Bytes arrive, and the rounds of esp_mqtt_task go on.
FairSpec == Spec /\ WF_vars(Receive) /\ WF_vars(Connect)

---------------------------------------------------------------------------
\* However its bytes come in, and whatever an earlier connection left in the
\* buffer, what the client makes of a connection is what the broker sent on
\* it: every message whole and in order, none left out or made up
\* (mqtt_client.c:1439).
HeardIsSent ==
    link # "garbled" =>
        /\ Len(heard) <= Len(sent)
        /\ heard = SubSeq(sent, 1, Len(heard))

\* Every message of QoS 1 or 2 that was heard, and each step of the exchange
\* of QoS 2, is answered once, in order, with its own identifier, and nothing
\* else is (mqtt_client.c:1656).
ExpectedReply(m) ==
    CASE m.type = PUBLISH /\ m.qos = 1 -> <<mqtt_msg_puback(m.id)>>
      [] m.type = PUBLISH /\ m.qos = 2 -> <<mqtt_msg_pubrec(m.id)>>
      [] m.type = PUBREC -> <<mqtt_msg_pubrel(m.id)>>
      [] m.type = PUBREL -> <<mqtt_msg_pubcomp(m.id)>>
      [] OTHER -> <<>>

RepliesMatch ==
    replies = FlattenSeq([i \in DOMAIN heard |-> ExpectedReply(heard[i])])

\* The client takes down a connection for a message it has no room for, or
\* for CONNACK; otherwise only if the network failed (mqtt_client.c:1587).
KeepsSoundConnection ==
    [][link = "up" /\ link' = "down" =>
          \/ failures' > failures
          \/ Len(heard) < Len(sent) /\ Unacceptable(sent[Len(heard) + 1])]_vars

\* What was sent is heard, or the connection is made again, for which
\* KeepsSoundConnection gives the only reasons: no pattern of reads leaves a
\* message in the buffer for ever (mqtt_client.c:1472).
HearsEverything == heard # sent ~> heard = sent \/ link = "garbled"

=============================================================================
