------------------------------ MODULE MqttMsg ------------------------------
(***************************************************************************)
(* components/mqtt/lib/mqtt_msg.c for MQTT 3.1.1: the messages are built   *)
(* from, and taken apart into, sequences of bytes.  buffer[i] of the code  *)
(* is buffer[i + 1] here.  The bound of the output buffer is left out.     *)
(***************************************************************************)
EXTENDS Integers, SequencesExt

Byte == 0..255

\* mqtt_msg.h: enum mqtt_message_type.
CONNACK == 2
PUBLISH == 3
PUBACK == 4
PUBREC == 5
PUBREL == 6
PUBCOMP == 7
SUBACK == 9
UNSUBACK == 11
PINGRESP == 13

mqtt_get_type(buffer) == buffer[1] \div 16
mqtt_get_dup(buffer) == (buffer[1] \div 8) % 2
mqtt_get_qos(buffer) == (buffer[1] \div 2) % 4

mqtt_has_valid_msg_hdr(buffer) ==
    LET flags == buffer[1] % 16
        type == mqtt_get_type(buffer)
    IN CASE type \in {1, 2, 4, 5, 7, 9, 11, 12, 13, 14} -> flags = 0
         [] type \in {6, 8, 10} -> flags = 2
         [] type = PUBLISH -> /\ mqtt_get_qos(buffer) < 3
                              /\ mqtt_get_qos(buffer) = 0 => mqtt_get_dup(buffer) = 0
         [] OTHER -> FALSE

---------------------------------------------------------------------------
\* The remaining length.

\* The loop of fini_message, for a length that four bytes can hold.
Weight == <<1, 128, 16384, 2097152>>

\* What four bytes can hold: fini_message builds no longer message.
MaxRemaining == 268435455

LenBytes(n) ==
    1 + (IF n >= Weight[2] THEN 1 ELSE 0)
      + (IF n >= Weight[3] THEN 1 ELSE 0)
      + (IF n >= Weight[4] THEN 1 ELSE 0)

LenDigit(n, k) == (n \div Weight[k]) % 128

EncodedLens(n) ==
    [k \in 1..LenBytes(n) |-> LenDigit(n, k) + IF k < LenBytes(n) THEN 128 ELSE 0]

\* Where the loop `for (i = 1; i < length && i <= most; ++i)` over the bytes
\* with the continuation bit leaves i.
HeaderLen(buffer, most) ==
    LET last == {i \in 1..most : i < Len(buffer) /\ buffer[i + 1] < 128}
    IN IF last # {} THEN Min(last) + 1 ELSE Min({Len(buffer), most + 1})

FixedHeaderLen(buffer) == HeaderLen(buffer, 4)

RemainingLength(buffer) ==
    LET digit(k) == IF k < FixedHeaderLen(buffer) THEN buffer[k + 1] % 128 ELSE 0
    IN digit(1) + Weight[2] * digit(2) + Weight[3] * digit(3) + Weight[4] * digit(4)

mqtt_get_total_length(buffer) == RemainingLength(buffer) + FixedHeaderLen(buffer)

---------------------------------------------------------------------------
\* Building a message.

Word(n) == <<n \div 256, n % 256>>

\* An id of 0 stands for no id at all: the code draws one at random instead.
append_string(message, string) == message \o Word(Len(string)) \o string
append_message_id(message, id) == message \o Word(id)

\* The buffer leaves room for the longest fixed header; the header is written
\* right before the rest.
fini_message(type, qos, rest) ==
    <<16 * type + 2 * qos>> \o EncodedLens(Len(rest)) \o rest

mqtt_msg_publish(topic, data, qos, id) ==
    LET header == append_string(<<>>, topic)
    IN fini_message(PUBLISH, qos,
                    (IF qos > 0 THEN append_message_id(header, id) ELSE header) \o data)

mqtt_msg_puback(id) == fini_message(PUBACK, 0, append_message_id(<<>>, id))
mqtt_msg_pubrec(id) == fini_message(PUBREC, 0, append_message_id(<<>>, id))
mqtt_msg_pubrel(id) == fini_message(PUBREL, 1, append_message_id(<<>>, id))
mqtt_msg_pubcomp(id) == fini_message(PUBCOMP, 0, append_message_id(<<>>, id))
mqtt_msg_pingresp == fini_message(PINGRESP, 0, <<>>)

---------------------------------------------------------------------------
\* Taking a message apart.  i is the length of the fixed header.

TopicLen(buffer, i) == 256 * buffer[i + 1] + buffer[i + 2]

\* The functions below look for the end of the header in the whole buffer.
HeaderOf(buffer) == HeaderLen(buffer, Len(buffer) - 1)

\* FALSE where mqtt_get_publish_topic returns NULL.
HasTopic(buffer) ==
    LET i == HeaderOf(buffer)
    IN i + 2 < Len(buffer) /\ i + 2 + TopicLen(buffer, i) <= Len(buffer)

mqtt_get_publish_topic(buffer) ==
    LET i == HeaderOf(buffer)
    IN SubSeq(buffer, i + 3, i + 2 + TopicLen(buffer, i))

\* The part of the data that is in the buffer; empty where the code has NULL.
mqtt_get_publish_data(buffer) ==
    LET i == FixedHeaderLen(buffer)
        afterTopic == i + 2 + TopicLen(buffer, i)
        start == afterTopic + IF mqtt_get_qos(buffer) > 0 THEN 2 ELSE 0
        total == mqtt_get_total_length(buffer)
    IN IF \/ i + 2 >= Len(buffer)
          \/ afterTopic >= Len(buffer)
          \/ start > afterTopic /\ start >= Len(buffer)
          \/ total < start
       THEN <<>>
       ELSE SubSeq(buffer, start + 1, Min({total, Len(buffer)}))

\* length may be more than the buffer holds.
mqtt_get_id(buffer, length) ==
    LET i == HeaderOf(buffer)
        afterTopic == i + 2 + TopicLen(buffer, i)
        type == mqtt_get_type(buffer)
    IN CASE type = PUBLISH ->
              IF mqtt_get_qos(buffer) > 0 /\ i + 2 < length /\ afterTopic + 2 <= length
              THEN TopicLen(buffer, afterTopic) ELSE 0
         [] type \in {4, 5, 6, 7, 8, 9, 10, 11} ->
              IF length >= 4 /\ buffer[2] < 128
              THEN 256 * buffer[3] + buffer[4] ELSE 0
         [] OTHER -> 0

=============================================================================
