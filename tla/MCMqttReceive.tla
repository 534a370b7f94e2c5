--------------------------- MODULE MCMqttReceive ---------------------------
\* Instances of MqttReceive for TLC.
EXTENDS MqttReceive

\* Topics and data with bytes above 127 and with bytes that look like a
\* message.
Topic(n) == [i \in 1..n |-> 195 + (i % 2)]
Data(n) == [i \in 1..n |-> (62 * i) % 256]

\* Identifiers with one byte above 127: with two a resumed message goes wrong
\* (section 7 of the README).
Ack(type) == Message(type, 0, 33025, <<>>, <<>>)
Small == Message(PUBLISH, 0, 0, Topic(1), <<>>)
Exact == Message(PUBLISH, 1, 384, Topic(3), Data(1))

FewMessages ==
    {Ack(PUBREC), Ack(PUBREL), Small, Exact, Nothing,
     Message(SUBACK, 0, 384, <<>>, <<1>>),
     \* More than the buffer: the length takes one byte, or two.
     Message(PUBLISH, 2, 200, Topic(2), Data(9)),
     Message(PUBLISH, 1, 200, Topic(2), Data(122)),
     \* A topic that is too long, also by less than the code's test can
     \* tell, and a QoS that there is not.
     Message(PUBLISH, 0, 0, Topic(14), <<>>),
     Message(PUBLISH, 0, 0, Topic(8), Data(2)),
     Message(PUBLISH, 3, 200, Topic(1), <<>>)}

\* The hypothesis of the theorems in MqttReceiveProofs.
ASSUME FewAreOrdinary == AllOrdinary

=============================================================================
