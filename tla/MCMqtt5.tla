------------------------------- MODULE MCMqtt5 -------------------------------
\* Instances of Mqtt5Client for TLC.
EXTENDS Mqtt5Client

Text(n, from) == [i \in 1..n |-> from + (i % 5)]

MCInfo ==
    [client_id |-> <<>>, keepalive |-> 300, clean_session |-> FALSE,
     will_topic |-> Text(2, 100), will_message |-> Text(3, 40), will_qos |-> 1,
     will_retain |-> TRUE, username |-> Text(2, 110), password |-> <<>>]

MCConnectConfig ==
    [session_expiry_interval |-> 70000, maximum_packet_size |-> 0,
     receive_maximum |-> 20, topic_alias_maximum |-> 1, request_resp_info |-> TRUE,
     request_problem_info |-> TRUE,
     user_property |-> <<[key |-> <<97>>, value |-> Text(2, 48)]>>]

Will ==
    [will_delay_interval |-> 10, payload_format_indicator |-> TRUE,
     message_expiry_interval |-> 300, content_type |-> Text(2, 60),
     response_topic |-> Text(3, 70), correlation_data |-> Text(2, 200),
     user_property |-> <<>>]

Plain ==
    [payload_format_indicator |-> FALSE, message_expiry_interval |-> 0,
     topic_alias |-> 0, response_topic |-> <<>>, correlation_data |-> <<>>,
     content_type |-> <<>>, subscribe_id |-> 0, user_property |-> <<>>]

\* The length of all properties takes two bytes.
Long ==
    [Plain EXCEPT
        !.payload_format_indicator = TRUE, !.message_expiry_interval = 66000,
        !.response_topic = Text(4, 70), !.correlation_data = Text(3, 250),
        !.content_type = Text(2, 60),
        !.user_property = <<[key |-> <<107>>, value |-> Text(3, 50)],
                            [key |-> <<107>>, value |-> Text(110, 50)]>>]
WithAlias(property) == [property EXCEPT !.topic_alias = 1]

Publication(topic, data, qos, retain, property) ==
    [topic |-> topic, data |-> data, qos |-> qos, retain |-> retain,
     property |-> property, store |-> FALSE]

\* With every property and QoS 2; the alias alone; more data than the buffer
\* holds twice.
MCPublications ==
    {Publication(Text(3, 80), <<1>>, 2, FALSE, WithAlias(Long)),
     Publication(<<>>, <<2, 3>>, 0, FALSE, WithAlias(Plain)),
     Publication(Text(2, 90), Text(420, 32), 1, TRUE, Plain)}

MCStored ==
    {Publication(Text(3, 80), <<4>>, 1, FALSE, WithAlias(Plain)),
     [Publication(Text(2, 90), <<5>>, 0, FALSE, Plain) EXCEPT !.store = TRUE]}

Subscribing(filter, qos, no_local, shared) ==
    [filter |-> filter, qos |-> qos,
     property |-> [subscribe_id |-> 300, no_local_flag |-> no_local,
                   retain_as_published_flag |-> TRUE, retain_handle |-> 2,
                   is_share_subscribe |-> shared, share_name |-> Text(2, 103),
                   user_property |-> <<[key |-> <<97>>, value |-> <<98>>]>>]]
MCSubscriptions == {Subscribing(Text(2, 90), 1, FALSE, TRUE), Subscribing(Text(2, 90), 2, TRUE, FALSE)}

MCUnsubscriptions ==
    {[filter |-> Text(2, 90),
      property |-> [is_share_subscribe |-> TRUE, share_name |-> Text(2, 103),
                    user_property |-> <<[key |-> <<97>>, value |-> <<98>>]>>]]}

MCDisconnections ==
    {[disconnect_reason |-> 4, session_expiry_interval |-> 0,
      user_property |-> <<[key |-> <<97>>, value |-> <<98>>]>>]}

\* One broker: it has the same limits on every connection.
Accepting ==
    [reason_code |-> 0, reason_string |-> <<>>, session_expiry_interval |-> 60000,
     receive_maximum |-> 1, max_qos |-> 2, retain_available |-> TRUE,
     maximum_packet_size |-> 100000, client_id |-> Text(4, 97),
     topic_alias_maximum |-> 1, wildcard |-> FALSE, subscr_identifier |-> TRUE,
     shared |-> TRUE, keepalive |-> 60, response_info |-> <<>>,
     server_reference |-> <<>>, user_property |-> BrokerProperty]
Refusing ==
    [Accepting EXCEPT
        !.reason_code = 151, !.reason_string = Text(3, 65),
        !.session_expiry_interval = 0, !.receive_maximum = 0,
        !.maximum_packet_size = 0, !.client_id = <<>>, !.topic_alias_maximum = 0,
        !.wildcard = TRUE, !.keepalive = 0, !.server_reference = Text(2, 65),
        !.user_property = <<>>]
MCAnswers == {Accepting, Refusing}

\* A topic for the alias, another one, the alias alone, and more data than
\* the buffer holds.
Message(topic, data, qos, property) ==
    [topic |-> topic, data |-> data, qos |-> qos, retain |-> FALSE, property |-> property]
MCMessages ==
    {Message(Text(2, 90), <<6>>, 2, WithAlias(Plain)),
     Message(Text(3, 80), Text(100, 32), 1, [WithAlias(Plain) EXCEPT !.subscribe_id = 300]),
     Message(<<>>, <<7>>, 0, WithAlias(Plain))}

\* The publications that are enqueued while connected are small.
ASSUME StoredIsSmall == StoredFits
\* The messages of the broker are larger than the buffer for their data only.
ASSUME PropertiesAreSmall == PropertiesFit

=============================================================================
