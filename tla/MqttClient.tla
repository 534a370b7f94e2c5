----------------------------- MODULE MqttClient -----------------------------
(***************************************************************************)
(* The MQTT client as this firmware uses it: esp_mqtt_task and the API of  *)
(* components/mqtt/mqtt_client.c, the event handler of main/mqtt_cam.c     *)
(* that runs on that task, and uart_rx_task, which publishes samples.      *)
(*                                                                         *)
(* Every part of the task's loop runs under the client's lock, so another  *)
(* task gets in only while at = "idle"; the network and the broker act at  *)
(* any time.  The firmware uses QoS 0 and 1, a clean session, automatic    *)
(* reconnection and no limit on the outbox, and never stops the client.    *)
(***************************************************************************)
EXTENDS MqttOutbox

CONSTANTS
    MaxSamples,     \* bound on the samples published
    MaxCommands,    \* bound on the capture commands of the server
    MaxFailures,    \* bound on the failures of the network
    Window,         \* bound on the packets a connection holds unread
    MayExpire       \* TRUE: messages may get OUTBOX_EXPIRED_TIMEOUT_MS old

ASSUME MqttAssumption ==
    /\ MaxSamples \in Nat
    /\ MaxCommands \in Nat
    /\ MaxFailures \in Nat
    /\ Window \in Nat \ {0}
    /\ MayExpire \in BOOLEAN

\* append_message_id draws an id at random; here no two messages share one.
Samples == [kind : {"sample"}, n : 1..MaxSamples]
Sample(n) == [kind |-> "sample", n |-> n]
Online(n) == [kind |-> "online", n |-> n]
CmdTopic(n) == [kind |-> "subscribe", n |-> n]
CaptureFailed(n) == [kind |-> "capture_failed", n |-> n]
Capture(n) == [kind |-> "capture", n |-> n]
AllIds ==
    Samples
      \cup [kind : {"online", "subscribe"}, n : 1..(MaxFailures + 1)]
      \cup [kind : {"capture_failed"}, n : 1..MaxCommands]

ASSUME IdsAssumption == AllIds \subseteq Ids

VARIABLES
    \* The client.
    state,          \* client->state
    at,             \* where esp_mqtt_task is; "idle": the lock is free
    outbox,
    elapsed,        \* has_timed_out(last_retransmit, ...)
    \* The TCP connection.
    link,           \* "none", "up" or "dead": gone, and not yet noticed
    toBroker, toClient,
    \* The broker.
    session,        \* it has a session with this client
    subscribed,     \* ... that is subscribed to the command topic
    retained,       \* the retained message of the status topic
    command,        \* a command was sent and is not answered
    \* The UART task, and history.
    next,           \* the samples published
    got, expired,   \* the samples the broker has; those dropped for their age
    connections, commands, failures,
    captured        \* the last command the client has received

client == <<state, at, outbox, elapsed>>
network == <<link, toBroker, toClient>>
broker == <<session, subscribed, retained, command, got, commands>>
counts == <<next, expired, connections, failures, captured>>
vars == <<client, network, broker, counts>>

Packet(type, id) == [type |-> type, id |-> id]
NoId == [kind |-> "none", n |-> 0]

MqttTypeOK ==
    /\ state \in {"INIT", "CONNECTED", "WAIT_RECONNECT"}
    /\ at \in {"idle", "switch", "subscribe", "online", "capture", "puback",
               "resend"}
    /\ outbox \in Seq(Items)
    /\ \A i, j \in DOMAIN outbox : outbox[i].id = outbox[j].id => i = j
    /\ elapsed \in BOOLEAN
    /\ link \in {"none", "up", "dead"}
    /\ state = "CONNECTED" <=> link # "none"
    /\ at \notin {"idle", "switch"} => state = "CONNECTED"
    /\ session \in BOOLEAN
    /\ retained \in {"nothing", "online", "offline"}
    /\ subscribed => session

Init ==
    /\ state = "INIT"
    /\ at = "idle"
    /\ outbox = <<>>
    /\ elapsed = FALSE
    /\ link = "none"
    /\ toBroker = <<>>
    /\ toClient = <<>>
    /\ session = FALSE
    /\ subscribed = FALSE
    /\ retained = "nothing"
    /\ command = FALSE
    /\ next = 0
    /\ got = {}
    /\ expired = {}
    /\ connections = 0
    /\ commands = 0
    /\ failures = 0
    /\ captured = 0

---------------------------------------------------------------------------
\* Writing and losing the connection.

\* esp_mqtt_write succeeds, as soon as there is room; on a dead connection
\* the bytes go nowhere.
Writes(packet) ==
    /\ link = "up" => Len(toBroker) < Window
    /\ toBroker' = IF link = "up" THEN Append(toBroker, packet) ELSE toBroker
    /\ UNCHANGED <<link, toClient>>

\* Seeded fault: the transport is not closed.
AbortConnection_NoClose ==
    /\ state' = "WAIT_RECONNECT"
    /\ UNCHANGED network

\* esp_mqtt_write returns an error, and esp_mqtt_abort_connection is called.
\* What was written before may still reach the broker.
AbortConnection ==
    /\ state' = "WAIT_RECONNECT"
    /\ link' = "none"
    /\ toClient' = <<>>
    /\ UNCHANGED toBroker

\* esp_mqtt_client_publish with QoS 1, while connected.
Publish(id, then) ==
    LET queued == outbox_enqueue(outbox, id, "PUBLISH")
    IN \/ /\ Writes(Packet("PUBLISH", id))
          /\ outbox' = outbox_set_pending(outbox_set_tick(queued, id), id, "TRANSMITTED")
          /\ at' = then
          /\ UNCHANGED state
       \/ /\ link = "dead"
          /\ AbortConnection
          /\ outbox' = queued
          /\ at' = "idle"

---------------------------------------------------------------------------
\* esp_mqtt_task, one round of its loop.

Goto(from, to) == at = from /\ at' = to

\* The lock is taken and what is too old is dropped.
BeginRound ==
    /\ Goto("idle", "switch")
    /\ \E old \in SUBSET {outbox[i].id : i \in {j \in DOMAIN outbox : outbox[j].due}} :
          /\ old # {} => MayExpire
          /\ outbox' = outbox_delete_expired(outbox, old)
          /\ expired' = expired \cup (old \cap Samples)
    /\ UNCHANGED <<state, elapsed, network, broker, next, connections, failures,
                   captured>>

\* MQTT_STATE_INIT: no transport, or the broker does not accept.
ConnectFails ==
    /\ Goto("switch", "idle")
    /\ state = "INIT"
    /\ failures < MaxFailures
    /\ failures' = failures + 1
    /\ AbortConnection
    /\ UNCHANGED <<outbox, elapsed, broker, next, expired, connections, captured>>

\* MQTT_STATE_INIT: connected.  The broker ends the session it still has
\* with this client id, and with it the will becomes the status.
Connects ==
    /\ Goto("switch", "subscribe")
    /\ state = "INIT"
    /\ state' = "CONNECTED"
    /\ link' = "up"
    /\ toBroker' = <<>>
    /\ toClient' = <<>>
    /\ connections' = connections + 1
    /\ session' = TRUE
    /\ subscribed' = FALSE
    /\ command' = FALSE
    /\ retained' = IF session THEN "offline" ELSE retained
    /\ UNCHANGED <<outbox, elapsed, got, commands, next, expired, failures,
                   captured>>

\* Seeded fault: the broker is trusted to remember the subscription.
Subscribe_FirstOnly ==
    /\ Goto("subscribe", "online")
    /\ \/ /\ connections = 1
          /\ outbox' = outbox_set_pending(
                           outbox_enqueue(outbox, CmdTopic(1), "SUBSCRIBE"),
                           CmdTopic(1), "TRANSMITTED")
          /\ Writes(Packet("SUBSCRIBE", CmdTopic(1)))
       \/ connections > 1 /\ UNCHANGED <<outbox, network>>
    /\ UNCHANGED <<state, elapsed, broker, counts>>

\* mqtt_event_handler on MQTT_EVENT_CONNECTED: esp_mqtt_client_subscribe.
\* A write that fails leaves the message to be resent.
Subscribe ==
    /\ Goto("subscribe", "online")
    /\ outbox' = outbox_set_pending(
                     outbox_enqueue(outbox, CmdTopic(connections), "SUBSCRIBE"),
                     CmdTopic(connections), "TRANSMITTED")
    /\ \/ Writes(Packet("SUBSCRIBE", CmdTopic(connections)))
       \/ link = "dead" /\ UNCHANGED network
    /\ UNCHANGED <<state, elapsed, broker, counts>>

\* ... and esp_mqtt_client_publish of "online".
PublishOnline ==
    /\ at = "online"
    /\ Publish(Online(connections), "idle")
    /\ UNCHANGED <<elapsed, broker, counts>>

\* MQTT_STATE_WAIT_RECONNECT: reconnect_timeout_ms is over, or not yet.
Reconnects ==
    /\ Goto("switch", "idle")
    /\ state = "WAIT_RECONNECT"
    /\ state' = "INIT"
    /\ UNCHANGED <<outbox, elapsed, network, broker, counts>>

StillWaits ==
    /\ Goto("switch", "idle")
    /\ state = "WAIT_RECONNECT"
    /\ UNCHANGED <<state, outbox, elapsed, network, broker, counts>>

\* MQTT_STATE_CONNECTED: mqtt_process_receive.
ReceivesNothing ==
    /\ Goto("switch", "resend")
    /\ state = "CONNECTED"
    /\ toClient = <<>>
    /\ UNCHANGED <<state, outbox, elapsed, network, broker, counts>>

ReceiveFails ==
    /\ Goto("switch", "idle")
    /\ link = "dead"
    /\ AbortConnection
    /\ UNCHANGED <<outbox, elapsed, broker, counts>>

Receives(type, to) ==
    /\ Goto("switch", to)
    /\ toClient # <<>>
    /\ Head(toClient).type = type
    /\ toClient' = Tail(toClient)
    /\ UNCHANGED <<state, elapsed, link, toBroker, broker, next, expired,
                   connections, failures>>

ReceivesPuback ==
    /\ Receives("PUBACK", "resend")
    /\ outbox' = outbox_delete(outbox, Head(toClient).id, "PUBLISH")
    /\ UNCHANGED captured

ReceivesSuback ==
    /\ Receives("SUBACK", "resend")
    /\ outbox' = outbox_delete(outbox, Head(toClient).id, "SUBSCRIBE")
    /\ UNCHANGED captured

ReceivesCommand ==
    /\ Receives("CAPTURE", "capture")
    /\ captured' = Head(toClient).id.n
    /\ UNCHANGED outbox

\* mqtt_event_handler on MQTT_EVENT_DATA: publish_capture, with a picture ...
Captures ==
    /\ at = "capture"
    /\ \/ /\ Writes(Packet("IMAGE", NoId))
          /\ at' = "puback"
          /\ UNCHANGED state
       \/ /\ link = "dead"
          /\ AbortConnection
          /\ at' = "idle"
    /\ UNCHANGED <<outbox, elapsed, broker, counts>>

\* Seeded fault: a capture that fails is only logged.
CaptureFails_Silent ==
    /\ Goto("capture", "puback")
    /\ UNCHANGED <<state, outbox, elapsed, network, broker, counts>>

\* ... or without one.  After an aborted connection the PUBACK fails as well.
CaptureFails ==
    /\ at = "capture"
    /\ Publish(CaptureFailed(captured), "puback")
    /\ UNCHANGED <<elapsed, broker, counts>>

SendsPuback ==
    /\ at = "puback"
    /\ \/ /\ Writes(Packet("PUBACK", NoId))
          /\ at' = "resend"
          /\ UNCHANGED state
       \/ /\ link = "dead"
          /\ AbortConnection
          /\ at' = "idle"
    /\ UNCHANGED <<outbox, elapsed, broker, counts>>

\* mqtt_resend_queued of the item at i; sent is the outbox after a success.
Resend(i, sent) ==
    \/ /\ Writes(Packet(outbox[i].type, outbox[i].id))
       /\ outbox' = sent
       /\ at' = "idle"
       /\ UNCHANGED state
    \/ /\ link = "dead"
       /\ AbortConnection
       /\ at' = "idle"
       /\ UNCHANGED outbox

\* Seeded fault: every resent message is deleted, as one with QoS 0 is.
ResendQueued_Deletes ==
    LET i == outbox_dequeue(outbox, "QUEUED")
    IN /\ at = "resend"
       /\ i # 0
       /\ Resend(i, RemoveAt(outbox, i))
       /\ UNCHANGED <<elapsed, broker, counts>>

\* The first message that was never transmitted goes before any other.
ResendQueued ==
    LET i == outbox_dequeue(outbox, "QUEUED")
    IN /\ at = "resend"
       /\ i # 0
       /\ Resend(i, outbox_set_pending(outbox, outbox[i].id, "TRANSMITTED"))
       /\ UNCHANGED <<elapsed, broker, counts>>

\* Seeded fault: only messages that were never transmitted are sent again.
Retransmit_Never ==
    /\ Goto("resend", "idle")
    /\ outbox_dequeue(outbox, "QUEUED") = 0
    /\ elapsed
    /\ elapsed' = FALSE
    /\ UNCHANGED <<state, outbox, network, broker, counts>>

\* Once per message_retransmit_timeout the oldest transmitted message is
\* sent again, if it is due; its tick stays.
Retransmit ==
    LET i == outbox_dequeue(outbox, "TRANSMITTED")
        isDue == i # 0 /\ outbox[i].due
    IN /\ at = "resend"
       /\ outbox_dequeue(outbox, "QUEUED") = 0
       /\ elapsed
       /\ elapsed' = FALSE
       /\ \/ isDue /\ Resend(i, outbox)
          \/ /\ ~isDue
             /\ at' = "idle"
             /\ UNCHANGED <<state, outbox, network>>
       /\ UNCHANGED <<broker, counts>>

NothingToResend ==
    /\ Goto("resend", "idle")
    /\ outbox_dequeue(outbox, "QUEUED") = 0
    /\ ~elapsed
    /\ UNCHANGED <<state, outbox, elapsed, network, broker, counts>>

\* The round ends with process_keepalive, which misses a PINGRESP or cannot
\* send a PINGREQ, or, the lock released, with a failed poll for input.
NoticesDead ==
    /\ at = "idle"
    /\ link = "dead"
    /\ AbortConnection
    /\ UNCHANGED <<at, outbox, elapsed, broker, counts>>

\* What the task always gets to, however long the connection stays dead.
Round ==
    \/ BeginRound \/ Connects \/ Subscribe \/ PublishOnline
    \/ Reconnects \/ StillWaits
    \/ ReceivesNothing \/ ReceivesPuback \/ ReceivesSuback \/ ReceivesCommand
    \/ Captures \/ CaptureFails \/ SendsPuback
    \/ ResendQueued \/ Retransmit \/ NothingToResend

Task == Round \/ ConnectFails \/ ReceiveFails \/ NoticesDead

---------------------------------------------------------------------------
\* Around the task.

\* mqtt_cam_publish_uart on uart_rx_task: connected, or only enqueued.
PublishSample ==
    /\ at = "idle"
    /\ next < MaxSamples
    /\ next' = next + 1
    /\ \/ state = "CONNECTED" /\ Publish(Sample(next + 1), "idle")
       \/ /\ state # "CONNECTED"
          /\ outbox' = outbox_enqueue(outbox, Sample(next + 1), "PUBLISH")
          /\ UNCHANGED <<state, at, network>>
    /\ UNCHANGED <<elapsed, broker, expired, connections, failures, captured>>

\* message_retransmit_timeout goes by.
TimePasses ==
    /\ ~elapsed \/ \E i \in DOMAIN outbox : ~outbox[i].due
    /\ elapsed' = TRUE
    /\ outbox' = [i \in DOMAIN outbox |-> [outbox[i] EXCEPT !.due = TRUE]]
    /\ UNCHANGED <<state, at, network, broker, counts>>

\* The connection dies, and with it any part of what was under way.
LinkFails ==
    /\ link = "up"
    /\ failures < MaxFailures
    /\ failures' = failures + 1
    /\ link' = "dead"
    /\ \E n \in 0..Len(toBroker) : toBroker' = SubSeq(toBroker, 1, n)
    /\ \E n \in 0..Len(toClient) : toClient' = SubSeq(toClient, 1, n)
    /\ UNCHANGED <<client, broker, next, expired, connections, captured>>

\* The broker takes a packet and answers it.
BrokerReceives ==
    /\ session
    /\ toBroker # <<>>
    /\ toBroker' = Tail(toBroker)
    /\ LET packet == Head(toBroker)
           answer == CASE packet.type = "PUBLISH" -> <<Packet("PUBACK", packet.id)>>
                       [] packet.type = "SUBSCRIBE" -> <<Packet("SUBACK", packet.id)>>
                       [] OTHER -> <<>>
       IN /\ toClient' = IF link = "up" THEN toClient \o answer ELSE toClient
          /\ got' = got \cup ({packet.id} \cap Samples)
          /\ retained' = IF packet.id.kind = "online" THEN "online" ELSE retained
          /\ subscribed' = (subscribed \/ packet.type = "SUBSCRIBE")
          /\ command' = /\ command
                        /\ packet.type # "IMAGE"
                        /\ packet.id.kind # "capture_failed"
    /\ UNCHANGED <<client, link, session, commands, counts>>

\* The server asks for a picture.
SendsCommand ==
    /\ subscribed
    /\ ~command
    /\ link = "up"
    /\ commands < MaxCommands
    /\ commands' = commands + 1
    /\ command' = TRUE
    /\ toClient' = Append(toClient, Packet("CAPTURE", Capture(commands + 1)))
    /\ UNCHANGED <<client, link, toBroker, session, subscribed, retained, got, counts>>

\* The broker notices that the client is gone and publishes its will.
BrokerNotices ==
    /\ session
    /\ link # "up"
    /\ session' = FALSE
    /\ subscribed' = FALSE
    /\ command' = FALSE
    /\ retained' = "offline"
    /\ toBroker' = <<>>
    /\ UNCHANGED <<client, link, toClient, got, commands, counts>>

Next ==
    \/ Task
    \/ PublishSample
    \/ TimePasses
    \/ LinkFails
    \/ BrokerReceives
    \/ SendsCommand
    \/ BrokerNotices

\* The task runs; a connection attempt that can succeed is not refused for
\* ever; a dead connection is noticed, at the latest by the keepalive; time
\* and the broker go on.
Fairness ==
    /\ WF_vars(Round)
    /\ SF_vars(Reconnects)
    /\ SF_vars(NoticesDead)
    /\ WF_vars(TimePasses)
    /\ WF_vars(BrokerReceives)

Spec == Init /\ [][Next]_vars /\ Fairness

---------------------------------------------------------------------------
\* Properties.

Promise == INSTANCE MqttPromise
    WITH Samples <- Samples, handed <- {Sample(n) : n \in 1..next}

\* Every sample handed to MQTT reaches the broker or expires, whatever
\* connections fail on the way, and none is invented
\* (mqtt_cam.c:103-117, mqtt_client.c:1574-1885, 1917-2135, 2510-2635).
KeepsPromise == Promise!PromiseSpec

\* A sample is out of the outbox only when the broker has it or it is too
\* old (mqtt_client.c:1700, 1883, 2024-2047).
NothingDropped ==
    \A n \in 1..next :
        \/ Sample(n) \in got \cup expired
        \/ \E i \in DOMAIN outbox : outbox[i].id = Sample(n)

\* When the network has stopped failing, the device can be commanded, its
\* retained status says so, and every command has had its answer - a picture
\* or capture_failed - or was lost with its connection
\* (mqtt_cam.c:43-67, 75-92, 137-143).
Recovers == <>[](subscribed /\ retained = "online" /\ ~command)

=============================================================================
