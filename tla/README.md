# Verification of the ESP32-CAM firmware

TLA+ models of the firmware under `src/`: an ESP32-S3 camera that gets its WiFi
credentials from a phone over BLE, talks MQTT to a server and listens to a
sensor bus on a UART. TLC checks the models on small instances, TLAPS proves
some of their properties for every instance.

1. [Inventory](#1-inventory) 2. [Modules](#2-modules) 3. [Runs](#3-runs)
4. [Bounds](#4-bounds) 5. [Fairness](#5-fairness) 6. [Proofs](#6-proofs)
7. [Findings](#7-findings) 8. [What is not modelled](#8-what-is-not-modelled)
9. [Plan](#9-plan)

## 1. Inventory

The firmware is a handful of FreeRTOS tasks, on two cores, that share static
variables and call each other:

| task | started by | runs |
| --- | --- | --- |
| `app_main` | the boot | `main.c`: BLE on, connect with the saved credentials or wait for the app, then camera, MQTT, UART |
| NimBLE host | `ble_prov_start` | every GAP and GATT callback of `ble_prov.c` |
| `connect_wifi_task` | each PASS write that follows an SSID | `wifi_manager_connect`, save, report |
| `scan_and_notify_task` | each SCAN write | `wifi_manager_scan`, one notification per network |
| default event loop | `esp_event_loop_create_default` | `wifi_event_handler` |
| `mqtt_task` | `mqtt_cam_start` | `esp_mqtt_task` and, inside it, `mqtt_event_handler` |
| `uart_rx_task` | `protocol_uart_init` | the frame receiver, `process_packet`, the publish of each sample |

| component | state | operations | interacts with | correct when |
| --- | --- | --- | --- | --- |
| WiFi manager (`wifi_manager.c`) | `s_evt_group`, `s_retry_num`, two handler instances | connect, scan, save, load | called by `app_main` and the tasks; its handler runs on the event loop | no misuse of the event group, no race for the statics, a bounded number of retries, every call returns, and with the truth |
| BLE link (`ble_prov.c`, GAP) | `s_conn_handle`, advertising | sync, connect, disconnect, failed connect, reset | the NimBLE host calls it | the device can be found whenever nobody is connected |
| provisioning (`main.c`, GATT, NVS) | `s_pending_ssid`, `s_status_buf`, `s_prov_done`, a `cred_t` per task, NVS `wifi_cred` | the boot sequence, SSID, PASS, STATUS, connect task | everything | the app hears the result; what is confirmed is saved; only what worked is saved; a success starts the services |
| WiFi list (`main.c`, WIFI_LIST) | `s_wifi_list_buf`, the task's records | SCAN write, scan task | the WiFi manager, the link | of its own request a phone hears the whole list once, in order, and its END |
| UART protocol (`protocol.c`) | the frame buffer, 16 registers, the driver's ring buffer | receive, check, publish | `mqtt_cam_publish_uart` | it acts on exactly the valid frames, and on each of them |
| MQTT camera (`mqtt_cam.c`) | `s_client`, four topics | start, event handler, capture, publish a sample | the MQTT client, the camera | commands are answered, the retained status is right |
| MQTT client (`components/mqtt`) | the connection's state, the outbox, the retransmit timer | publish, subscribe, the task's loop | called from any task; its events run `mqtt_cam.c` | a QoS 1 message is delivered or expires; a lost connection is made again |
| MQTT client's life (`mqtt_client.c`) | `run`, `state`, the event group `status_bits`, the task | start, stop, disconnect, reconnect, destroy, the states of the task | called from any task and from the event handler | one task per client, none after a stop or a destroy; every call returns; a request acts on the connection it was made for |
| MQTT 5 (`mqtt5_client.c`, `mqtt5_msg.c`) | properties given and received, the limits of the server, topic aliases, the count in flight | set a property, publish, subscribe, ..., the answers, QoS 2 | the MQTT client | what one side means the other side reads; QoS 2 is published once; the count is right |
| MQTT receiver (`mqtt_client.c`, `mqtt_msg.c`) | `in_buffer`, `in_buffer_read_len`, `message_length` | `mqtt_message_receive`, `mqtt_process_receive`, `deliver_publish` | the transport's reads; the outbox; the events | what the broker sent is heard and answered, however its bytes come in |

What is hard here:

* the statics of `wifi_manager.c` are shared, without a lock, by every caller
  and by the event loop task, and nothing keeps two calls apart;
* events are queued: one that was posted about the old network is handled by
  the handlers of the new call;
* the power may go between any two steps, also between the two halves of a
  saved credential;
* the phone may leave, come back or be replaced between any two steps of the
  exchange, and only a callback restarts advertising;
* `app_main` sleeps on one semaphore for ever, so every path of success must
  give it;
* a frame has no length and no escape: the receiver finds its way back from
  noise by the values of the delimiters alone;
* a message of the broker comes in any number of pieces over any number of
  calls, which share only a buffer and its length;
* `run`, `state` and the bits of the MQTT client are read and written with and
  without its lock, and a stop waits for a bit the task sets last;
* an MQTT 5 message has blocks of properties whose lengths have lengths of their
  own; aliases, limits and counters belong to a connection, the outbox and QoS 2
  to a session that outlives it;
* the MQTT connection may die with anything in flight, and be found dead by
  whichever task writes next, inside or outside the client's own task.

`PROJECT.json` lists the hazards line by line with the properties that cover
them; a hazard without a property says why.

## 2. Modules

| module | models | built on |
| --- | --- | --- |
| `WifiStation` | the ESP-IDF station driver and event queue as `wifi_manager.c` uses them (external) | |
| `WifiManager` | `wifi_manager_connect` and `wifi_event_handler` | `WifiStation` |
| `WifiManagerCalm` | which calls found a quiet station (a history variable) | `WifiManager` |
| `BleLink` | the GAP half of `ble_prov.c` | |
| `Provisioning` | `main.c`, the SSID, PASS and STATUS characteristics, NVS | `WifiManager`, `BleLink` |
| `ProvisioningPromise` | abstract: what the app and the owner are promised | |
| `ProvisioningProofs` | theorems about `WifiManager`, `Provisioning` and `BleLink` | `Provisioning`, `WifiManagerCalm` |
| `WifiScan` | SCAN, `scan_and_notify_task`, `wifi_manager_scan`, the notifications | `BleLink` |
| `WifiScanProofs` | theorems about `WifiScan` | `WifiScan` |
| `UartProtocol` | `uart_rx_task`, `process_packet`, the ring buffer, the line | |
| `UartProofs` | theorems about `UartProtocol` | `UartProtocol` |
| `FrameLink` | abstract: a FIFO link for commands | |
| `MqttOutbox` | `mqtt_outbox.c` as operators on a sequence | |
| `MqttClient` | `esp_mqtt_task`, the client's API as the firmware uses it, `mqtt_cam.c`, the broker and the network | `MqttOutbox` |
| `MqttPromise` | abstract: delivered or expired, never lost in silence | |
| `MqttClientProofs` | theorems about `MqttClient`, lemmas about `MqttOutbox` | `MqttClient`, an instance of `MqttMsgProofs` |
| `MqttMsg` | `mqtt_msg.c` as operators on sequences of bytes | |
| `MqttMsgProofs` | theorems about `MqttMsg`: what is written is read; lemmas about sequences, for the receiver and MQTT 5 | `MqttMsg` |
| `MqttReceive` | `mqtt_message_receive`, `mqtt_process_receive`, `deliver_publish`, the receiving half of `esp_mqtt_connect` | `MqttMsg` |
| `MqttReceiveProofs` | theorems about `MqttReceive` | `MqttReceive`, `MqttMsgProofs` |
| `MqttLifecycle` | `esp_mqtt_task`'s states, start, stop, disconnect, reconnect, destroy, calls from the event handler | |
| `MqttLifecycleProofs` | theorems about `MqttLifecycle` | `MqttLifecycle` |
| `Mqtt5Msg` | `mqtt5_msg.c` as operators on sequences of bytes | `MqttMsg` |
| `Mqtt5Broker` | how a broker reads the client's bytes and what it sends (external) | `Mqtt5Msg` |
| `Mqtt5Client` | `mqtt5_client.c`, and `mqtt_client.c` around it with QoS 0, 1 and 2 | `Mqtt5Broker` |
| `Mqtt5Proofs` | theorems about `Mqtt5Client` | `Mqtt5Client`, `MqttMsgProofs` |
| `MC*` | the instances TLC checks | |

**WifiManager.** `pc[c]` is the line of `wifi_manager_connect` caller `c` is
at, one action per line that touches a static, the driver or the event group;
`loop` is where the event loop task is inside `wifi_event_handler`, with the
load and the store of `s_retry_num++` apart. An event group is a heap block in
`Groups`, so a freed one can be given out again. The event loop holds its mutex
over a dispatch, hence `loop.at = "idle"` in `Register` and `Unregister`. A
NULL group fails an assertion of FreeRTOS and a freed one is a use after free:
both end in `fault`, after which the chip restarts. `Serial` says what the
callers respect; `main.c` does not enforce it (see the findings). `Quiet`, in
`WifiManagerCalm`, is a station without a join or an event under way: the history
variable `calm` remembers which calls began on one and have lost no link since, and
`CalmOkMeansJoined` is `OkMeansJoined` for those.

**Provisioning.** `stage` is where `app_main` is, `task[w]` where each
`connect_wifi_task` is; while either is in `"call"` the steps of the call are
WifiManager's own. `Save` is one `nvs_set_str`; `Reboot` keeps `nvs` alone.
`ProvisioningPromise` is the device as the app and the owner see it: a request
is answered through STATUS, what is confirmed is in flash, only what worked gets
there, services wait for a success. `KeepsPromise` is the refinement.
`ManagerSafety`, as a property of `Provisioning`, says that `main.c` uses
`wifi_manager.c` in the way `WifiManager` lets its callers, so what is checked
and proved there holds here.

**WifiScan.** A network is its place in the list, `0` is END. A task outlives the
connection it was started on and sends to whoever is connected, so tasks of several
requests run side by side. `mine` is the task of the connected phone's last request,
`own` what the phone heard from that task since, `heard` what it heard from any,
`lost` that a notification of its own found no buffer, `alone` that no other task
ran when it asked. With `Polite` a phone that has asked waits for an END before it
asks again; what phones did before it does not keep it from asking.

**UartProtocol.** The line carries bytes; `ByteArrives` is the driver's ring
buffer, which drops what does not fit; the actions of `RxTask` are the branches
of the loop in `uart_rx_task`. `Publishes` is apart because the publish may
block while bytes go on arriving. `CalculateChecksum` is the sum modulo 256 of
the code. `EndsValidFrame` states README section 3 of the repository over the
last bytes read, with no knowledge of the receiver.

**MqttClient.** `at` is where `esp_mqtt_task` is in a round of its loop. The
task holds the client's lock for a round, so `uart_rx_task` publishes only at
`"idle"`; the network and the broker act at any time. An item of the outbox has
its id, its type, its state and, for its tick, whether it is older than the
retransmit timeout. Commands are numbered, and `captured` is the last one received:
with a retransmission under way two answers to commands can be in the outbox, and
each needs an id of its own. A dead connection swallows what is written to it until
somebody notices: a failing write or read, the keepalive or the poll.

**MqttMsg, MqttReceive.** A message is bytes here, since the subject is how its
end is found. `MqttMsg` has the functions of `mqtt_msg.c` under their names,
`buffer[i]` of the code being `buffer[i + 1]`. `MqttReceive` is below
`MqttClient`: where that takes a message from the broker in one step, this one
reads it. `in` is the part of `in_buffer` that is in use, `at` where
`mqtt_message_receive` is between two reads (`"idle"`: it has returned and
`esp_mqtt_task` will call it again). A read returns any part of what was asked
for, or nothing. What the client heard is compared with what the broker meant,
not with its bytes, so that `fini_message` and `mqtt_get_*` are checked against
each other. `"garbled"` is a connection on which the client has lost the
boundaries (`DataTimesOut`, section 7): nothing is promised of it.

**MqttLifecycle.** `pc[t]` is where incarnation `t` of `esp_mqtt_task` is: the
three statements before its loop, the test of `run`, a round with the lock, the
poll without it, the end. `Locked` are the places where the event handler may
run, and from there it may call `disconnect`, `reconnect` and `stop` itself.
`call[c]` is where another task is in its call: `stop` and `destroy` test, take
the lock and wait for STOPPED_BIT in steps, `reconnect` tests and sets in two.
Whether a connection is made, kept or lost is a free choice. `wanted` says that a reconnect has set its bit
since the last attempt began. `Careful` is the
discipline the owner needs (section 7): it waits for MQTT_EVENT_BEFORE_CONNECT
after a start before it starts, stops or destroys again, and does not start a client
that is about to connect (`ReadyToStart`): the code accepts a start whenever the state
is INIT, which it is during a reconnection too.

**Mqtt5Msg, Mqtt5Broker, Mqtt5Client.** The builders and parsers of
`mqtt5_msg.c` work on bytes; `Mqtt5Broker` reads and writes by the standard with
the same helpers for numbers and strings only. Each message travels with the
record of what its sender meant; `misread` and `mistold` are set when the
receiver makes something else of it. So both sides, and every property, are
compared with the intention and not with bytes. `state` is the connection;
`toBroker` and `toClient` are what is under way, and what was written before a
connection failed may still arrive. The calls come from the event handler, under
the lock, as in `examples/mqtt5`: a set of properties and the call it is for are
one step. A write that fails is `LinkFails` next to the call. The broker has the
same limits on every connection, gives an alias a topic before it uses it alone,
and the application does the same on each connection, with QoS 0 and without
storing. `Expire` deletes any item of the outbox, for its age, in any round of the
task; `expired` remembers which. CONNECT fits the buffer, and so do messages that are enqueued. Values
in a property are numbers, flags and strings of bytes; a NULL is the empty
string, which the code treats alike except where section 7 says so.

## 3. Runs

| run | question | answer |
| --- | --- | --- |
| `connect_serial` | With one call at a time, can stale events, lost links, a full event queue or a restart make caller and handler misuse the event group, race for the statics, leave something behind or overspend the retries? Does every call return, and does ESP_OK mean that the requested network gave an address during the call? | no; yes; yes, from a quiet station |
| `connect_stale` | ... and from a station whose old link has a GOT_IP in the queue? | no (finding) |
| `provision` | With one attempt at a time, does the device keep its promise through any interleaving, BLE loss, host reset and restart? Does the app hear a result, does a success start the services? | yes |
| `provision_overlap` | May a password be written at any time? | no (finding) |
| `scan` | Whatever phones come and go and however often they ask, does a phone hear from the task it started one list, once, in order, to its END, and nothing else if it asked alone? | yes, what is not lost |
| `scan_overlap` | If every phone waits for an END before it asks again, is an END the end of what it hears? | no (finding) |
| `uart_noise` | Do lost, foreign and spurious bytes, overlong frames or an overrun make the receiver act on anything but a valid frame, or miss one? Is the first whole frame after a disturbance acted on? | no; yes |
| `uart_data` | Over a perfect line, is the receiver a FIFO link for every command of the format? | no (finding) |
| `mqtt_client` | Does every sample reach the broker or expire, whatever connections fail? Is the device subscribed and online again after the last failure, and every command answered? | yes |
| `mqtt_receive` | However its bytes come in, is what the client hears and answers what the broker sent, within the buffer, and is the connection given up only for a failure or a message there is no room for? | yes, but for the cases of section 7 |
| `mqtt_lifecycle` | Can the calls of other tasks and of the event handler, in any order, give a client two tasks, free it under one, leave a task after a stop, end a connection nobody asked to end, make one nobody asked for, hang a call or lose a reconnection? | no, for a careful owner |
| `mqtt5` | With properties, aliases, large messages, reason codes and all three QoS, over connections that are refused, fail or are ended: does each side read what the other means, is QoS 2 published once, is the count in flight right, does what was accepted arrive or grow too old? | yes, but for the cases of section 7 |

Each property of a passing run is also run against a seeded fault of the code
(the definitions marked `Seeded fault`), which TLC finds: a dropped reset, a
missing END, one retry too many. They show that the property depends on the
code and not on the shape of the model.

Each invariant, action property and liveness property is stated at the end of
its module with the lines it is about.

## 4. Bounds

| bound | runs | why it is enough |
| --- | --- | --- |
| two callers, two networks, one heap block, `MaxRetry = 1` | `connect_serial` | a stale event needs an old and a new network; with one block the second call is given the block of the first; the budget is passed, met and missed. The theorems lift all of these bounds |
| `QueueLen` 1 or 2 | `connect_*`, `provision*` | the queue can be full, and whoever posts an event then waits for room; an event that is dispatched while no handler is registered has no effect. Two places hold an event of the old link and one of the new |
| one `connect_wifi_task`, one phone, one network, one password | `provision*` | with the attempt at boot there are two callers; a second phone differs from the first come back only by its name; a second password differs from the first only in flash, where `nvs` starts with any credential or none. Two networks are the subject of `connect_serial`; and `TypeOK`, `Reachable`, `ManagerSafety` and `KeepsPromise` are theorems, for any number of each |
| `MaxRetry = 0` | `provision*` | the retries are the subject of `connect_serial`; here a failed join reports at once |
| `AdvMayFail`, `NvsMayFail` FALSE | `provision*` | see section 7: with either TRUE a property fails, which is a consequence of unchecked results and not of the interleavings these runs are about |
| `WIFI_SCAN_MAX_AP = 3` (20), two phones, two scan tasks | `scan*` | none, one, some and all; a phone is replaced, and the next one asks, while a list is being sent |
| ring buffer of 1 byte, 2 frames, 2 bursts of noise | `uart_noise` | one byte is the smallest buffer that overruns; a burst is a delimiter, a foreign frame, an overlong one, or the loss of a byte, at every place of a frame |
| ring buffer of 21 bytes (three frames), 3 frames | `uart_data` | no byte is lost, two frames arrive during a publish |
| 1 sample, 1 command, 1 failure, 1 unread packet | `mqtt_client` | the failure strikes at every step; `online`, the subscription and the sample make the outbox three items long, so that one whose answer never comes may stand before another |
| a buffer of 10 bytes, 2 messages a connection, 1 failure, 11 messages | `mqtt_receive` | the messages are shorter than the buffer, as long, and longer, by a length of one byte and of two; the second begins where the first leaves the buffer; the failure comes at every byte. Three messages (234,454 states) show the same |
| 3 starts, one other task | `mqtt_lifecycle` | a stale bit needs a stop before and a start after; three incarnations are one more than that; the theorems lift both |
| 2 calls, 2 messages of the broker, 1 loss, 2 messages under way | `mqtt5` | an alias needs a message that gives it and one that uses it; two calls are a message in the outbox beside another, with a large one among them; the loss (a failure, a refusal, or an end by the broker) comes at every step, also between PUBLISH, PUBREC, PUBREL and PUBCOMP |
| an output buffer of 200 bytes, an input buffer of 60 | `mqtt5` | the properties of one publication take more than 127 bytes and so two for their length; a publication of 420 goes out in three parts, one message of the broker comes in two |

Deadlock is checked except on the UART, in `mqtt_receive` and `mqtt5`, where the
master or the broker may fall silent, and in `mqtt_lifecycle`, where nobody has
to call.

## 5. Fairness

* **WiFi.** `Loop` is weakly fair: the event loop task has a priority and its
  own core time. A call is strongly fair in `Body(c)` because it waits for the
  event loop's mutex, which is taken and given back any number of times; a
  FreeRTOS mutex serves its waiters in the order of their priorities, so a
  waiter is not passed over for ever. Nothing makes an access point answer: the
  timeout of 30 s ends a call that hears nothing.
* **Provisioning.** The tasks of the device run, the host comes into sync.
  Phones, links, power and access points do as they like.
* **Scan.** The driver answers and the task runs.
* **UART.** The line carries what was sent, the task runs, a publish returns
  (every wait in it is bounded by `network_timeout_ms`).
* **MQTT.** The rounds of the task go on (`Round`), time passes, the broker
  reads. `Reconnects` is strongly fair since `StillWaits` competes with it only
  until the timeout has passed; `NoticesDead` since the keepalive finds a dead
  connection within 1.5 keepalive periods although the model lets any number of
  rounds go by first. Failures are bounded by `MaxFailures`; a network that
  fails for ever is promised nothing.
* **MQTT life cycle.** Every task of the chip runs. A call is strongly fair
  since it waits for the lock, a FreeRTOS mutex that is handed on by priority;
  `RoundReconnects` is since `wait_timeout_ms` pass however often `RoundWaits`
  comes first. Nothing makes a connection succeed or fail.
* **MQTT 5.** The task connects, takes what has come, notices an end and sends
  what is queued or unanswered; the broker reads. Each is stated of the one
  variable the action moves on (`TakesConnection`, ...), with weak fairness where
  only a loss disables it, which is bounded, and with strong fairness for the two
  resending steps, which need a connection and room that come and go.
* **MQTT receiver.** `Receive` is weakly fair: the rounds of the task go on and
  a read ends, with bytes, without, or with an error. `Connect` is: the task
  connects again after `reconnect_timeout_ms`.

## 6. Proofs

The first half of `ProvisioningProofs`, for any number of callers, networks, heap
blocks, retries and any queue length, from `StationAssumption` and
`ManagerAssumption` alone:

| theorem | states |
| --- | --- |
| `TypeCorrect` | `ManagerSafety => []ManagerTypeOK`, overlapping calls included |
| `OneCallAtATime` | with `Serial`, all of `NoFault`, `NoDataRace` and `NothingLeftBehind` |
| `StaticsNotRaced` | with `Serial`, `ManagerSafety => []NoDataRace` |
| `CallsCleanUp` | with `Serial`, `ManagerSafety => []NothingLeftBehind` |
| `OkIsOurs` | with `Serial`, `CalmSafety => []CalmOkMeansJoined` |
| `RetryBounded` | `ManagerSafety => []RetryBound`, overlapping calls included |

*OneCallAtATime.* `NoFault` is not inductive: it does not say whose group
`s_evt_group` is. The strengthening `Discipline` is about ownership: at most one
call is in progress (`AtMostOneCall`); it owns the statics, that is, from the
line after the create to the delete the only live group is the one in
`s_evt_group`, the handlers registered are its own, and it waits on that group
(`Owns`); between calls nobody owns anything (`NobodyOwns`); a dispatch runs
only handlers that are registered (`LoopOwns`). Each action of `ManagerNext`
is a step of `DisciplineStep`, and under it one per conjunct the action can
disturb. `LoopOwns` is what ties the event loop to the call: a handler run in
progress means a registered handler, hence a call between `Register` and
`Unregister`, hence a live group.

*OkIsOurs.* `CalmInv` adds to `Discipline` what a calm call knows at each line: up to
the disconnect nothing is under way and its event group has no bits; from then on the
driver's configuration is its own network, an access point that is being joined is
that one, and a GOT_IP anywhere (in the queue, in the hands of the event loop, in the
bits) means that it was joined (`GotIpComes`). The event queue is a sequence of any
length, so `QueueTail` and `QueueAppend` say which events a step can bring about.

*RetryBounded.* The test of line 25 is several steps before the store of line
27, so `RetryInv` adds that the counter about to be loaded, and the value loaded
and not yet stored, are below the budget.

Its second half, for any number of phones, credentials and tasks, from
`ProvisioningAssumption` and the assumptions of `WifiManager`:

| theorem | states |
| --- | --- |
| `ProvisioningTypes` | `Spec => []TypeOK`, overlapping attempts included |
| `UsesTheManager` | `Spec => ManagerSafety`, overlapping attempts included |
| `FirmwareIsSafe` | with `Serial`, `NoFault`, `NoDataRace` and `NothingLeftBehind` in the firmware |
| `PromiseKept` | with `Serial` and without `NvsMayFail`, `Spec => KeepsPromise` |
| `AlwaysReachable` | without `AdvMayFail`, `Spec => []Reachable` |

*UsesTheManager.* That a step of `main.c` is one of `ManagerNext` needs to know
where each caller is in `wifi_manager_connect`. `UseInv` says so: where a task is
tells where its call is (`Places`), a task has a whole credential (`CredsGiven`),
nobody finds the device before `ble_prov_start` (`NotYetFound`), which is why no
password can overtake the attempt at boot, and with `Serial` there is one attempt
at a time (`OneAttempt`). `ManagerStep` is the simulation; `FirmwareIsSafe` then is
`OneCallAtATime` carried over.

*PromiseKept.* The refinement maps the request to the credential of the one task
in progress. `Settled` adds to `UseInv` what each place of a task says of STATUS
and of flash; `PromiseStep` has one case per action, most of which
are stutters.

The three conditions are real: with overlapping attempts `NoFault` is violated (run
`provision_overlap`); when NVS cannot be written, `main.c` still reports CONNECTED;
and an advertisement that the stack refuses is not tried again.

`WifiScanProofs`, for any number of phones, tasks and networks:

| theorem | states |
| --- | --- |
| `ScanTypes` | `Spec => []ScanTypeOK`, however many lists are under way |
| `HearsOwnList` | `Spec => []OwnList`, whether phones are polite or not |

*HearsOwnList.* `ScanInv` ties what the phone has heard from its own task to where that
task is in its loop (`SoFar`), of which there is one at most (`OneRequest`), so that tasks of other
requests may send in between without an effect on it; and while the phone asked `alone`, no other task runs (`Undisturbed`).

`UartProofs`, for any commands, noise and size of the ring buffer, from
`UartAssumption`:

| theorem | states |
| --- | --- |
| `UartTypes` | `Spec => []UartTypeOK`: the frame buffer never overflows |
| `FramesDecide` | `Spec => ActsOnValidFrames` |
| `DeliversInOrder` | with `PerfectLine`, `Spec => Link!LinkSafety`: the receiver implements `FrameLink` |

*FramesDecide.* `EndsValidFrame` looks at the last seven bytes read, the receiver at
its own buffer and flag. `UartInv` relates them: in a frame, what is in the buffer are
the last bytes read, with no delimiter after the first (`FrameOpen`); outside one,
every `$` among the last bytes was followed by a `\n` (`FrameClosed`), so that no
valid frame can end unseen, not even behind an overlong one. The checksum is a
recursive function; a frame has three or four bytes to sum, for which it is unfolded.

*DeliversInOrder.* `LinkInv` says that what is in the frame buffer, the ring buffer and
on the line, put together, are the frames of the commands sent and not yet published,
one after the other; a byte only moves from one to the next. While `in_frame` is false
the frame buffer is empty, so a `$` always begins the oldest of those frames and the
`\n` that ends it is the last of its bytes: `Publishes` takes exactly that command,
which is `Deliver`. `PerfectLine` is needed: with a delimiter among the bytes of a frame
`uart_data` violates the abstract specification, and with noise a command is lost.
TLC evaluates `CommandsArePlain`, that hypothesis of `MCUart`'s commands. The fairness
half of `LinkSpec` stays with TLC.

`MqttClientProofs`, for any number of samples, commands, failures and packets under
way, from `MqttAssumption` and `IdsAssumption`:

| theorem | states |
| --- | --- |
| `MqttTypes` | `Spec => []MqttTypeOK` |
| `NothingIsDropped` | `Spec => []NothingDropped` |
| `PromiseIsSafe` | `Spec => Promise!PromiseSafety`, the safety half of `KeepsPromise` |

*The inductive invariant.* `MqttInv` says whose message each id is and where it can be.
An item leaves the outbox by an acknowledgment, whose id must be one that the broker
has (`Wire`), or by its age (`Delivery`); a message about to be enqueued has an id that
is not in the outbox (`Outbox`), which needs that connections and commands are counted
and commands come in order (`Counters`, `InOrder`). The lemmas about the operators of
`MqttOutbox` go by `Induct` over the recursive function in `outbox_delete_expired`.

`MqttMsgProofs` and `MqttReceiveProofs`, from `ReceiveAssumption`:

| theorem | states |
| --- | --- |
| `LengthRoundTrip` | for every length up to 268,435,455 that `fini_message` writes, `mqtt_get_total_length` finds the end of the header and reads that length |
| `PublishRoundTrip` | `mqtt_get_type`, `_qos`, `_total_length`, `_id`, `_publish_topic` and `_publish_data` read what `mqtt_msg_publish` was given, for every message MQTT can carry |
| `ReceiveTypeCorrect` | `Spec => []ReceiveTypeOK`: for every buffer of at least nine bytes, all messages and every way their bytes come in, what is read fits the buffer, and the parts of a large PUBLISH add up to it |
| `HearsWhatIsSent` | with `AllOrdinary`, `Spec => []HeardIsSent` |
| `SoundConnectionIsKept` | with `AllOrdinary`, `Spec => KeepsSoundConnection` |
| `AnswersWhatIsHeard` | `Spec => []RepliesMatch` |

*LengthRoundTrip.* The digits to the base 128 add up to the number
(`DigitsAddUp`), those beyond the last one written are zero (`NoMoreDigits`), and
the first byte below 128 is the last of the header (`HeaderDecides`).

*ReceiveTypeCorrect.* `ReceiveTypeOK` is not inductive: a byte of the remaining
length is read without asking whether there is room for it. `RInv` adds that the
header so far is shorter than six bytes; `HeaderLenType` bounds the header by
five, which with the at most three bytes of `ReadTopicLen` makes nine the
smallest buffer for which the code is right. `ReadStep` and `AbortStep` are what
the actions have in common.

*PublishRoundTrip.* `HasBody` says where in the bytes the parts of a PUBLISH are, and
`ReadsPublish` what the functions make of the first so many bytes of it: that is more
than the theorem, because the receiver calls them on a buffer with the beginning of a
message.

*HearsWhatIsSent, SoundConnectionIsKept.* `HeardIsSent` says nothing of the bytes, so it
is not inductive. `SentInv` says where in them the client is. The bytes to come after
`k` messages are `f[k]` (`Stream`). Between two messages, the bytes in the buffer and
those unread are `f[n]`, where `n` messages were heard; in a message they begin with a
part of it, never more, and `at` fits that part (`Expect`); between the events of a
large PUBLISH the data delivered and the data unread are its data (`Delivering`); and
before CONNACK is processed it comes before everything else. `ReadingStep` is the core:
no step of `mqtt_message_receive`, no timeout and no resumption leaves the message.
That rests on `Framed`: of the fixed header only the last byte is below 128, and from
there on every part of the message tells its whole length. `SoundStep` then goes
through the reasons for `esp_mqtt_abort_connection`, each of which needs a message that
is too long or has an invalid first byte.

`AllOrdinary` is what the two assume of the messages: that they are messages of MQTT
3.1.1 with a topic, whose acknowledgments have a length of one byte, and that none is
`Misleading`. The last excludes the identifiers of section 7, for which both properties
are false. `MCMqttReceive` assumes it too, and TLC evaluates it there.

*AnswersWhatIsHeard* needs no such assumption: whatever the client takes for a message,
it answers that. `ReplyInv` adds that the message whose data are being delivered is a
PUBLISH. `RepliesMatch` is about `FlattenSeq`, a recursive function: `FlattenOneMore`
says what one more sequence adds to it, by `Induct`.

`Induct`, in `MqttMsgProofs`, is induction over the natural numbers for a given set
instead of an operator, which the provers can use: it is proved from the pigeonhole
principle of the library.

`MqttLifecycleProofs`, from `LifecycleAssumption` and, but for the last,
`Careful`, for any other tasks, any number of starts and any calls from the event
handler:

| theorem | states |
| --- | --- |
| `LifecycleTypes` | `Spec => []LifecycleTypeOK` |
| `NeverTwoTasks` | `Spec => []OneTask` |
| `NeverUsedAfterFree` | `Spec => []NoUseAfterFree` |
| `StopStops` | `Spec => []StopMeansStopped` |
| `DisconnectsAsAsked` | `Spec => DisconnectOnlyWhenAsked`, however the owner calls |

*The inductive invariant.* None of the four is inductive: `StopMeansStopped`
rests on STOPPED_BIT, which is read long after it was set. `LInv` says whose bit
it is. Only the last task created can be alive (`LastOnly`), and while it is past
its first steps and `run` is set nobody has taken the client down (`Runs`,
`RunsDisconnected`). Until BEFORE_CONNECT is heard the owner makes no call
(`StartIsSilent`), and a task that has not dispatched it is in its first steps or
its first round (`Unheard`); so a stop or a destroy that is under way (`Stopping`)
meets a task past `ClearsStopped`, and a STOPPED_BIT that is set while a task is
past it was set by that task (`BitIsFresh`). Then the bit means that the task is
gone (`Over`, `FreedAtTheEnd`). `DisconnectsAsAsked` needs only that DISCONNECT_BIT
implies `asked` outside the first round (`Asked`).

`Mqtt5Proofs`, for every configuration, every message, all publications,
subscriptions and answers, and any number of calls, connections and losses, from
`Mqtt5MsgAssumption`, `Mqtt5ClientAssumption` and `Mqtt5DataAssumption`:

| theorem | states |
| --- | --- |
| `PublishedOnce` | with `StoredFits`, `Spec => []OnceOnly`: a publication of QoS 2 is published once |
| `CountIsRight` | with `StoredFits`, `Spec => []CountsInFlight`: what holds back the application at `receive_maximum` is what is under way |
| `Mqtt5Types` | with `StoredFits` and `PropertiesFit`, `Spec => []Mqtt5TypeOK`: the outbox, the counter, the offset in a long message and the aliases keep their types |

The assumptions give the configuration and the messages of the broker the types of
the code, and its data a length that four bytes can hold. `StoredFits` says that a
message the application only stores fits the output buffer. The condition is real: a
larger one leaves `fragmented_msg_data_offset` behind for the next publish (section
7). `PropertiesFit` says that of a message of the broker all but the data fits the input
buffer. That one is real as well: of a longer message the client parses what it has,
and the properties that are cut off would be read from beyond it. `MCMqtt5` assumes
both, and TLC evaluates them there.

*From bytes to messages.* Both directions of the model are bytes, in which neither
property can be seen. The first part of the module is the codec: whatever the client
builds, with any properties and in one part or several, the broker takes apart into
messages of the same type, quality of service and identifier (`Carries`,
`ClientMessage5`), and the client reads the type and the identifier of what the broker
sends (`FromBroker`). `StreamOf` carries that over to the bytes under way: they are
those of the messages meant, one after the other, the last of which may be cut short.
The loop over the properties of CONNACK is a recursive function; what the client takes
from it has the types of its variables, which is shown round by round with `Induct`.

*The inductive invariant.* `IInv` has four parts. `Wires` ties the bytes to what is
meant by them. `GivenIds` says that every identifier anywhere was given out, once.
`Twice` is what makes a publication of QoS 2 one publication: its PUBREL is sent after
all its copies and only once the outbox has it as ACKNOWLEDGED (`InOrder`, `Released`),
and a copy that may still be published, under way or in the outbox, is of an identifier
that the broker holds if it ever had it (`HeldOnTheWay`, `HeldInOutbox`). `Count` says
that an identifier that is counted is under way at most once, as a message or as an
answer (`UnderWay`), and that the counter is the number of those (`Right`), at most it
when something was sent again. An item that is deleted for its age takes none of this
with it: each part speaks of the items that are there (`RemovedIs`), and an identifier
stays counted until it is answered, as in the code. There is a lemma for each action, and one for
each way in which the outbox and the two streams grow and shrink.

*The types.* `Mqtt5TypeOK` needs more than `IInv`, for two reasons. That only a PUBLISH
of QoS 2 is ever acknowledged in the outbox, by whatever PUBREC arrives, is a fact about
both streams: a PUBREC on its way is about an identifier of QoS 2, because it answers a
PUBLISH that was meant as such (`Kinds`, kept by every action with `IInv`, in `Kept5`).
And the aliases of the broker are numbers up to the maximum that was agreed on (`Alias5`)
although the parser computes the place of each property from the bytes it finds: the
offsets it can reach from the start of a block are those where a property that was sent
starts or ends, or none (`Marks`, `Covers`, `Spans`), so that what it takes for an
alias lies within the block. `Ranges5` bounds the counter by the identifiers given out,
and the offset by the output buffer.

Model-checked only:

* every liveness property (`CallsReturn`, `Answered`, `SuccessStartsServices`,
  `ListEnds`, `Resynchronises`, `Recovers`, `ReconnectsAsAsked`, `HearsEverything`,
  `ArrivesOrExpires`, the liveness half of `KeepsPromise` of MQTT): TLAPS does not
  do liveness under fairness, nor ENABLED;
* `SaysWhatIsMeant` and `HearsWhatIsMeant` of MQTT 5: they need the values of all
  properties read back from their bytes, where `OnceOnly` and `CountsInFlight` need the
  types and the identifiers and `Mqtt5Types` where a property starts and ends only.

## 7. Findings

Each is a run whose property TLC violates:

* `provision_overlap`: a PASS write starts an attempt whatever else is
  connecting, the attempt at boot included. The two calls share `s_evt_group`;
  one deletes the group the other waits on, sets or deletes again, and the chip
  panics. `main.c:158` and the README promise a reconfiguration at any time.
* `connect_stale`: the handler does not ask which network an event is about.
  A GOT_IP of the old link, still in the queue when the handlers are
  registered, makes the call return ESP_OK for a network never joined, which is
  then saved and confirmed. `OkMeansJoined` holds from a quiet station
  (`CalmOkMeansJoined`).
* `uart_data`: a data byte, address or checksum equal to `$` or `\n` makes a
  correct frame disappear. The README's format has no such restriction.
* `scan_overlap`: a phone leaves while its list is made and the next one asks. The
  second task's scan fails because the first is under way, its END comes at once, and
  the networks of the first task follow. The documentation of the flow calls the END
  the end of the list (line 91). With a phone that does not wait (`Polite = FALSE`) two
  writes on one connection do the same. What a phone hears from its own task is right
  all the same (`OwnList`), but nothing in a line tells it which task sent it.

Seen while modelling, with a constant or a property that shows it:

* `AdvMayFail = TRUE` in `Provisioning`: `ble_gap_adv_start` may fail and
  nothing tries again, so `Reachable` fails. `BleLink` has the constant.
* `NvsMayFail = TRUE`: the result of the save is dropped (`main.c:95`) and
  CONNECTED is sent anyway, so `KeepsPromise` fails (`Confirm`).
* A notification without a buffer is lost, so a list may lack networks or its
  END; a read of WIFI_LIST after a list returns the END only
  (`ble_prov.c:453`).
* `s_pending_ssid` survives the connection it came over (`ble_prov.c:188`).
* `mqtt_client.c:1472` resumes a message with the question whether the last byte
  read has its high bit set. For a message cut after three bytes of four that
  byte is the first of an identifier: if both bytes of the identifier are above
  127, the code goes on to read a "remaining length", takes the first byte of
  the next message for one, and gives up the connection when the rest of it is
  no message (with an `Ack` of id 33153 in `MCMqttReceive`,
  `KeepsSoundConnection` fails). A quarter of all identifiers is like that; the
  instance keeps to those with one such byte, for which the properties hold.
* `mqtt_client.c:1343`: a timeout in the middle of the data of a PUBLISH larger
  than the buffer returns ESP_OK; the message is acknowledged though its end was
  never heard, and the rest of it is read as messages (`DataTimesOut`).
* `mqtt_client.c:1529` leaves the two bytes of the topic's length out of the
  header of such a PUBLISH, so that a topic may fit and its identifier not:
  `mqtt_get_id` then reads beyond what was received. The last conjunct of
  `ReceiveAssumption` excludes it.
* `esp_mqtt_client_publish` returns -1 for a write that failed though the
  message stays in the outbox and is sent later (`mqtt_client.c:2567`); a
  sample published while connected overtakes those of an outage
  (`PublishSample` before `ResendQueued`).
* `Careful = FALSE` in `MqttLifecycle`: `OneTask`, `NoUseAfterFree`,
  `StopMeansStopped` and `CallsReturn` fail. A stop or a destroy between
  `xTaskCreate` and the first steps of the task sees `run` not yet set, or is
  undone when the task sets it (`mqtt_client.c:1922`); a STOPPED_BIT of the stop
  before lets the next one return at once; and a second start is accepted, although
  the code says "Client has started" (`mqtt_client.c:2152`), whenever the state is
  INIT, which it is during a reconnection too.
* `docs/en/index.rst:311` says that a stop triggers no event. The task polls
  without the lock and tests the state before (`mqtt_client.c:2129`): when the
  transport is closed under it, it aborts the connection and dispatches
  DISCONNECTED (`PollAborts`). `docs/en/index.rst:281` says that reconnect cannot be
  used without automatic reconnection; the code reconnects (`mqtt_client.c:2091`, the
  first disjunct of `RoundReconnects`). `ReconnectsAsAsked` takes no side: it says that
  without automatic reconnection there is none that nobody asked for.
* `esp_mqtt_client_reconnect` tests the state and sets RECONNECT_BIT without the lock
  (`mqtt_client.c:2204-2210`). A call that is held up between the two until the client
  has connected again leaves its bit for the next loss, after which a client without
  automatic reconnection reconnects. `ReconnectsAsAsked` counts that as asked for, since
  the bit came after the attempt; it rules out bits set before it.
* MQTT 5 lets one more than `receive_maximum` through: the test of
  `mqtt5_client.c:379` is `>`. What is resent does not ask at all
  (`mqtt_client.c:2027`), and the count starts at 0 on a connection whose session has
  messages unanswered. Whether a publish counts is read from the DUP bit of the first
  byte written last, which for a message that goes out in parts is a byte of its data
  (`mqtt5_client.c:24`).
* `mqtt5_msg.c:1109` has no room for the terminator of response information, slash
  and topic together: the last character of the response topic is lost and a NUL is
  sent (with a broker that sends response information `SaysWhatIsMeant` fails).
* An enqueued message that does not fit the buffer leaves
  `fragmented_msg_data_offset` behind (`mqtt_client.c:2503`), and the next publish
  reads before the start of its data.
* A PUBLISH of QoS 2 that the broker sends again is delivered again
  (`mqtt_client.c:1647-1690`); the properties set for a publish are those of
  whichever task publishes next (`mqtt_client.c:2456`).

## 8. What is not modelled

* The camera driver's wrapper and the HTTP server: straight-line driver calls,
  and a server that `main.c:216` does not start.
* Of the MQTT client: reading the configuration, the transports and their set-up,
  the limit of the outbox, the lack of memory, and the texts that are only logged.
  PINGREQ is in `MqttClient` as the keepalive that finds a dead connection, and not
  in `Mqtt5Client`.
* Of the codec of MQTT 3.1.1, CONNECT, SUBSCRIBE and UNSUBSCRIBE: those of MQTT 5,
  which have the same structure and more, are modelled.
* Of the boot, `nvs_flash_erase` when the partition is full or of another version
  (`main.c:136`), after which there are no credentials; of a SUBACK without return
  codes, that it ends the connection (`mqtt_client.c:1372`, 1627); of SUBSCRIBE in MQTT
  5, that an empty filter is refused (`mqtt5_msg.c:1265`). No instance has the last two,
  and no message of the standard is like them.
* Of MQTT 5, calls from other tasks than the event handler's; what a parser has
  stored before it gives a message up; SUBSCRIBE of several topics.
* Message ids are distinct in the model; the code draws them at random
  (`mqtt_msg.c:47`) and does not look whether one is in use.
* The lengths of strings: a credential, a network, a message is a value (but for
  MQTT, whose messages are bytes). `main.c:123` fills 32 of the 33 bytes of
  uninitialised memory, so that an SSID of 32 bytes has no terminator of its own, and
  `wifi_manager.c:96` keeps 31 of them.
* `uart_tx_task`, `send_response` as an action and `protocol_set_tx_value`:
  nothing calls them (`Encode` uses `send_response`'s checksum for the master).

## 9. Plan

In order; the first nine are done, and of the last all but the round trip.

1. `WifiStation`, `WifiManager`: the shared statics and the event loop; the
   theorem that one call at a time is safe.
2. `BleLink`, `Provisioning`, `ProvisioningPromise`: the system's main story.
3. `UartProtocol`, `FrameLink`.
4. `WifiScan`.
5. `MqttOutbox`, `MqttClient`, `MqttPromise`.
6. `MqttMsg`, `MqttReceive`: the receiver and the codec it needs.
7. `MqttLifecycle`: `start`, `stop`, `disconnect`, `reconnect` and `destroy` against
   the task's unlocked accesses, with their theorems.
8. `Mqtt5Msg`, `Mqtt5Broker`, `Mqtt5Client`: the sending side, messages larger than
   the output buffer, properties, aliases and limits.
9. QoS 2 and the ACKNOWLEDGED state, in `Mqtt5Client`.
10. The lengths of SSID and password through `main.c` and `wifi_manager.c`; the
    builders of CONNECT and SUBSCRIBE of MQTT 3.1.1; calls of other tasks between the
    properties and the publish of `Mqtt5Client`.
11. Theorems about MQTT 5: `OnceOnly`, `CountsInFlight` and its type invariant (done);
    the round trip of its numbers and blocks of properties. The step simulation behind
    `FrameLink`, for commands without delimiters (done).
