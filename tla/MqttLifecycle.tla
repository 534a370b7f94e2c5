--------------------------- MODULE MqttLifecycle ---------------------------
(***************************************************************************)
(* The life of a client of components/mqtt/mqtt_client.c: its task, the    *)
(* calls start, stop, disconnect, reconnect and destroy of other tasks,    *)
(* and the event handler, which runs on the client's task under its lock.  *)
(*                                                                         *)
(* run and state are read and written with and without the lock; stop and  *)
(* destroy wait for an event group bit that the task sets last.  What      *)
(* travels over the connection is the subject of MqttClient.               *)
(***************************************************************************)
EXTENDS Integers, FiniteSets

CONSTANTS
    Owner,      \* the task that starts, stops and destroys the client
    Others,     \* the tasks that only disconnect and reconnect it
    MaxStarts,  \* bound on the calls of start that create a task
    Careful     \* TRUE: the owner calls start, stop and destroy as Ready asks

Callers == {Owner} \cup Others
Tasks == 1..MaxStarts

ASSUME LifecycleAssumption ==
    /\ Owner \notin Others
    /\ MaxStarts \in Nat \ {0}
    /\ Careful \in BOOLEAN

VARIABLES
    auto_reconnect,     \* config->auto_reconnect
    run, state,         \* client->run, client->state
    bits,               \* status_bits
    task_handle,        \* the last task created; 0 before the first start
    allocated,          \* the client is not freed
    pc,                 \* where each incarnation of esp_mqtt_task is
    call,               \* where each caller is in its call
    \* History.
    heard,              \* BEFORE_CONNECT came since the last start
    asked,              \* disconnect was called since this connection began
    wanted              \* reconnect has set its bit since then

config == <<auto_reconnect>>
shared == <<run, state, bits>>
history == <<heard, asked, wanted>>
vars == <<config, shared, task_handle, allocated, pc, call, history>>

\* The task before its loop, in a round and after its loop.
Starting == {"created", "running", "initial"}
Locked == {"connecting", "up", "down", "refreshed", "waits"}
Ending == {"close", "stopped"}
InTask == Starting \cup {"loop", "lock", "poll", "abort"} \cup Locked \cup Ending

Alive(t) == pc[t] \in InTask
LockFree == \A t \in Tasks : pc[t] \notin Locked

\* Between two calls: nothing more to say, the last one was a stop that
\* returned ESP_OK, or it was destroy.
Resting == {"none", "stopped", "destroyed"}

LifecycleTypeOK ==
    /\ auto_reconnect \in BOOLEAN
    /\ run \in BOOLEAN
    /\ state \in {"INIT", "DISCONNECTED", "CONNECTED", "WAIT_RECONNECT"}
    /\ bits \subseteq {"STOPPED", "RECONNECT", "DISCONNECT"}
    /\ task_handle \in 0..MaxStarts
    /\ allocated \in BOOLEAN
    /\ pc \in [Tasks -> InTask \cup {"none", "gone"}]
    /\ call \in [Callers -> Resting \cup {"stop", "await", "destroy",
                             "await_destroy", "free", "reconnect"}]
    /\ Cardinality({t \in Tasks : pc[t] \in Locked}) <= 1
    /\ heard \in BOOLEAN
    /\ asked \in BOOLEAN
    /\ wanted \in BOOLEAN
    /\ run /\ state = "DISCONNECTED" => \E t \in Tasks : pc[t] = "running"

\* esp_mqtt_client_init.
Init ==
    /\ auto_reconnect \in BOOLEAN
    /\ run = FALSE
    /\ state = "INIT"
    /\ bits = {}
    /\ task_handle = 0
    /\ allocated = TRUE
    /\ pc = [t \in Tasks |-> "none"]
    /\ call = [c \in Callers |-> "none"]
    /\ heard = FALSE
    /\ asked = FALSE
    /\ wanted = FALSE

---------------------------------------------------------------------------
\* esp_mqtt_task, incarnation t.

Goto(t, from, to) ==
    /\ pc[t] = from
    /\ pc' = [pc EXCEPT ![t] = to]

\* esp_mqtt_abort_connection, which ends with MQTT_EVENT_DISCONNECTED.
AbortConnection(t, from) ==
    /\ Goto(t, from, "down")
    /\ state' = "WAIT_RECONNECT"

\* Its first three statements, outside the lock.
SetsRun(t) ==
    /\ Goto(t, "created", "running")
    /\ run' = TRUE
    /\ UNCHANGED <<config, state, bits, task_handle, allocated, call, history>>

\* Seeded fault: the state of the time before is kept.
SetsState_Not(t) ==
    /\ Goto(t, "running", "initial")
    /\ UNCHANGED <<config, shared, task_handle, allocated, call, history>>

SetsState(t) ==
    /\ Goto(t, "running", "initial")
    /\ state' = "INIT"
    /\ UNCHANGED <<config, run, bits, task_handle, allocated, call, history>>

\* Seeded fault: STOPPED_BIT is left from the time before.
ClearsStopped_Not(t) ==
    /\ Goto(t, "initial", "loop")
    /\ UNCHANGED <<config, shared, task_handle, allocated, call, history>>

ClearsStopped(t) ==
    /\ Goto(t, "initial", "loop")
    /\ bits' = bits \ {"STOPPED"}
    /\ UNCHANGED <<config, run, state, task_handle, allocated, call, history>>

\* while (client->run), outside the lock.
TestsRun(t) ==
    /\ Goto(t, "loop", IF run THEN "lock" ELSE "close")
    /\ UNCHANGED <<config, shared, task_handle, allocated, call, history>>

\* The lock is taken.
Round(t, to) == LockFree /\ Goto(t, "lock", to)

\* A state without work: the client was stopped since TestsRun.
RoundDisconnected(t) ==
    /\ Round(t, "poll")
    /\ state = "DISCONNECTED"
    /\ UNCHANGED <<config, shared, task_handle, allocated, call, history>>

\* Seeded fault: a request to disconnect outlives the connection it is about.
RoundInit_KeepsBits(t) ==
    /\ Round(t, "connecting")
    /\ state = "INIT"
    /\ heard' = TRUE
    /\ asked' = FALSE
    /\ wanted' = FALSE
    /\ UNCHANGED <<config, shared, task_handle, allocated, call>>

\* MQTT_STATE_INIT, up to MQTT_EVENT_BEFORE_CONNECT and the connection
\* attempt, during which the lock is held.
RoundInit(t) ==
    /\ Round(t, "connecting")
    /\ state = "INIT"
    /\ bits' = bits \ {"RECONNECT", "DISCONNECT"}
    /\ heard' = TRUE
    /\ asked' = FALSE
    /\ wanted' = FALSE
    /\ UNCHANGED <<config, run, state, task_handle, allocated, call>>

\* The scheme of the URI has no transport: so it is from the first attempt
\* on, before any event.
RoundNoTransport(t) ==
    /\ Round(t, "poll")
    /\ state = "INIT"
    /\ ~heard
    /\ run' = FALSE
    /\ bits' = bits \ {"RECONNECT", "DISCONNECT"}
    /\ UNCHANGED <<config, state, task_handle, allocated, call, history>>

Connects(t) ==
    /\ Goto(t, "connecting", "up")
    /\ state' = "CONNECTED"
    /\ UNCHANGED <<config, run, bits, task_handle, allocated, call, history>>

ConnectFails(t) ==
    /\ AbortConnection(t, "connecting")
    /\ UNCHANGED <<config, run, bits, task_handle, allocated, call, history>>

\* MQTT_STATE_CONNECTED, asked to disconnect.
RoundDisconnects(t) ==
    /\ Round(t, "down")
    /\ state = "CONNECTED"
    /\ "DISCONNECT" \in bits
    /\ AbortConnection(t, "lock")
    /\ bits' = bits \ {"DISCONNECT"}
    /\ UNCHANGED <<config, run, task_handle, allocated, call, history>>

\* ... with nothing wrong, or with an error of the connection.
RoundConnected(t) ==
    /\ LockFree
    /\ state = "CONNECTED"
    /\ "DISCONNECT" \notin bits
    /\ \/ Goto(t, "lock", "poll") /\ UNCHANGED state
       \/ AbortConnection(t, "lock")
    /\ UNCHANGED <<config, run, bits, task_handle, allocated, call, history>>

\* ... refresh_connection_after_ms are over: the handler hears of a
\* disconnection, then the state becomes MQTT_STATE_INIT.
RoundRefreshes(t) ==
    /\ Round(t, "refreshed")
    /\ state = "CONNECTED"
    /\ "DISCONNECT" \notin bits
    /\ state' = "WAIT_RECONNECT"
    /\ UNCHANGED <<config, run, bits, task_handle, allocated, call, history>>

\* Seeded fault: the timeout alone does not reconnect.
RoundReconnects_AskedOnly(t) ==
    /\ Round(t, "poll")
    /\ state = "WAIT_RECONNECT"
    /\ "RECONNECT" \in bits
    /\ bits' = bits \ {"RECONNECT"}
    /\ state' = "INIT"
    /\ UNCHANGED <<config, run, task_handle, allocated, call, history>>

\* MQTT_STATE_WAIT_RECONNECT: asked to reconnect, or, with auto_reconnect,
\* wait_timeout_ms are over, as they are at once after esp_mqtt_client_reconnect.
RoundReconnects(t) ==
    /\ Round(t, "poll")
    /\ state = "WAIT_RECONNECT"
    /\ \/ ~auto_reconnect /\ "RECONNECT" \in bits /\ bits' = bits \ {"RECONNECT"}
       \/ auto_reconnect /\ UNCHANGED bits
    /\ state' = "INIT"
    /\ UNCHANGED <<config, run, task_handle, allocated, call, history>>

\* ... or the task waits for RECONNECT_BIT without the lock, and goes on.
RoundWaits(t) ==
    /\ Round(t, "loop")
    /\ state = "WAIT_RECONNECT"
    /\ "RECONNECT" \in bits => auto_reconnect
    /\ UNCHANGED <<config, shared, task_handle, allocated, call, history>>

\* The event handler returns; the lock is released.
HandlerReturns(t) ==
    /\ \/ /\ pc[t] \in {"up", "down"} \cup
                        (IF "STOPPED" \in bits THEN {"waits"} ELSE {})
          /\ UNCHANGED state
       \/ /\ pc[t] = "refreshed"
          /\ state' = "INIT"
    /\ pc' = [pc EXCEPT ![t] = "poll"]
    /\ UNCHANGED <<config, run, bits, task_handle, allocated, call, history>>

\* if (MQTT_STATE_CONNECTED == client->state) and esp_transport_poll_read,
\* outside the lock ...
Polls(t) ==
    /\ pc[t] = "poll"
    /\ pc' \in {[pc EXCEPT ![t] = "loop"]} \cup
              (IF state = "CONNECTED" THEN {[pc EXCEPT ![t] = "abort"]} ELSE {})
    /\ UNCHANGED <<config, shared, task_handle, allocated, call, history>>

\* ... and under the lock the connection is aborted, whatever became of it
\* since.  The handler runs inside, and the task goes back to its loop.
PollAborts(t) ==
    /\ LockFree
    /\ AbortConnection(t, "abort")
    /\ UNCHANGED <<config, run, bits, task_handle, allocated, call, history>>

\* After the loop: the transport, the outbox, the state ...
Closes(t) ==
    /\ Goto(t, "close", "stopped")
    /\ state' = "DISCONNECTED"
    /\ UNCHANGED <<config, run, bits, task_handle, allocated, call, history>>

\* ... and STOPPED_BIT, which wakes whoever waits for it.
SetsStopped(t) ==
    /\ Goto(t, "stopped", "gone")
    /\ bits' = bits \cup {"STOPPED"}
    /\ call' = [c \in Callers |->
                   IF call[c] = "await" THEN "stopped"
                   ELSE IF call[c] = "await_destroy" THEN "free" ELSE call[c]]
    /\ UNCHANGED <<config, run, state, task_handle, allocated, history>>

TaskStep(t) ==
    \/ SetsRun(t) \/ SetsState(t) \/ ClearsStopped(t) \/ TestsRun(t)
    \/ RoundDisconnected(t) \/ RoundInit(t) \/ RoundNoTransport(t)
    \/ Connects(t) \/ ConnectFails(t)
    \/ RoundDisconnects(t) \/ RoundConnected(t) \/ RoundRefreshes(t)
    \/ RoundReconnects(t) \/ RoundWaits(t)
    \/ HandlerReturns(t) \/ Polls(t) \/ PollAborts(t)
    \/ Closes(t) \/ SetsStopped(t)

---------------------------------------------------------------------------
\* The event handler, on the task.

HandlerCalls(t) == pc[t] \in Locked

HandlerDisconnects(t) ==
    /\ HandlerCalls(t)
    /\ bits' = bits \cup {"DISCONNECT"}
    /\ asked' = TRUE
    /\ UNCHANGED <<config, run, state, task_handle, allocated, pc, call, heard, wanted>>

HandlerReconnects(t) ==
    /\ HandlerCalls(t)
    /\ state = "WAIT_RECONNECT"
    /\ bits' = bits \cup {"RECONNECT"}
    /\ wanted' = TRUE
    /\ UNCHANGED <<config, run, state, task_handle, allocated, pc, call, heard, asked>>

\* Seeded fault: the handler may stop its own client.
HandlerStops_Unchecked(t) ==
    /\ HandlerCalls(t)
    /\ run
    /\ run' = FALSE
    /\ state' = "DISCONNECTED"
    /\ pc' = [pc EXCEPT ![t] = "waits"]
    /\ UNCHANGED <<config, bits, task_handle, allocated, call, history>>

\* esp_mqtt_client_stop is refused on the task it would wait for.
HandlerStops(t) ==
    /\ HandlerCalls(t)
    /\ run
    /\ IF task_handle = t THEN UNCHANGED <<run, state, pc>>
       ELSE /\ run' = FALSE
            /\ state' = "DISCONNECTED"
            /\ pc' = [pc EXCEPT ![t] = "waits"]
    /\ UNCHANGED <<config, bits, task_handle, allocated, call, history>>

---------------------------------------------------------------------------
\* The calls of other tasks.

\* Nobody uses the handle once destroy is called.
HandleValid == call[Owner] \notin {"destroy", "await_destroy", "free", "destroyed"}

Begins(c, to) ==
    /\ HandleValid
    /\ call[c] \in {"none", "stopped"}
    /\ call' = [call EXCEPT ![c] = to]

Returns(c, from, to) ==
    /\ call[c] = from
    /\ call' = [call EXCEPT ![c] = to]

\* The owner waits for MQTT_EVENT_BEFORE_CONNECT after start, and does not
\* start a client again that is about to connect.
Ready == Careful => task_handle = 0 \/ heard
ReadyToStart ==
    /\ Ready
    /\ Careful /\ state = "INIT" => \A t \in Tasks : ~Alive(t)

\* Seeded fault: the state is not looked at.
Start_AnyState ==
    /\ Begins(Owner, "none")
    /\ ReadyToStart
    /\ LockFree
    /\ task_handle < MaxStarts
    /\ task_handle' = task_handle + 1
    /\ pc' = [pc EXCEPT ![task_handle'] = "created"]
    /\ heard' = FALSE
    /\ UNCHANGED <<config, shared, allocated, asked, wanted>>

\* esp_mqtt_client_start; refused in any other state.
Start ==
    /\ Begins(Owner, "none")
    /\ ReadyToStart
    /\ LockFree
    /\ state \in {"INIT", "DISCONNECTED"}
    /\ task_handle < MaxStarts
    /\ task_handle' = task_handle + 1
    /\ pc' = [pc EXCEPT ![task_handle'] = "created"]
    /\ heard' = FALSE
    /\ UNCHANGED <<config, shared, allocated, asked, wanted>>

\* esp_mqtt_client_stop is called, and waits for the lock.
BeginStop ==
    /\ Begins(Owner, "stop")
    /\ Ready
    /\ UNCHANGED <<config, shared, task_handle, allocated, pc, history>>

\* Seeded fault: a client that is not connected need not be stopped.
BeginDestroy_Connected ==
    /\ Begins(Owner, IF run /\ state = "CONNECTED" THEN "destroy" ELSE "free")
    /\ Ready
    /\ \A c \in Others : call[c] \in Resting
    /\ UNCHANGED <<config, shared, task_handle, allocated, pc, history>>

\* esp_mqtt_client_destroy is called, and tests run outside the lock.
BeginDestroy ==
    /\ Begins(Owner, IF run THEN "destroy" ELSE "free")
    /\ Ready
    /\ \A c \in Others : call[c] \in Resting
    /\ UNCHANGED <<config, shared, task_handle, allocated, pc, history>>

\* stop under the lock: the task is told, and STOPPED_BIT waited for; or
\* there is nothing to stop.
StopAsks(from, await, then) ==
    /\ LockFree
    /\ \/ /\ run
          /\ Returns(Owner, from, IF "STOPPED" \in bits THEN then ELSE await)
          /\ run' = FALSE
          /\ state' = "DISCONNECTED"
       \/ /\ ~run
          /\ Returns(Owner, from, IF from = "stop" THEN "none" ELSE then)
          /\ UNCHANGED <<run, state>>
    /\ UNCHANGED <<config, bits, task_handle, allocated, pc, history>>

Stop == StopAsks("stop", "await", "stopped")
DestroyStops == StopAsks("destroy", "await_destroy", "free")

Frees ==
    /\ Returns(Owner, "free", "destroyed")
    /\ allocated' = FALSE
    /\ UNCHANGED <<config, shared, task_handle, pc, history>>

Disconnect(c) ==
    /\ Begins(c, call[c])
    /\ bits' = bits \cup {"DISCONNECT"}
    /\ asked' = TRUE
    /\ UNCHANGED <<config, run, state, task_handle, allocated, pc, heard, wanted>>

\* esp_mqtt_client_reconnect: the test of the state ...
BeginReconnect(c) ==
    /\ Begins(c, "reconnect")
    /\ state = "WAIT_RECONNECT"
    /\ UNCHANGED <<config, shared, task_handle, allocated, pc, history>>

\* ... and what follows, neither under the lock.
Reconnect(c) ==
    /\ Returns(c, "reconnect", "none")
    /\ bits' = bits \cup {"RECONNECT"}
    /\ wanted' = TRUE
    /\ UNCHANGED <<config, run, state, task_handle, allocated, pc, heard, asked>>

CallStep(c) == Reconnect(c) \/ (c = Owner /\ (Stop \/ DestroyStops \/ Frees))

Next ==
    \/ \E t \in Tasks : TaskStep(t) \/ HandlerDisconnects(t)
                          \/ HandlerReconnects(t) \/ HandlerStops(t)
    \/ \E c \in Callers : Disconnect(c) \/ BeginReconnect(c) \/ CallStep(c)
    \/ Start \/ BeginStop \/ BeginDestroy

\* Every task of the chip runs when it can; the lock is handed on to whoever
\* waits for it, and wait_timeout_ms pass.  Nothing makes a connection
\* succeed or fail, and nobody has to call.
Fairness ==
    /\ \A t \in Tasks : WF_vars(TaskStep(t)) /\ SF_vars(RoundReconnects(t))
    /\ \A c \in Callers : SF_vars(CallStep(c))

Spec == Init /\ [][Next]_vars /\ Fairness

---------------------------------------------------------------------------
\* Properties.

\* A client never has two tasks (mqtt_client.c:1917-1926, 2144-2181).
OneTask == Cardinality({t \in Tasks : Alive(t)}) <= 1

\* The client is not freed under its own task or under a call: destroy tests
\* run outside the lock, and the bit it waits for may be an old one
\* (mqtt_client.c:1040-1064, 1922-1924, 2266).
NoUseAfterFree ==
    ~allocated => /\ \A t \in Tasks : ~Alive(t)
                  /\ \A c \in Callers : call[c] \in Resting

\* A stop that returned ESP_OK has stopped the client, also when it was
\* started before and stopped before (mqtt_client.c:1924, 2137-2141, 2263-2267).
StopMeansStopped ==
    call[Owner] = "stopped" => ~run /\ \A t \in Tasks : ~Alive(t)

\* A request to disconnect ends the connection it was made for or none: one
\* made while there is no connection does not end the next
\* (mqtt_client.c:1939, 2014-2018).
DisconnectOnlyWhenAsked ==
    [][(\E t \in Tasks : pc[t] = "lock" /\ pc'[t] = "down" /\ bits' # bits)
           => asked]_vars

\* Every call returns, a stop and a destroy from any state of the client
\* (mqtt_client.c:2244-2278).
CallsReturn == \A c \in Callers : []<>(call[c] \in Resting)

\* With auto_reconnect a client that lost its connection makes another
\* attempt.  Without, it makes one only if somebody asked since the last
\* attempt began: a request that an earlier loss left behind does not
\* reconnect it after the next (mqtt_client.c:1938, 2091-2113, 2195-2212).
ReconnectsAsAsked ==
    /\ state = "WAIT_RECONNECT" /\ auto_reconnect ~> state # "WAIT_RECONNECT"
    /\ [][(\E t \in Tasks : pc[t] = "lock" /\ pc'[t] = "poll" /\ state' # state)
              => auto_reconnect \/ wanted]_vars

=============================================================================
