---------------------------- MODULE WifiManager ----------------------------
(***************************************************************************)
(* main/wifi_manager.c: wifi_manager_connect, called by the tasks Callers, *)
(* and wifi_event_handler, run by the default event loop task for every    *)
(* handler instance that is registered when an event is dispatched.        *)
(*                                                                         *)
(* The two share s_evt_group and s_retry_num, with no lock.  A step is one *)
(* access to them (or one driver call), so callers and handler interleave  *)
(* wherever the code lets them.  The event loop does hold its own mutex    *)
(* around a dispatch, so a handler is never registered or unregistered     *)
(* while handlers run.                                                     *)
(***************************************************************************)
EXTENDS WifiStation, Integers

CONSTANTS
    Callers,        \* the tasks that may call wifi_manager_connect
    Groups,         \* the heap blocks an event group may be created in
    NoGroup,        \* NULL
    MaxRetry,       \* WIFI_CONNECT_RETRY
    Serial          \* TRUE: a call starts only when no other is in progress

ASSUME ManagerAssumption ==
    /\ NoGroup \notin Groups
    /\ Groups # {}
    /\ MaxRetry \in Nat
    /\ Serial \in BOOLEAN

VARIABLES
    pc,             \* where each caller is in wifi_manager_connect
    target,         \* the ssid argument of the call
    waitOn,         \* the group the call is waiting on
    seen,           \* the bits xEventGroupWaitBits returned
    handlers,       \* the callers whose two handler instances are registered
    s_evt_group,
    s_retry_num,
    live,           \* the groups created and not yet deleted
    bits,           \* the bits of each group
    loop,           \* the event loop task: the handler run in progress
    fault,          \* a failed assertion or a use of freed memory, if any
    joined          \* history: the caller's target gave an IP during the call

callVars == <<pc, target, waitOn, seen, joined>>
groupVars == <<s_evt_group, live, bits>>
taskVars == <<callVars, groupVars, handlers, s_retry_num, loop, fault>>
managerVars == <<stationVars, taskVars>>

\* The lines of wifi_manager_connect, in order; "ok" and "fail" are its
\* two results.
InCall == {"create", "zero", "register", "config", "disconnect", "connect",
           "wait", "waiting", "unregister", "delete", "null", "result"}
Results == {"ok", "fail"}
BitNames == {"CONNECTED", "FAIL"}

LoopAt == {"idle", "enter", "load", "store", "group", "set"}
LoopIdle == [at |-> "idle", kind |-> "GOT_IP", todo |-> {}, tmp |-> 0]

ManagerTypeOK ==
    /\ StationTypeOK
    /\ pc \in [Callers -> InCall \cup Results \cup {"idle"}]
    /\ target \in [Callers -> Ssids \cup {NoSsid}]
    /\ waitOn \in [Callers -> Groups \cup {NoGroup}]
    /\ seen \in [Callers -> SUBSET BitNames]
    /\ joined \in [Callers -> BOOLEAN]
    /\ handlers \in SUBSET Callers
    /\ s_evt_group \in Groups \cup {NoGroup}
    /\ s_retry_num \in Nat
    /\ live \in SUBSET Groups
    /\ bits \in [Groups -> SUBSET BitNames]
    /\ loop \in [at : LoopAt, kind : Events,
                 todo : SUBSET Callers, tmp : Nat]
    /\ fault \in {"none", "assert", "use_after_free"}
    /\ \A c \in Callers : pc[c] = "waiting" => waitOn[c] \in Groups

ManagerInit ==
    /\ StationInit
    /\ pc = [c \in Callers |-> "idle"]
    /\ target = [c \in Callers |-> NoSsid]
    /\ waitOn = [c \in Callers |-> NoGroup]
    /\ seen = [c \in Callers |-> {}]
    /\ joined = [c \in Callers |-> FALSE]
    /\ handlers = {}
    /\ s_evt_group = NoGroup
    /\ s_retry_num = 0
    /\ live = {}
    /\ bits = [g \in Groups |-> {}]
    /\ loop = LoopIdle
    /\ fault = "none"

Running == fault = "none"

Goto(c, from, to) ==
    /\ Running
    /\ pc[c] = from
    /\ pc' = [pc EXCEPT ![c] = to]

Fault(kind) ==
    /\ fault' = kind
    /\ UNCHANGED <<groupVars, loop, pc, seen, waitOn>>

---------------------------------------------------------------------------
\* wifi_manager_connect, as caller c runs it.

Busy(c) == pc[c] \in InCall
Trying(c) == pc[c] \in {"connect", "wait", "waiting"}

\* The call begins: its arguments are in place, no statement has run.
Enter(c, ssid) ==
    /\ Goto(c, "idle", "create")
    /\ target' = [target EXCEPT ![c] = ssid]
    /\ UNCHANGED <<stationVars, waitOn, seen, joined, groupVars, handlers,
                   s_retry_num, loop, fault>>

\* What Serial asks of whoever calls.
MayCall == Serial => \A d \in Callers : ~Busy(d)

Call(c, ssid) == MayCall /\ Enter(c, ssid)

\* Seeded fault: the handlers are registered before the statics are set.
CreateGroup_RegisterFirst(c) ==
    /\ Goto(c, "create", "zero")
    /\ loop.at = "idle"
    /\ \E g \in Groups \ live :
          /\ s_evt_group' = g
          /\ live' = live \cup {g}
          /\ bits' = [bits EXCEPT ![g] = {}]
    /\ handlers' = handlers \cup {c}
    /\ UNCHANGED <<stationVars, target, waitOn, seen, joined, s_retry_num,
                   loop, fault>>

\* xEventGroupCreate returns NULL when the heap is exhausted: not checked.
CreateGroup(c) ==
    /\ Goto(c, "create", "zero")
    /\ \/ \E g \in Groups \ live :
            /\ s_evt_group' = g
            /\ live' = live \cup {g}
            /\ bits' = [bits EXCEPT ![g] = {}]
       \/ /\ Groups = live
          /\ s_evt_group' = NoGroup
          /\ UNCHANGED <<live, bits>>
    /\ UNCHANGED <<stationVars, target, waitOn, seen, joined, handlers,
                   s_retry_num, loop, fault>>

ZeroRetry(c) ==
    /\ Goto(c, "zero", "register")
    /\ s_retry_num' = 0
    /\ UNCHANGED <<stationVars, target, waitOn, seen, joined, groupVars,
                   handlers, loop, fault>>

\* The WIFI_EVENT and the IP_EVENT instance; waits while handlers run.
Register(c) ==
    /\ Goto(c, "register", "config")
    /\ loop.at = "idle"
    /\ handlers' = handlers \cup {c}
    /\ UNCHANGED <<stationVars, target, waitOn, seen, joined, groupVars,
                   s_retry_num, loop, fault>>

ApplyConfig(c) ==
    /\ Goto(c, "config", "disconnect")
    /\ SetConfig(target[c])
    /\ UNCHANGED <<target, waitOn, seen, joined, groupVars, handlers,
                   s_retry_num, loop, fault>>

DropOldLink(c) ==
    /\ Goto(c, "disconnect", "connect")
    /\ Disconnect
    /\ UNCHANGED <<target, waitOn, seen, joined, groupVars, handlers,
                   s_retry_num, loop, fault>>

FirstConnect(c) ==
    /\ Goto(c, "connect", "wait")
    /\ Connect
    /\ UNCHANGED <<target, waitOn, seen, joined, groupVars, handlers,
                   s_retry_num, loop, fault>>

\* The group is whatever s_evt_group holds now, passed by value.
StartWait(c) ==
    /\ Running
    /\ pc[c] = "wait"
    /\ \/ /\ s_evt_group \in live
          /\ pc' = [pc EXCEPT ![c] = "waiting"]
          /\ waitOn' = [waitOn EXCEPT ![c] = s_evt_group]
          /\ UNCHANGED <<seen, groupVars, loop, fault>>
       \/ s_evt_group = NoGroup /\ Fault("assert")
       \/ s_evt_group \in Groups \ live /\ Fault("use_after_free")
    /\ UNCHANGED <<stationVars, target, joined, handlers, s_retry_num>>

\* xEventGroupWaitBits returns the bits without clearing them.
BitsArrive(c) ==
    /\ Goto(c, "waiting", "unregister")
    /\ bits[waitOn[c]] # {}
    /\ seen' = [seen EXCEPT ![c] = bits[waitOn[c]]]
    /\ UNCHANGED <<stationVars, target, waitOn, joined, groupVars, handlers,
                   s_retry_num, loop, fault>>
\* Seeded fault: the wait has no timeout.
Timeout_Never(c) == FALSE

\* The 30 s of line 121 pass.
Timeout(c) ==
    /\ Goto(c, "waiting", "unregister")
    /\ bits[waitOn[c]] = {}
    /\ seen' = [seen EXCEPT ![c] = {}]
    /\ UNCHANGED <<stationVars, target, waitOn, joined, groupVars, handlers,
                   s_retry_num, loop, fault>>
\* Seeded fault: the handler instances stay registered.
Unregister_Forgotten(c) ==
    /\ Goto(c, "unregister", "delete")
    /\ UNCHANGED <<stationVars, target, waitOn, seen, joined, groupVars,
                   handlers, s_retry_num, loop, fault>>

Unregister(c) ==
    /\ Goto(c, "unregister", "delete")
    /\ loop.at = "idle"
    /\ handlers' = handlers \ {c}
    /\ UNCHANGED <<stationVars, target, waitOn, seen, joined, groupVars,
                   s_retry_num, loop, fault>>
\* Seeded fault: the group is not deleted.
DeleteGroup_Leak(c) ==
    /\ Goto(c, "delete", "null")
    /\ UNCHANGED <<stationVars, target, waitOn, seen, joined, groupVars,
                   handlers, s_retry_num, loop, fault>>

\* vEventGroupDelete(s_evt_group): asserts on NULL, and releases every
\* task that waits on the group with no bit set.
DeleteGroup(c) ==
    /\ Running
    /\ pc[c] = "delete"
    /\ LET released == {d \in Callers : pc[d] = "waiting" /\ waitOn[d] = s_evt_group}
       IN \/ /\ s_evt_group \in live
             /\ live' = live \ {s_evt_group}
             /\ bits' = [bits EXCEPT ![s_evt_group] = {}]
             /\ pc' = [d \in Callers |-> IF d = c THEN "null"
                                         ELSE IF d \in released THEN "unregister"
                                         ELSE pc[d]]
             /\ seen' = [d \in Callers |-> IF d \in released THEN {} ELSE seen[d]]
             /\ UNCHANGED <<waitOn, s_evt_group, loop, fault>>
          \/ s_evt_group = NoGroup /\ Fault("assert")
          \/ s_evt_group \in Groups \ live /\ Fault("use_after_free")
    /\ UNCHANGED <<stationVars, target, joined, handlers, s_retry_num>>

ClearGroup(c) ==
    /\ Goto(c, "null", "result")
    /\ s_evt_group' = NoGroup
    /\ UNCHANGED <<stationVars, target, waitOn, seen, joined, live, bits,
                   handlers, s_retry_num, loop, fault>>
\* Seeded fault: everything but FAIL_BIT counts as success.
Result_NotFail(c) ==
    /\ Goto(c, "result", IF "FAIL" \in seen[c] THEN "fail" ELSE "ok")
    /\ UNCHANGED <<stationVars, target, waitOn, seen, joined, groupVars,
                   handlers, s_retry_num, loop, fault>>

Result(c) ==
    /\ Goto(c, "result", IF "CONNECTED" \in seen[c] THEN "ok" ELSE "fail")
    /\ UNCHANGED <<stationVars, target, waitOn, seen, joined, groupVars,
                   handlers, s_retry_num, loop, fault>>

\* The caller has used the result; the locals of the call are gone.
Leave(c) ==
    /\ Running
    /\ pc[c] \in Results
    /\ pc' = [pc EXCEPT ![c] = "idle"]
    /\ target' = [target EXCEPT ![c] = NoSsid]
    /\ waitOn' = [waitOn EXCEPT ![c] = NoGroup]
    /\ seen' = [seen EXCEPT ![c] = {}]
    /\ joined' = [joined EXCEPT ![c] = FALSE]
    /\ UNCHANGED <<stationVars, groupVars, handlers, s_retry_num, loop, fault>>

Body(c) ==
    \/ CreateGroup(c)
    \/ ZeroRetry(c)
    \/ Register(c)
    \/ ApplyConfig(c)
    \/ DropOldLink(c)
    \/ FirstConnect(c)
    \/ StartWait(c)
    \/ BitsArrive(c)
    \/ Timeout(c)
    \/ Unregister(c)
    \/ DeleteGroup(c)
    \/ ClearGroup(c)
    \/ Result(c)

---------------------------------------------------------------------------
\* The event loop task.

\* The loop takes the oldest event and its mutex; without a registered
\* handler the event is dropped.
Dispatch ==
    /\ Running
    /\ loop.at = "idle"
    /\ evq # <<>>
    /\ evq' = Tail(evq)
    /\ loop' = IF handlers = {} THEN loop
               ELSE [at |-> "enter", kind |-> Head(evq),
                     todo |-> handlers, tmp |-> 0]
    /\ UNCHANGED <<config, sta, callVars, groupVars, handlers, s_retry_num,
                   fault>>

\* One run of wifi_event_handler ends; the loop goes on to the next
\* instance, or lets its mutex go.
NextInstance ==
    \E h \in loop.todo :
        loop' = IF loop.todo = {h} THEN LoopIdle
                ELSE [loop EXCEPT !.at = "enter", !.todo = @ \ {h}, !.tmp = 0]
\* Seeded fault: one retry too many.
HandlerRetry_OffByOne ==
    /\ Running
    /\ loop.at = "enter"
    /\ loop.kind = "DISCONNECTED"
    /\ s_retry_num <= MaxRetry
    /\ Connect
    /\ loop' = [loop EXCEPT !.at = "load"]
    /\ UNCHANGED <<callVars, groupVars, handlers, s_retry_num, fault>>

HandlerRetry ==
    /\ Running
    /\ loop.at = "enter"
    /\ loop.kind = "DISCONNECTED"
    /\ s_retry_num < MaxRetry
    /\ Connect
    /\ loop' = [loop EXCEPT !.at = "load"]
    /\ UNCHANGED <<callVars, groupVars, handlers, s_retry_num, fault>>

\* s_retry_num++ is a load and a store.
HandlerLoad ==
    /\ Running
    /\ loop.at = "load"
    /\ loop' = [loop EXCEPT !.at = "store", !.tmp = s_retry_num]
    /\ UNCHANGED <<stationVars, callVars, groupVars, handlers, s_retry_num,
                   fault>>
\* Seeded fault: the counter runs downwards.
HandlerStore_Down ==
    /\ Running
    /\ loop.at = "store"
    /\ s_retry_num' = loop.tmp - 1
    /\ NextInstance
    /\ UNCHANGED <<stationVars, callVars, groupVars, handlers, fault>>

HandlerStore ==
    /\ Running
    /\ loop.at = "store"
    /\ s_retry_num' = loop.tmp + 1
    /\ NextInstance
    /\ UNCHANGED <<stationVars, callVars, groupVars, handlers, fault>>

HandlerGiveUp ==
    /\ Running
    /\ loop.at = "enter"
    /\ loop.kind = "DISCONNECTED"
    /\ s_retry_num >= MaxRetry
    /\ loop' = [loop EXCEPT !.at = "group"]
    /\ UNCHANGED <<stationVars, callVars, groupVars, handlers, s_retry_num,
                   fault>>

HandlerGotIp ==
    /\ Running
    /\ loop.at = "enter"
    /\ loop.kind = "GOT_IP"
    /\ s_retry_num' = 0
    /\ loop' = [loop EXCEPT !.at = "group"]
    /\ UNCHANGED <<stationVars, callVars, groupVars, handlers, fault>>

\* if (s_evt_group)
HandlerCheckGroup ==
    /\ Running
    /\ loop.at = "group"
    /\ IF s_evt_group # NoGroup
       THEN loop' = [loop EXCEPT !.at = "set"]
       ELSE NextInstance
    /\ UNCHANGED <<stationVars, callVars, groupVars, handlers, s_retry_num,
                   fault>>

\* xEventGroupSetBits(s_evt_group, ...) reads the static once more.
HandlerSetBits ==
    /\ Running
    /\ loop.at = "set"
    /\ \/ /\ s_evt_group \in live
          /\ bits' = [bits EXCEPT ![s_evt_group] =
                 @ \cup {IF loop.kind = "GOT_IP" THEN "CONNECTED" ELSE "FAIL"}]
          /\ NextInstance
          /\ UNCHANGED <<pc, seen, waitOn, s_evt_group, live, fault>>
       \/ s_evt_group = NoGroup /\ Fault("assert")
       \/ s_evt_group \in Groups \ live /\ Fault("use_after_free")
    /\ UNCHANGED <<stationVars, target, joined, handlers, s_retry_num>>

Loop ==
    \/ Dispatch
    \/ HandlerRetry
    \/ HandlerLoad
    \/ HandlerStore
    \/ HandlerGiveUp
    \/ HandlerGotIp
    \/ HandlerCheckGroup
    \/ HandlerSetBits

---------------------------------------------------------------------------
\* The driver by itself, and the chip.

Joins ==
    /\ Running
    /\ GetIp
    /\ joined' = [c \in Callers |->
                     joined[c] \/ (Trying(c) /\ target[c] = sta.ap)]
    /\ UNCHANGED <<pc, target, waitOn, seen, groupVars, handlers,
                   s_retry_num, loop, fault>>

JoinRefused == Running /\ JoinFails /\ UNCHANGED taskVars

LinkDrops ==
    /\ Running
    /\ LoseLink
    /\ UNCHANGED taskVars

Driver == Joins \/ JoinRefused \/ LinkDrops

\* A failed assertion panics and the chip boots again; so it does after a
\* power cut.
Restart ==
    /\ config' = NoSsid
    /\ sta' = Idle
    /\ evq' = <<>>
    /\ pc' = [c \in Callers |-> "idle"]
    /\ target' = [c \in Callers |-> NoSsid]
    /\ waitOn' = [c \in Callers |-> NoGroup]
    /\ seen' = [c \in Callers |-> {}]
    /\ joined' = [c \in Callers |-> FALSE]
    /\ handlers' = {}
    /\ s_evt_group' = NoGroup
    /\ s_retry_num' = 0
    /\ live' = {}
    /\ bits' = [g \in Groups |-> {}]
    /\ loop' = LoopIdle
    /\ fault' = "none"

ManagerNext ==
    \/ \E c \in Callers :
         \/ \E ssid \in Ssids : Call(c, ssid)
         \/ Body(c)
         \/ Leave(c)
    \/ Loop
    \/ Driver
    \/ Restart

\* Every task of the chip runs when it can.  Strong fairness for a call: the
\* event loop's mutex and queue serve a waiting task, but may be taken and
\* given back many times before it looks.  Nothing makes a caller call, an
\* access point answer, a link drop or the chip restart.
ManagerFairness ==
    /\ \A c \in Callers : SF_managerVars(Body(c))
    /\ WF_managerVars(Loop)

ManagerSafety == ManagerInit /\ [][ManagerNext]_managerVars
ManagerSpec == ManagerSafety /\ ManagerFairness

---------------------------------------------------------------------------
\* Properties.

\* No assertion fails and no freed event group is touched: the wait, the
\* delete and the handler's set only meet the group of the call in progress
\* (wifi_manager.c:31, 39, 117, 125).
NoFault == fault = "none"

\* The plain accesses to s_evt_group and s_retry_num never overlap: while a
\* handler is between two of its own, no call is at one of its writes
\* (wifi_manager.c:86-87, 125-126 against 25-39).
NoDataRace ==
    loop.at # "idle" =>
        \A c \in Callers : pc[c] \notin {"create", "zero", "delete", "null"}

\* Between calls nothing is left behind: no group, no handler instance
\* (wifi_manager.c:123-126).
NothingLeftBehind ==
    (\A c \in Callers : ~Busy(c)) =>
        live = {} /\ handlers = {} /\ s_evt_group = NoGroup /\ loop = LoopIdle

\* ESP_OK is returned only if the requested network gave an address after
\* this call asked for it (wifi_manager.c:110-130).
OkMeansJoined == \A c \in Callers : pc[c] = "ok" => joined[c]

\* The retry budget is never exceeded (wifi_manager.c:25-27).
RetryBound == s_retry_num <= MaxRetry

\* Every call returns: the handler's verdict or the 30 s end the wait and
\* nothing after it blocks for ever (wifi_manager.c:117-132).
CallsReturn == \A c \in Callers : []<>~Busy(c)

=============================================================================
