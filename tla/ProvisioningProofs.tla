------------------------- MODULE ProvisioningProofs -------------------------
(***************************************************************************)
(* Theorems about WifiManager and about Provisioning, which extends it.    *)
(*                                                                         *)
(* First what holds of wifi_manager.c for any number of callers, networks, *)
(* heap blocks and retries.  With one call at a time (Serial) the event    *)
(* group is never misused, nothing is left behind and the statics are not  *)
(* raced for.  The argument is the ownership of the statics: the one call  *)
(* in progress owns them from "zero" to "null", handlers are registered    *)
(* only inside that span, and a handler runs only while they are           *)
(* registered.                                                             *)
(*                                                                         *)
(* Then, for any number of phones, networks, passwords and tasks: main.c   *)
(* calls wifi_manager.c as WifiManager lets its callers, so that all this  *)
(* holds in the firmware; and, with one attempt at a time, the firmware    *)
(* keeps the promise of ProvisioningPromise.                               *)
(***************************************************************************)
EXTENDS Provisioning, WifiManagerCalm, SequenceTheorems, TLAPS

\* The lines of a call at which the group it created is live, at which its
\* handlers are registered, and at which the statics hold nothing.
HoldsGroup == {"zero", "register", "config", "disconnect", "connect", "wait",
               "waiting", "unregister", "delete"}
HoldsHandlers == {"config", "disconnect", "connect", "wait", "waiting",
                  "unregister"}
HoldsNothing == {"create", "result"}

AtMostOneCall == \A c, d \in Callers : Busy(c) /\ Busy(d) => c = d

\* What the statics hold while c is in its call.
Owns(c) ==
    /\ pc[c] \in HoldsGroup => s_evt_group \in Groups /\ live = {s_evt_group}
    /\ pc[c] = "null" => live = {}
    /\ pc[c] \in HoldsNothing => live = {} /\ s_evt_group = NoGroup
    /\ handlers = IF pc[c] \in HoldsHandlers THEN {c} ELSE {}
    /\ pc[c] = "waiting" => waitOn[c] = s_evt_group

NobodyOwns == live = {} /\ s_evt_group = NoGroup /\ handlers = {}

\* A dispatch is under way only while the handlers it runs are registered.
LoopOwns ==
    IF loop.at = "idle" THEN loop = LoopIdle
    ELSE loop.todo # {} /\ loop.todo \subseteq handlers

Discipline ==
    /\ NoFault
    /\ AtMostOneCall
    /\ \A c \in Callers : Busy(c) => Owns(c)
    /\ (\A c \in Callers : ~Busy(c)) => NobodyOwns
    /\ LoopOwns

DisciplineInv == ManagerTypeOK /\ Discipline

---------------------------------------------------------------------------
\* ManagerTypeOK is an invariant of every behaviour, serial or not.

LEMMA TypeInit == ManagerInit => ManagerTypeOK
BY StationAssumption, ManagerAssumption
   DEF ManagerInit, ManagerTypeOK, StationInit, StationTypeOK, Idle, LoopIdle,
       LoopAt, Events, InCall, Results

\* What the driver's calls and its own steps do to its state.
LEMMA StationStep ==
    ASSUME StationTypeOK,
           \/ Disconnect \/ Connect \/ GetIp \/ JoinFails \/ LoseLink
           \/ \E ssid \in Ssids \cup {NoSsid} : SetConfig(ssid)
           \/ evq # <<>> /\ evq' = Tail(evq) /\ UNCHANGED <<config, sta>>
    PROVE  StationTypeOK'
BY StationAssumption
   DEF StationTypeOK, Disconnect, Connect, GetIp, JoinFails, LoseLink,
       SetConfig, Post, Events, Idle, stationVars

\* The handler's run ends.
LEMMA NextInstanceType ==
    ASSUME ManagerTypeOK, NextInstance
    PROVE  loop' \in [at : LoopAt, kind : Events, todo : SUBSET Callers, tmp : Nat]
<1>1. PICK h \in loop.todo :
        loop' = IF loop.todo = {h} THEN LoopIdle
                ELSE [loop EXCEPT !.at = "enter", !.todo = @ \ {h}, !.tmp = 0]
  BY DEF NextInstance
<1>2. CASE loop.todo = {h}
  BY <1>1, <1>2 DEF LoopIdle, LoopAt, Events
<1>3. CASE loop.todo # {h}
  <2>1. /\ loop \in [at : LoopAt, kind : Events, todo : SUBSET Callers, tmp : Nat]
        /\ loop.todo \ {h} \in SUBSET Callers
    BY DEF ManagerTypeOK
  <2>2. QED
    BY <1>1, <1>3, <2>1 DEF LoopAt
<1>4. QED
  BY <1>2, <1>3

LEMMA TypeStep == ManagerTypeOK /\ [ManagerNext]_managerVars => ManagerTypeOK'
<1> SUFFICES ASSUME ManagerTypeOK, [ManagerNext]_managerVars
             PROVE  ManagerTypeOK'
    OBVIOUS
<1> USE StationAssumption, ManagerAssumption
<1>1. ASSUME NEW c \in Callers, NEW ssid \in Ssids, Call(c, ssid)
      PROVE  ManagerTypeOK'
  BY <1>1 DEF Call, Enter, Goto, ManagerTypeOK, InCall, Results, StationTypeOK,
              stationVars, groupVars
<1>2. ASSUME NEW c \in Callers, CreateGroup(c)
      PROVE  ManagerTypeOK'
  BY <1>2 DEF CreateGroup, Goto, ManagerTypeOK, InCall, Results, StationTypeOK,
              stationVars, BitNames
<1>3. ASSUME NEW c \in Callers, ZeroRetry(c)
      PROVE  ManagerTypeOK'
  BY <1>3 DEF ZeroRetry, Goto, ManagerTypeOK, InCall, Results, StationTypeOK,
              stationVars, groupVars
<1>4. ASSUME NEW c \in Callers, Register(c) \/ Unregister(c)
      PROVE  ManagerTypeOK'
  BY <1>4 DEF Register, Unregister, Goto, ManagerTypeOK, InCall, Results,
              StationTypeOK, stationVars, groupVars
<1>5. ASSUME NEW c \in Callers, ApplyConfig(c) \/ DropOldLink(c) \/ FirstConnect(c)
      PROVE  ManagerTypeOK'
  <2>1. StationTypeOK'
    BY <1>5, StationStep
       DEF ApplyConfig, DropOldLink, FirstConnect, ManagerTypeOK
  <2>2. QED
    BY <1>5, <2>1 DEF ApplyConfig, DropOldLink, FirstConnect, Goto,
                      ManagerTypeOK, InCall, Results, groupVars
<1>6. ASSUME NEW c \in Callers, StartWait(c)
      PROVE  ManagerTypeOK'
  BY <1>6 DEF StartWait, Fault, ManagerTypeOK, InCall, Results, StationTypeOK,
              stationVars, groupVars
<1>7. ASSUME NEW c \in Callers, BitsArrive(c) \/ Timeout(c)
      PROVE  ManagerTypeOK'
  <2>1. bits[waitOn[c]] \in SUBSET BitNames
    BY <1>7 DEF BitsArrive, Timeout, Goto, ManagerTypeOK
  <2>2. seen' \in [Callers -> SUBSET BitNames]
    BY <1>7, <2>1 DEF BitsArrive, Timeout, ManagerTypeOK
  <2>3. QED
    BY <1>7, <2>2 DEF BitsArrive, Timeout, Goto, ManagerTypeOK, InCall, Results,
                      StationTypeOK, stationVars, groupVars
<1>8. ASSUME NEW c \in Callers, DeleteGroup(c)
      PROVE  ManagerTypeOK'
  BY <1>8 DEF DeleteGroup, Fault, ManagerTypeOK, InCall, Results,
              StationTypeOK, stationVars, groupVars, BitNames
<1>9. ASSUME NEW c \in Callers, ClearGroup(c) \/ Result(c)
      PROVE  ManagerTypeOK'
  BY <1>9 DEF ClearGroup, Result, Goto, ManagerTypeOK, InCall, Results,
              StationTypeOK, stationVars, groupVars
<1>10. ASSUME NEW c \in Callers, Leave(c)
       PROVE  ManagerTypeOK'
  BY <1>10 DEF Leave, ManagerTypeOK, InCall, Results, StationTypeOK,
               stationVars, groupVars
<1>11. CASE Dispatch
  <2>1. StationTypeOK'
    BY <1>11, StationStep DEF Dispatch, ManagerTypeOK
  <2>2. Head(evq) \in Events
    BY <1>11 DEF Dispatch, ManagerTypeOK, StationTypeOK
  <2>3. QED
    BY <1>11, <2>1, <2>2 DEF Dispatch, ManagerTypeOK, LoopAt, callVars, groupVars
<1>12. CASE HandlerRetry
  <2>1. StationTypeOK'
    BY <1>12, StationStep DEF HandlerRetry, ManagerTypeOK
  <2>2. QED
    BY <1>12, <2>1 DEF HandlerRetry, ManagerTypeOK, LoopAt, callVars, groupVars
<1>13. CASE HandlerLoad \/ HandlerGiveUp \/ HandlerGotIp
  <2>1. loop' \in [at : LoopAt, kind : Events, todo : SUBSET Callers, tmp : Nat]
    BY <1>13 DEF HandlerLoad, HandlerGiveUp, HandlerGotIp, ManagerTypeOK, LoopAt
  <2>2. QED
    BY <1>13, <2>1
       DEF HandlerLoad, HandlerGiveUp, HandlerGotIp, ManagerTypeOK,
           StationTypeOK, stationVars, callVars, groupVars
<1>14. CASE HandlerStore
  BY <1>14, NextInstanceType
     DEF HandlerStore, ManagerTypeOK, StationTypeOK, stationVars, callVars,
         groupVars
<1>15. CASE HandlerCheckGroup
  BY <1>15, NextInstanceType
     DEF HandlerCheckGroup, ManagerTypeOK, LoopAt, StationTypeOK, stationVars,
         callVars, groupVars
<1>16. CASE HandlerSetBits
  <2>1. bits' \in [Groups -> SUBSET BitNames]
    BY <1>16 DEF HandlerSetBits, Fault, ManagerTypeOK, groupVars, BitNames
  <2>2. loop' \in [at : LoopAt, kind : Events, todo : SUBSET Callers, tmp : Nat]
    BY <1>16, NextInstanceType DEF HandlerSetBits, Fault, ManagerTypeOK
  <2>3. QED
    BY <1>16, <2>1, <2>2
       DEF HandlerSetBits, Fault, ManagerTypeOK, StationTypeOK, stationVars,
           groupVars
<1>17. CASE Joins
  <2>1. StationTypeOK'
    BY <1>17, StationStep DEF Joins, ManagerTypeOK
  <2>2. QED
    BY <1>17, <2>1 DEF Joins, Trying, ManagerTypeOK, groupVars
<1>18. CASE JoinRefused \/ LinkDrops
  <2>1. StationTypeOK'
    BY <1>18, StationStep DEF JoinRefused, LinkDrops, ManagerTypeOK
  <2>2. QED
    BY <1>18, <2>1 DEF JoinRefused, LinkDrops, ManagerTypeOK, taskVars,
                       callVars, groupVars
<1>19. CASE Restart
  BY <1>19 DEF Restart, ManagerTypeOK, StationTypeOK, Idle, LoopIdle, LoopAt,
               Events, InCall, Results, BitNames
<1>20. CASE UNCHANGED managerVars
  BY <1>20 DEF managerVars, stationVars, taskVars, callVars, groupVars,
               ManagerTypeOK, StationTypeOK
<1>21. QED
  BY <1>1, <1>2, <1>3, <1>4, <1>5, <1>6, <1>7, <1>8, <1>9, <1>10, <1>11, <1>12,
     <1>13, <1>14, <1>15, <1>16, <1>17, <1>18, <1>19, <1>20
     DEF ManagerNext, Body, Loop, Driver

\* The statics, the locals and the driver keep their types.
THEOREM TypeCorrect == ManagerSafety => []ManagerTypeOK
BY TypeInit, TypeStep, PTL DEF ManagerSafety

---------------------------------------------------------------------------
\* One call at a time.

LEMMA DisciplineInit == ManagerInit => DisciplineInv
<1> SUFFICES ASSUME ManagerInit PROVE Discipline
  BY TypeInit DEF DisciplineInv
<1> QED
  BY DEF ManagerInit, Discipline, NoFault, AtMostOneCall, Busy, InCall,
         NobodyOwns, LoopOwns, LoopIdle

\* The call in progress goes on to its next line: what is left to show is
\* what it owns there.
LEMMA CallGoesOn ==
    ASSUME DisciplineInv, NEW c \in Callers, NEW to \in InCall, Busy(c),
           pc' = [pc EXCEPT ![c] = to],
           Owns(c)', NoFault', LoopOwns'
    PROVE  Discipline'
<1>1. \A d \in Callers : Busy(d)' <=> d = c
  BY DEF DisciplineInv, Discipline, AtMostOneCall, Busy, ManagerTypeOK
<1>2. QED
  BY <1>1 DEF Discipline, AtMostOneCall

\* A step that leaves the callers and the statics alone.
LEMMA NothingMoves ==
    ASSUME DisciplineInv, UNCHANGED <<pc, waitOn, s_evt_group, live, handlers>>,
           NoFault', LoopOwns'
    PROVE  Discipline'
BY DEF DisciplineInv, Discipline, AtMostOneCall, Busy, Owns, NobodyOwns

\* A handler that runs belongs to the call in progress, whose group is live.
LEMMA HandlerOwned ==
    ASSUME DisciplineInv, loop.at # "idle"
    PROVE  \E c \in Callers :
               /\ Busy(c)
               /\ pc[c] \in HoldsHandlers
               /\ handlers = {c} /\ loop.todo = {c}
               /\ s_evt_group \in Groups /\ live = {s_evt_group}
<1>1. handlers # {} /\ loop.todo \subseteq handlers /\ loop.todo # {}
  BY DEF DisciplineInv, Discipline, LoopOwns
<1>2. PICK c \in Callers : Busy(c)
  BY <1>1 DEF DisciplineInv, Discipline, NobodyOwns
<1>3. Owns(c)
  BY <1>2 DEF DisciplineInv, Discipline
<1>4. pc[c] \in HoldsHandlers /\ handlers = {c}
  BY <1>1, <1>3 DEF Owns
<1>5. QED
  BY <1>1, <1>2, <1>3, <1>4 DEF Owns, HoldsHandlers, HoldsGroup

LEMMA DisciplineStep ==
    ASSUME Serial = TRUE, DisciplineInv, [ManagerNext]_managerVars
    PROVE  DisciplineInv'
<1>0. ManagerTypeOK'
  BY TypeStep DEF DisciplineInv
<1> SUFFICES Discipline'
  BY <1>0 DEF DisciplineInv
<1> USE ManagerAssumption
<1>1. ASSUME NEW c \in Callers, NEW ssid \in Ssids, Call(c, ssid)
      PROVE  Discipline'
  <2>1. /\ \A d \in Callers : ~Busy(d)
        /\ pc' = [pc EXCEPT ![c] = "create"]
        /\ UNCHANGED <<waitOn, groupVars, handlers, loop, fault>>
    BY <1>1 DEF Call, MayCall, Enter, Goto
  <2>2. NobodyOwns
    BY <2>1 DEF DisciplineInv, Discipline
  <2>3. \A d \in Callers : Busy(d)' <=> d = c
    BY <2>1 DEF Busy, InCall, DisciplineInv, ManagerTypeOK
  <2>4. Owns(c)'
    BY <2>1, <2>2 DEF Owns, NobodyOwns, HoldsGroup, HoldsHandlers, groupVars,
                      DisciplineInv, ManagerTypeOK
  <2>5. NoFault' /\ LoopOwns'
    BY <2>1 DEF NoFault, LoopOwns, DisciplineInv, Discipline
  <2>6. QED
    BY <2>3, <2>4, <2>5 DEF Discipline, AtMostOneCall
<1>2. ASSUME NEW c \in Callers, CreateGroup(c)
      PROVE  Discipline'
  <2>1. /\ Busy(c) /\ pc[c] = "create"
        /\ pc' = [pc EXCEPT ![c] = "zero"]
        /\ UNCHANGED <<waitOn, handlers, loop, fault>>
    BY <1>2 DEF CreateGroup, Goto, Busy, InCall
  <2>2. live = {} /\ handlers = {}
    BY <2>1 DEF DisciplineInv, Discipline, Owns, HoldsNothing, HoldsHandlers
  <2>3. s_evt_group' \in Groups /\ live' = {s_evt_group'}
    BY <1>2, <2>2 DEF CreateGroup
  <2>4. Owns(c)'
    BY <2>1, <2>2, <2>3 DEF Owns, HoldsGroup, HoldsNothing, HoldsHandlers,
                            DisciplineInv, ManagerTypeOK
  <2>5. NoFault' /\ LoopOwns'
    BY <2>1 DEF NoFault, LoopOwns, DisciplineInv, Discipline
  <2>6. QED
    BY <2>1, <2>4, <2>5, CallGoesOn DEF InCall
<1>3. ASSUME NEW c \in Callers,
             ZeroRetry(c) \/ ApplyConfig(c) \/ DropOldLink(c) \/ FirstConnect(c)
      PROVE  Discipline'
  <2>1. PICK to \in {"register", "disconnect", "connect", "wait"} :
           /\ pc[c] = CASE to = "register" -> "zero"
                        [] to = "disconnect" -> "config"
                        [] to = "connect" -> "disconnect"
                        [] to = "wait" -> "connect"
           /\ pc' = [pc EXCEPT ![c] = to]
    BY <1>3 DEF ZeroRetry, ApplyConfig, DropOldLink, FirstConnect, Goto
  <2>2. UNCHANGED <<waitOn, groupVars, handlers, loop, fault>>
    BY <1>3 DEF ZeroRetry, ApplyConfig, DropOldLink, FirstConnect
  <2>3. Busy(c) /\ Owns(c)
    BY <2>1 DEF Busy, InCall, DisciplineInv, Discipline
  <2>4. Owns(c)'
    BY <2>1, <2>2, <2>3 DEF Owns, HoldsGroup, HoldsNothing, HoldsHandlers,
                            groupVars, DisciplineInv, ManagerTypeOK
  <2>5. NoFault' /\ LoopOwns'
    BY <2>2 DEF NoFault, LoopOwns, DisciplineInv, Discipline
  <2>6. QED
    BY <2>1, <2>3, <2>4, <2>5, CallGoesOn DEF InCall
<1>4. ASSUME NEW c \in Callers, Register(c)
      PROVE  Discipline'
  <2>1. /\ Busy(c) /\ pc[c] = "register"
        /\ pc' = [pc EXCEPT ![c] = "config"]
        /\ handlers' = handlers \cup {c}
        /\ loop.at = "idle"
        /\ UNCHANGED <<waitOn, groupVars, loop, fault>>
    BY <1>4 DEF Register, Goto, Busy, InCall
  <2>2. Owns(c)'
    BY <2>1 DEF Owns, HoldsGroup, HoldsNothing, HoldsHandlers, groupVars,
                DisciplineInv, Discipline, ManagerTypeOK
  <2>3. NoFault' /\ LoopOwns'
    BY <2>1 DEF NoFault, LoopOwns, DisciplineInv, Discipline
  <2>4. QED
    BY <2>1, <2>2, <2>3, CallGoesOn DEF InCall
<1>5. ASSUME NEW c \in Callers, StartWait(c)
      PROVE  Discipline'
  <2>1. Busy(c) /\ pc[c] = "wait"
    BY <1>5 DEF StartWait, Busy, InCall
  <2>2. s_evt_group \in live
    BY <2>1 DEF DisciplineInv, Discipline, Owns, HoldsGroup
  <2>3. /\ pc' = [pc EXCEPT ![c] = "waiting"]
        /\ waitOn' = [waitOn EXCEPT ![c] = s_evt_group]
        /\ UNCHANGED <<groupVars, handlers, loop, fault>>
    BY <1>5, <2>2 DEF StartWait, DisciplineInv, ManagerTypeOK
  <2>4. Owns(c)'
    BY <2>1, <2>3 DEF Owns, HoldsGroup, HoldsNothing, HoldsHandlers, groupVars,
                      DisciplineInv, Discipline, ManagerTypeOK
  <2>5. NoFault' /\ LoopOwns'
    BY <2>3 DEF NoFault, LoopOwns, DisciplineInv, Discipline
  <2>6. QED
    BY <2>1, <2>3, <2>4, <2>5, CallGoesOn DEF InCall
<1>6. ASSUME NEW c \in Callers, BitsArrive(c) \/ Timeout(c)
      PROVE  Discipline'
  <2>1. /\ Busy(c) /\ pc[c] = "waiting"
        /\ pc' = [pc EXCEPT ![c] = "unregister"]
        /\ UNCHANGED <<waitOn, groupVars, handlers, loop, fault>>
    BY <1>6 DEF BitsArrive, Timeout, Goto, Busy, InCall
  <2>2. Owns(c)'
    BY <2>1 DEF Owns, HoldsGroup, HoldsNothing, HoldsHandlers, groupVars,
                DisciplineInv, Discipline, ManagerTypeOK
  <2>3. NoFault' /\ LoopOwns'
    BY <2>1 DEF NoFault, LoopOwns, DisciplineInv, Discipline
  <2>4. QED
    BY <2>1, <2>2, <2>3, CallGoesOn DEF InCall
<1>7. ASSUME NEW c \in Callers, Unregister(c)
      PROVE  Discipline'
  <2>1. /\ Busy(c) /\ pc[c] = "unregister"
        /\ pc' = [pc EXCEPT ![c] = "delete"]
        /\ handlers' = handlers \ {c}
        /\ loop.at = "idle"
        /\ UNCHANGED <<waitOn, groupVars, loop, fault>>
    BY <1>7 DEF Unregister, Goto, Busy, InCall
  <2>2. Owns(c)'
    BY <2>1 DEF Owns, HoldsGroup, HoldsNothing, HoldsHandlers, groupVars,
                DisciplineInv, Discipline, ManagerTypeOK
  <2>3. NoFault' /\ LoopOwns'
    BY <2>1 DEF NoFault, LoopOwns, DisciplineInv, Discipline
  <2>4. QED
    BY <2>1, <2>2, <2>3, CallGoesOn DEF InCall
<1>8. ASSUME NEW c \in Callers, DeleteGroup(c)
      PROVE  Discipline'
  <2>1. Busy(c) /\ pc[c] = "delete"
    BY <1>8 DEF DeleteGroup, Busy, InCall
  <2>2. s_evt_group \in live /\ live = {s_evt_group} /\ handlers = {}
    BY <2>1 DEF DisciplineInv, Discipline, Owns, HoldsGroup, HoldsHandlers
  <2>3. \A d \in Callers : pc[d] # "waiting"
    BY <2>1 DEF DisciplineInv, Discipline, AtMostOneCall, Busy, InCall
  <2>4. /\ pc' = [d \in Callers |-> IF d = c THEN "null" ELSE pc[d]]
        /\ live' = {}
        /\ UNCHANGED <<waitOn, s_evt_group, handlers, loop, fault>>
    BY <1>8, <2>2, <2>3 DEF DeleteGroup, DisciplineInv, ManagerTypeOK
  <2>5. pc' = [pc EXCEPT ![c] = "null"]
    BY <2>4 DEF DisciplineInv, ManagerTypeOK
  <2>6. Owns(c)'
    BY <2>2, <2>4 DEF Owns, HoldsGroup, HoldsNothing, HoldsHandlers
  <2>7. NoFault' /\ LoopOwns'
    BY <2>4 DEF NoFault, LoopOwns, DisciplineInv, Discipline
  <2>8. QED
    BY <2>1, <2>5, <2>6, <2>7, CallGoesOn DEF InCall
<1>9. ASSUME NEW c \in Callers, ClearGroup(c)
      PROVE  Discipline'
  <2>1. /\ Busy(c) /\ pc[c] = "null"
        /\ pc' = [pc EXCEPT ![c] = "result"]
        /\ s_evt_group' = NoGroup
        /\ UNCHANGED <<waitOn, live, handlers, loop, fault>>
    BY <1>9 DEF ClearGroup, Goto, Busy, InCall
  <2>2. Owns(c)'
    BY <2>1 DEF Owns, HoldsGroup, HoldsNothing, HoldsHandlers, DisciplineInv,
                Discipline, ManagerTypeOK
  <2>3. NoFault' /\ LoopOwns'
    BY <2>1 DEF NoFault, LoopOwns, DisciplineInv, Discipline
  <2>4. QED
    BY <2>1, <2>2, <2>3, CallGoesOn DEF InCall
<1>10. ASSUME NEW c \in Callers, Result(c)
       PROVE  Discipline'
  <2>1. /\ Busy(c) /\ pc[c] = "result"
        /\ \E r \in Results : pc' = [pc EXCEPT ![c] = r]
        /\ UNCHANGED <<groupVars, handlers, loop, fault>>
    BY <1>10 DEF Result, Goto, Busy, InCall, Results
  <2>2. \A d \in Callers : ~Busy(d)'
    BY <2>1 DEF DisciplineInv, Discipline, AtMostOneCall, Busy, InCall, Results,
                ManagerTypeOK
  <2>3. NobodyOwns'
    BY <2>1 DEF DisciplineInv, Discipline, Owns, HoldsNothing, HoldsHandlers,
                NobodyOwns, groupVars
  <2>4. NoFault' /\ LoopOwns'
    BY <2>1 DEF NoFault, LoopOwns, DisciplineInv, Discipline
  <2>5. QED
    BY <2>2, <2>3, <2>4 DEF Discipline, AtMostOneCall
<1>11. ASSUME NEW c \in Callers, Leave(c)
       PROVE  Discipline'
  <2>1. /\ \A d \in Callers : Busy(d)' <=> Busy(d)
        /\ \A d \in Callers : Busy(d) => pc'[d] = pc[d] /\ waitOn'[d] = waitOn[d]
        /\ UNCHANGED <<groupVars, handlers, loop, fault>>
    BY <1>11 DEF Leave, Busy, InCall, Results, DisciplineInv, ManagerTypeOK
  <2>2. QED
    BY <2>1 DEF DisciplineInv, Discipline, NoFault, AtMostOneCall, Owns,
                NobodyOwns, LoopOwns, groupVars
<1>12. CASE Dispatch
  <2>1. LoopOwns'
    BY <1>12 DEF Dispatch, LoopOwns, DisciplineInv, Discipline
  <2>2. QED
    BY <1>12, <2>1, NothingMoves
       DEF Dispatch, NoFault, DisciplineInv, Discipline, callVars, groupVars
<1>13. CASE HandlerRetry \/ HandlerLoad \/ HandlerGiveUp \/ HandlerGotIp
  <2>1. LoopOwns'
    BY <1>13 DEF HandlerRetry, HandlerLoad, HandlerGiveUp, HandlerGotIp,
                 LoopOwns, DisciplineInv, Discipline, ManagerTypeOK
  <2>2. QED
    BY <1>13, <2>1, NothingMoves
       DEF HandlerRetry, HandlerLoad, HandlerGiveUp, HandlerGotIp, NoFault,
           DisciplineInv, Discipline, callVars, groupVars
<1>14. ASSUME NextInstance, loop.at # "idle", UNCHANGED <<handlers>>
       PROVE  LoopOwns'
  <2>1. PICK c \in Callers : loop.todo = {c}
    BY <1>14, HandlerOwned
  <2>2. PICK h \in loop.todo :
          loop' = IF loop.todo = {h} THEN LoopIdle
                  ELSE [loop EXCEPT !.at = "enter", !.todo = @ \ {h}, !.tmp = 0]
    BY <1>14 DEF NextInstance
  <2>3. loop' = LoopIdle
    BY <2>1, <2>2
  <2>4. QED
    BY <2>3 DEF LoopOwns, LoopIdle
<1>15. CASE HandlerStore \/ HandlerCheckGroup
  <2>1. CASE HandlerCheckGroup /\ s_evt_group # NoGroup
    <3>1. LoopOwns'
      BY <2>1 DEF HandlerCheckGroup, LoopOwns, DisciplineInv, Discipline,
                  ManagerTypeOK
    <3>2. QED
      BY <2>1, <3>1, NothingMoves
         DEF HandlerCheckGroup, NoFault, DisciplineInv, Discipline, callVars,
             groupVars
  <2>2. CASE NextInstance
    BY <1>14, <1>15, <2>2, NothingMoves
       DEF HandlerStore, HandlerCheckGroup, NoFault, DisciplineInv, Discipline,
           callVars, groupVars
  <2>3. QED
    BY <1>15, <2>1, <2>2 DEF HandlerStore, HandlerCheckGroup
<1>16. CASE HandlerSetBits
  <2>1. s_evt_group \in live
    BY <1>16, HandlerOwned DEF HandlerSetBits
  <2>2. NextInstance /\ UNCHANGED <<pc, waitOn, s_evt_group, live, handlers, fault>>
    BY <1>16, <2>1 DEF HandlerSetBits, DisciplineInv, ManagerTypeOK
  <2>3. QED
    BY <1>14, <1>16, <2>2, NothingMoves
       DEF HandlerSetBits, NoFault, DisciplineInv, Discipline
<1>17. CASE Driver
  <2>1. UNCHANGED <<pc, waitOn, groupVars, handlers, loop, fault>>
    BY <1>17 DEF Driver, Joins, JoinRefused, LinkDrops, taskVars, callVars
  <2>2. NoFault' /\ LoopOwns'
    BY <2>1 DEF NoFault, LoopOwns, DisciplineInv, Discipline
  <2>3. QED
    BY <2>1, <2>2, NothingMoves DEF groupVars
<1>18. CASE Restart
  BY <1>18 DEF Restart, Discipline, NoFault, AtMostOneCall, Busy, InCall,
               NobodyOwns, LoopOwns, LoopIdle
<1>19. CASE UNCHANGED managerVars
  <2>1. UNCHANGED <<pc, waitOn, groupVars, handlers, loop, fault>>
    BY <1>19 DEF managerVars, taskVars, callVars
  <2>2. NoFault' /\ LoopOwns'
    BY <2>1 DEF NoFault, LoopOwns, DisciplineInv, Discipline
  <2>3. QED
    BY <2>1, <2>2, NothingMoves DEF groupVars
<1>20. QED
  BY <1>1, <1>2, <1>3, <1>4, <1>5, <1>6, <1>7, <1>8, <1>9, <1>10, <1>11, <1>12,
     <1>13, <1>15, <1>16, <1>17, <1>18, <1>19
     DEF ManagerNext, Body, Loop

LEMMA DisciplineImplies ==
    ASSUME DisciplineInv
    PROVE  NoFault /\ NoDataRace /\ NothingLeftBehind
<1>1. NoFault
  BY DEF DisciplineInv, Discipline
<1>2. NoDataRace
  <2> SUFFICES ASSUME loop.at # "idle", NEW c \in Callers,
                      pc[c] \in {"create", "zero", "delete", "null"}
               PROVE  FALSE
    BY DEF NoDataRace
  <2>1. Busy(c)
    BY DEF Busy, InCall
  <2>2. QED
    BY <2>1, HandlerOwned
       DEF DisciplineInv, Discipline, AtMostOneCall, HoldsHandlers
<1>3. NothingLeftBehind
  <2> SUFFICES ASSUME \A c \in Callers : ~Busy(c)
               PROVE  NobodyOwns /\ loop = LoopIdle
    BY DEF NothingLeftBehind, NobodyOwns
  <2>1. NobodyOwns
    BY DEF DisciplineInv, Discipline
  <2>2. loop = LoopIdle
    BY HandlerOwned DEF DisciplineInv, Discipline, LoopOwns
  <2>3. QED
    BY <2>1, <2>2
<1>4. QED
  BY <1>1, <1>2, <1>3

LEMMA DisciplineHolds == ASSUME Serial = TRUE PROVE ManagerSafety => []DisciplineInv
<1>1. DisciplineInv /\ [ManagerNext]_managerVars => DisciplineInv'
  BY DisciplineStep
<1>2. QED
  BY <1>1, DisciplineInit, PTL DEF ManagerSafety

\* One call at a time is enough: the event group is never misused, the
\* statics are never raced for and nothing is left behind between calls.
THEOREM OneCallAtATime ==
    ASSUME Serial = TRUE
    PROVE  ManagerSafety => [](NoFault /\ NoDataRace /\ NothingLeftBehind)
<1>1. DisciplineInv => NoFault /\ NoDataRace /\ NothingLeftBehind
  BY DisciplineImplies
<1>2. QED
  BY <1>1, DisciplineHolds, PTL

\* A handler runs only while it is registered, and the call registers it
\* after it has written both statics and unregisters it before it writes
\* them again (wifi_manager.c:86-98, 123-126).
THEOREM StaticsNotRaced == ASSUME Serial = TRUE PROVE ManagerSafety => []NoDataRace
<1>1. DisciplineInv => NoDataRace
  BY DisciplineImplies
<1>2. QED
  BY <1>1, DisciplineHolds, PTL

\* A call that is over has deleted its group, cleared the static and
\* unregistered its handlers, however it ended (wifi_manager.c:123-126).
THEOREM CallsCleanUp == ASSUME Serial = TRUE PROVE ManagerSafety => []NothingLeftBehind
<1>1. DisciplineInv => NothingLeftBehind
  BY DisciplineImplies
<1>2. QED
  BY <1>1, DisciplineHolds, PTL

---------------------------------------------------------------------------
\* The retry budget, however many calls overlap.

RetryInv ==
    /\ ManagerTypeOK
    /\ RetryBound
    /\ loop.at = "load" => s_retry_num < MaxRetry
    /\ loop.at = "store" => loop.tmp < MaxRetry

\* A counter that is about to grow has room to.
LEMMA RetryStep == RetryInv /\ [ManagerNext]_managerVars => RetryInv'
<1> SUFFICES ASSUME RetryInv, [ManagerNext]_managerVars
             PROVE  RetryInv'
    OBVIOUS
<1> USE ManagerAssumption
<1>1. ManagerTypeOK /\ ManagerTypeOK'
  BY TypeStep DEF RetryInv
<1>2. CASE UNCHANGED <<s_retry_num, loop>>
  BY <1>1, <1>2 DEF RetryInv, RetryBound
<1>3. ASSUME NEW c \in Callers, ZeroRetry(c)
      PROVE  RetryInv'
  BY <1>1, <1>3 DEF ZeroRetry, RetryInv, RetryBound, ManagerTypeOK
<1>4. ASSUME NEW c \in Callers, Body(c) \/ Leave(c)
      PROVE  ZeroRetry(c) \/ UNCHANGED <<s_retry_num, loop>>
  BY <1>4 DEF Body, CreateGroup, Register, ApplyConfig,
              DropOldLink, FirstConnect, StartWait, BitsArrive, Timeout,
              Unregister, DeleteGroup, ClearGroup, Result, Leave, Fault
<1>5. ASSUME NextInstance
      PROVE  loop'.at \in {"enter", "idle"}
  <2>1. PICK h \in loop.todo :
          loop' = IF loop.todo = {h} THEN LoopIdle
                  ELSE [loop EXCEPT !.at = "enter", !.todo = @ \ {h}, !.tmp = 0]
    BY <1>5 DEF NextInstance
  <2>2. QED
    BY <1>1, <2>1 DEF LoopIdle, ManagerTypeOK
<1>6. CASE Dispatch
  BY <1>1, <1>6 DEF Dispatch, RetryInv, RetryBound
<1>7. CASE HandlerRetry
  BY <1>1, <1>7 DEF HandlerRetry, RetryInv, RetryBound, ManagerTypeOK
<1>8. CASE HandlerLoad
  BY <1>1, <1>8 DEF HandlerLoad, RetryInv, RetryBound, ManagerTypeOK
<1>9. CASE HandlerStore
  <2>1. s_retry_num' <= MaxRetry
    BY <1>1, <1>9 DEF HandlerStore, RetryInv, ManagerTypeOK
  <2>2. QED
    BY <1>1, <1>5, <1>9, <2>1 DEF HandlerStore, RetryInv, RetryBound
<1>10. CASE HandlerGiveUp \/ HandlerGotIp
  BY <1>1, <1>10
     DEF HandlerGiveUp, HandlerGotIp, RetryInv, RetryBound, ManagerTypeOK
<1>11. CASE HandlerCheckGroup \/ HandlerSetBits
  <2>1. /\ UNCHANGED s_retry_num
        /\ \/ NextInstance
           \/ UNCHANGED loop
           \/ loop' = [loop EXCEPT !.at = "set"]
    BY <1>11 DEF HandlerCheckGroup, HandlerSetBits, Fault
  <2>2. QED
    BY <1>1, <1>5, <2>1 DEF RetryInv, RetryBound, ManagerTypeOK
<1>12. CASE Restart
  BY <1>1, <1>12 DEF Restart, LoopIdle, RetryInv, RetryBound
<1>13. CASE Driver \/ UNCHANGED managerVars
  BY <1>2, <1>13 DEF Driver, Joins, JoinRefused, LinkDrops, managerVars, taskVars
<1>14. ASSUME NEW c \in Callers, NEW ssid \in Ssids, Call(c, ssid)
       PROVE  RetryInv'
  BY <1>2, <1>14 DEF Call, Enter
<1>15. ASSUME NEW c \in Callers, Body(c) \/ Leave(c)
       PROVE  RetryInv'
  BY <1>2, <1>3, <1>4, <1>15
<1>16. QED
  BY <1>6, <1>7, <1>8, <1>9, <1>10, <1>11, <1>12, <1>13, <1>14, <1>15
     DEF ManagerNext, Loop

\* wifi_event_handler never spends more than WIFI_CONNECT_RETRY retries,
\* even when calls overlap and one zeroes the counter between the load and
\* the store of another's increment.
THEOREM RetryBounded == ManagerSafety => []RetryBound
<1>1. ManagerInit => RetryInv
  BY TypeInit, ManagerAssumption
     DEF RetryInv, ManagerInit, RetryBound, LoopIdle
<1>2. RetryInv => RetryBound
  BY DEF RetryInv
<1>3. QED
  BY <1>1, <1>2, RetryStep, PTL DEF ManagerSafety

---------------------------------------------------------------------------
\* What ESP_OK means.

\* The driver says, or is about to say, that the station has an address.
GotIpComes ==
    \/ \E k \in 1..Len(evq) : evq[k] = "GOT_IP"
    \/ loop.at # "idle" /\ loop.kind = "GOT_IP"
    \/ "CONNECTED" \in bits[s_evt_group]

\* A calm call finds the station as it wants it, line by line: nothing is
\* under way until it lets go of the old link, what comes then is from the
\* network it asked for, and what it has seen has come.
Calm(c) ==
    /\ pc[c] \in {"create", "zero", "register", "config", "disconnect"} => Quiet
    /\ pc[c] \in {"zero", "register", "config", "disconnect"} => bits[s_evt_group] = {}
    /\ pc[c] = "disconnect" => config = target[c]
    /\ Trying(c) =>
          /\ config = target[c]
          /\ sta.state # "idle" => sta.ap = target[c]
          /\ GotIpComes => joined[c]
    /\ pc[c] \in {"unregister", "delete", "null", "result"} =>
          ("CONNECTED" \in seen[c] => joined[c])
    /\ pc[c] = "ok" => joined[c]

CalmInv ==
    /\ DisciplineInv
    /\ calm \in [Callers -> BOOLEAN]
    /\ \A c \in Callers : calm[c] => Calm(c)

\* An event that comes out of the queue was in it, and one that goes in is
\* the only new one.
LEMMA QueueTail ==
    ASSUME evq \in Seq(Events), evq # <<>>
    PROVE  /\ Head(evq) = evq[1] /\ 1 \in 1..Len(evq)
           /\ \A k \in 1..Len(Tail(evq)) :
                 k + 1 \in 1..Len(evq) /\ Tail(evq)[k] = evq[k + 1]
<1>1. /\ Len(evq) \in Nat /\ Len(evq) > 0
      /\ Len(Tail(evq)) = Len(evq) - 1
      /\ \A k \in 1..Len(Tail(evq)) : Tail(evq)[k] = evq[k + 1]
  BY HeadTailProperties, EmptySeq, LenProperties
<1>2. QED
  BY <1>1

LEMMA QueueAppend ==
    ASSUME evq \in Seq(Events), NEW event \in Events, evq' = Append(evq, event)
    PROVE  \A k \in 1..Len(evq') :
              evq'[k] = event \/ (k \in 1..Len(evq) /\ evq'[k] = evq[k])
<1>1. /\ Len(evq') = Len(evq) + 1 /\ Len(evq) \in Nat
      /\ evq'[Len(evq) + 1] = event
      /\ \A k \in 1..Len(evq) : evq'[k] = evq[k]
  BY AppendProperties, LenProperties
<1>2. \A k \in 1..Len(evq') : k \in 1..Len(evq) \/ k = Len(evq) + 1
  BY <1>1
<1>3. QED
  BY <1>1, <1>2

\* What a call sees is not touched.
LEMMA CalmFrame ==
    ASSUME NEW c \in Callers, Calm(c),
           pc'[c] = pc[c], target'[c] = target[c], seen'[c] = seen[c],
           joined'[c] = joined[c],
           UNCHANGED <<stationVars, groupVars, loop>>
    PROVE  Calm(c)'
BY DEF Calm, Quiet, Trying, GotIpComes, stationVars, groupVars

\* A call that has no use for news any more, or never had.
LEMMA CalmDone ==
    ASSUME NEW c \in Callers, Calm(c),
           pc[c] \in {"unregister", "delete", "null", "result", "ok", "fail", "idle"},
           pc'[c] = pc[c], seen'[c] = seen[c], joined[c] => joined'[c]
    PROVE  Calm(c)'
BY DEF Calm, Trying

\* A call that waits for news hears of its own network only.
LEMMA CalmTrying ==
    ASSUME NEW c \in Callers, Calm(c), Trying(c), pc'[c] = pc[c],
           target'[c] = target[c], config' = config, joined[c] => joined'[c],
           sta'.state # "idle" => sta'.ap = target[c],
           GotIpComes' => GotIpComes \/ joined'[c]
    PROVE  Calm(c)'
BY DEF Calm, Trying

\* esp_wifi_connect joins the network that is configured.
LEMMA ConnectJoins ==
    ASSUME StationTypeOK, Connect, NEW ssid, config = ssid,
           sta.state # "idle" => sta.ap = ssid
    PROVE  /\ config' = config /\ evq' = evq
           /\ sta'.state # "idle" => sta'.ap = ssid
BY DEF Connect, stationVars

\* The call's own lines.
LEMMA CalmBody ==
    ASSUME DisciplineInv, DisciplineInv', NEW c \in Callers, Calm(c), Body(c)
    PROVE  Calm(c)'
<1> USE ManagerAssumption
<1>1. ManagerTypeOK /\ StationTypeOK /\ NoFault /\ NoFault' /\ fault' = fault
  BY DEF DisciplineInv, Discipline, ManagerTypeOK, NoFault
<1>2. Busy(c) => Owns(c)
  BY DEF DisciplineInv, Discipline
<1>3. CASE CreateGroup(c)
  <2>1. pc[c] = "create" /\ pc'[c] = "zero" /\ stationVars' = stationVars /\ loop' = loop
    BY <1>1, <1>3 DEF CreateGroup, Goto, ManagerTypeOK
  <2>2. live = {}
    BY <1>2, <2>1 DEF Busy, InCall, Owns, HoldsNothing
  <2>3. bits'[s_evt_group'] = {}
    BY <1>1, <1>3, <2>2 DEF CreateGroup, ManagerTypeOK
  <2>4. QED
    BY <2>1, <2>3 DEF Calm, Quiet, Trying, stationVars
<1>4. CASE ZeroRetry(c) \/ Register(c)
  <2>1. /\ pc[c] \in {"zero", "register"} /\ pc'[c] \in {"register", "config"}
        /\ UNCHANGED <<stationVars, groupVars, loop>>
    BY <1>1, <1>4 DEF ZeroRetry, Register, Goto, ManagerTypeOK
  <2>2. QED
    BY <2>1 DEF Calm, Quiet, Trying, stationVars, groupVars
<1>5. CASE ApplyConfig(c)
  <2>1. /\ pc[c] = "config" /\ pc'[c] = "disconnect" /\ target' = target
        /\ config' = target[c] /\ UNCHANGED <<sta, evq, groupVars, loop>>
    BY <1>1, <1>5 DEF ApplyConfig, SetConfig, Goto, ManagerTypeOK
  <2>2. QED
    BY <2>1 DEF Calm, Quiet, Trying, groupVars
<1>6. CASE DropOldLink(c)
  <2>1. /\ pc[c] = "disconnect" /\ pc'[c] = "connect" /\ target' = target
        /\ Disconnect /\ UNCHANGED <<groupVars, loop>>
    BY <1>1, <1>6 DEF DropOldLink, Goto, ManagerTypeOK
  <2>2. /\ sta.state # "connecting" /\ evq = <<>> /\ loop.at = "idle"
        /\ bits[s_evt_group] = {} /\ config = target[c]
    BY <2>1 DEF Calm, Quiet
  <2>3. config' = config /\ sta'.state = "idle"
    BY <2>1 DEF Disconnect, Idle, stationVars
  <2>4. \A k \in 1..Len(evq') : evq'[k] # "GOT_IP"
    <3>1. CASE evq' = evq
      BY <2>2, <3>1
    <3>2. CASE evq' = Append(evq, "DISCONNECTED")
      <4>1. evq \in Seq(Events) /\ "DISCONNECTED" \in Events
        BY <1>1 DEF StationTypeOK, Events
      <4>2. \A k \in 1..Len(evq') : evq'[k] = "DISCONNECTED" \/ k \in 1..Len(evq)
        BY <3>2, <4>1, QueueAppend
      <4>3. QED
        BY <2>2, <4>2
    <3>3. QED
      BY <2>1, <3>1, <3>2 DEF Disconnect, Post, stationVars
  <2>5. ~GotIpComes'
    BY <2>1, <2>2, <2>4 DEF GotIpComes, groupVars
  <2>6. QED
    BY <2>1, <2>2, <2>3, <2>5 DEF Calm, Trying
<1>7. CASE FirstConnect(c)
  <2>1. /\ pc[c] = "connect" /\ pc'[c] = "wait" /\ target' = target
        /\ joined' = joined
        /\ Connect /\ UNCHANGED <<groupVars, loop>>
    BY <1>1, <1>7 DEF FirstConnect, Goto, ManagerTypeOK
  <2>2. /\ config = target[c] /\ (sta.state # "idle" => sta.ap = target[c])
        /\ GotIpComes => joined[c]
    BY <2>1 DEF Calm, Trying
  <2>3. /\ config' = config /\ evq' = evq /\ (sta'.state # "idle" => sta'.ap = target[c])
    BY <1>1, <2>1, <2>2, ConnectJoins
  <2>4. GotIpComes' => GotIpComes
    BY <2>1, <2>3 DEF GotIpComes, groupVars
  <2>5. QED
    BY <2>1, <2>2, <2>3, <2>4 DEF Calm, Trying
<1>8. CASE StartWait(c)
  <2>1. pc[c] = "wait" /\ s_evt_group \in live
    BY <1>2, <1>8 DEF StartWait, Busy, InCall, Owns, HoldsGroup
  <2>2. /\ pc'[c] = "waiting" /\ target' = target /\ joined' = joined
        /\ UNCHANGED <<stationVars, groupVars, loop>>
    BY <1>1, <1>8, <2>1 DEF StartWait, ManagerTypeOK
  <2>3. GotIpComes' => GotIpComes
    BY <2>2 DEF GotIpComes, stationVars, groupVars
  <2>4. QED
    BY <2>1, <2>2, <2>3 DEF Calm, Trying, stationVars
<1>9. CASE BitsArrive(c) \/ Timeout(c)
  <2>1. pc[c] = "waiting" /\ pc'[c] = "unregister" /\ joined' = joined
    BY <1>1, <1>9 DEF BitsArrive, Timeout, Goto, ManagerTypeOK
  <2>2. waitOn[c] = s_evt_group
    BY <1>2, <2>1 DEF Busy, InCall, Owns
  <2>3. seen'[c] = bits[s_evt_group] \/ seen'[c] = {}
    BY <1>1, <1>9, <2>2 DEF BitsArrive, Timeout, ManagerTypeOK
  <2>4. "CONNECTED" \in bits[s_evt_group] => joined[c]
    BY <2>1 DEF Calm, Trying, GotIpComes
  <2>5. QED
    BY <2>1, <2>3, <2>4 DEF Calm, Trying
<1>10. CASE Unregister(c) \/ DeleteGroup(c) \/ ClearGroup(c)
  <2>1. /\ pc[c] \in {"unregister", "delete", "null"}
        /\ pc'[c] \in {"delete", "null", "result"}
        /\ seen'[c] = seen[c] /\ joined' = joined
    BY <1>1, <1>10 DEF Unregister, DeleteGroup, ClearGroup, Goto, Fault, NoFault, ManagerTypeOK
  <2>2. QED
    BY <2>1 DEF Calm, Trying
<1>11. CASE Result(c)
  <2>1. /\ pc[c] = "result" /\ joined' = joined
        /\ pc'[c] = IF "CONNECTED" \in seen[c] THEN "ok" ELSE "fail"
    BY <1>1, <1>11 DEF Result, Goto, ManagerTypeOK
  <2>2. QED
    BY <2>1 DEF Calm, Trying
<1>12. QED
  BY <1>3, <1>4, <1>5, <1>6, <1>7, <1>8, <1>9, <1>10, <1>11 DEF Body

\* The event loop: what it dispatches was in the queue, what a handler says
\* is what it was dispatched for.
LEMMA CalmLoop ==
    ASSUME DisciplineInv, DisciplineInv', NEW c \in Callers, Calm(c), Loop
    PROVE  Calm(c)'
<1>1. ManagerTypeOK /\ StationTypeOK /\ NoFault' /\ fault' = fault
  BY DEF DisciplineInv, Discipline, ManagerTypeOK, NoFault
<1>2. UNCHANGED <<pc, target, seen, joined>> /\ config' = config
  BY <1>1 DEF Loop, Dispatch, HandlerRetry, HandlerLoad, HandlerStore, HandlerGiveUp,
     HandlerGotIp, HandlerCheckGroup, HandlerSetBits, Fault, NoFault, callVars,
     stationVars, Connect
<1>3. CASE pc[c] \in {"create", "zero", "register", "config", "disconnect"}
  BY <1>3 DEF Calm, Quiet, Loop, Dispatch, HandlerRetry, HandlerLoad, HandlerStore,
     HandlerGiveUp, HandlerGotIp, HandlerCheckGroup, HandlerSetBits
<1>4. CASE pc[c] \in {"unregister", "delete", "null", "result", "ok", "fail", "idle"}
  BY <1>2, <1>4, CalmDone
<1>5. CASE Trying(c)
  <2>1. /\ config = target[c] /\ (sta.state # "idle" => sta.ap = target[c])
    BY <1>5 DEF Calm
  <2>2. ASSUME UNCHANGED <<sta, evq, s_evt_group, bits>>,
               loop'.at # "idle" => loop.at # "idle" /\ loop'.kind = loop.kind
        PROVE  Calm(c)'
    <3>1. GotIpComes' => GotIpComes
      BY <2>2 DEF GotIpComes
    <3>2. QED
      BY <1>2, <1>5, <2>1, <2>2, <3>1, CalmTrying
  <2>3. ASSUME NextInstance, loop.at # "idle"
        PROVE  loop'.at # "idle" => loop.at # "idle" /\ loop'.kind = loop.kind
    BY <1>1, <2>3 DEF NextInstance, LoopIdle, ManagerTypeOK
  <2>4. CASE Dispatch
    <3>1. evq \in Seq(Events) /\ evq # <<>> /\ evq' = Tail(evq) /\ loop.at = "idle"
          /\ UNCHANGED <<sta, s_evt_group, bits>>
      BY <1>1, <2>4 DEF Dispatch, StationTypeOK, groupVars
    <3>2. loop'.at # "idle" => loop'.kind = Head(evq)
      BY <2>4, <3>1 DEF Dispatch
    <3>3. /\ Head(evq) = evq[1] /\ 1 \in 1..Len(evq)
          /\ \A k \in 1..Len(evq') : k + 1 \in 1..Len(evq) /\ evq'[k] = evq[k + 1]
      BY <3>1, QueueTail
    <3>4. GotIpComes' => GotIpComes
      BY <3>1, <3>2, <3>3 DEF GotIpComes
    <3>5. QED
      BY <1>2, <1>5, <2>1, <3>1, <3>4, CalmTrying
  <2>5. CASE HandlerRetry
    <3>1. /\ loop.at = "enter" /\ loop' = [loop EXCEPT !.at = "load"] /\ Connect
          /\ UNCHANGED <<s_evt_group, bits>>
      BY <2>5 DEF HandlerRetry, groupVars
    <3>2. /\ config' = config /\ evq' = evq /\ (sta'.state # "idle" => sta'.ap = target[c])
      BY <1>1, <2>1, <3>1, ConnectJoins
    <3>3. loop'.kind = loop.kind
      BY <1>1, <3>1 DEF ManagerTypeOK
    <3>4. GotIpComes' => GotIpComes
      BY <3>1, <3>2, <3>3 DEF GotIpComes
    <3>5. QED
      BY <1>2, <1>5, <3>2, <3>4, CalmTrying
  <2>6. CASE HandlerLoad \/ HandlerGiveUp \/ HandlerGotIp
    <3>1. /\ loop.at # "idle" /\ loop'.kind = loop.kind
          /\ UNCHANGED <<sta, evq, s_evt_group, bits>>
      BY <1>1, <2>6 DEF HandlerLoad, HandlerGiveUp, HandlerGotIp, ManagerTypeOK,
         stationVars, groupVars
    <3>2. QED
      BY <2>2, <3>1
  <2>7. CASE HandlerStore \/ HandlerCheckGroup
    <3>1. /\ loop.at # "idle"
          /\ NextInstance \/ loop' = [loop EXCEPT !.at = "set"]
          /\ UNCHANGED <<sta, evq, s_evt_group, bits>>
      BY <2>7 DEF HandlerStore, HandlerCheckGroup, stationVars, groupVars
    <3>2. QED
      BY <1>1, <2>2, <2>3, <3>1 DEF ManagerTypeOK
  <2>8. CASE HandlerSetBits
    <3>1. loop.at = "set" /\ s_evt_group \in live
      BY <2>8, HandlerOwned DEF HandlerSetBits
    <3>2. /\ bits' = [bits EXCEPT ![s_evt_group] =
                @ \cup {IF loop.kind = "GOT_IP" THEN "CONNECTED" ELSE "FAIL"}]
          /\ NextInstance
          /\ UNCHANGED <<sta, evq, s_evt_group>>
      BY <1>1, <2>8, <3>1, ManagerAssumption DEF HandlerSetBits, Fault, stationVars, ManagerTypeOK
    <3>3. "CONNECTED" \in bits'[s_evt_group] =>
             "CONNECTED" \in bits[s_evt_group] \/ loop.kind = "GOT_IP"
      BY <1>1, <3>1, <3>2 DEF ManagerTypeOK
    <3>4. GotIpComes' => GotIpComes
      BY <2>3, <3>1, <3>2, <3>3 DEF GotIpComes
    <3>5. QED
      BY <1>2, <1>5, <2>1, <3>2, <3>4, CalmTrying
  <2>9. QED
    BY <2>4, <2>5, <2>6, <2>7, <2>8 DEF Loop
<1>6. QED
  BY <1>1, <1>3, <1>4, <1>5 DEF ManagerTypeOK, Trying, InCall, Results

\* The driver: an address for the network that is being joined.
LEMMA CalmDriver ==
    ASSUME DisciplineInv, NEW c \in Callers, Calm(c), Driver,
           ~(sta.state = "up" /\ sta' = Idle /\ pc' = pc)
    PROVE  Calm(c)'
<1>1. ManagerTypeOK /\ StationTypeOK
  BY DEF DisciplineInv, ManagerTypeOK
<1>2. ~LinkDrops
  BY DEF LinkDrops, LoseLink, taskVars, callVars
<1>3. /\ UNCHANGED <<pc, target, seen, config, loop, s_evt_group, bits>>
      /\ joined[c] => joined'[c]
      /\ sta.state = "connecting"
  BY <1>1, <1>2 DEF Driver, Joins, JoinRefused, GetIp, JoinFails, taskVars, callVars,
     groupVars, ManagerTypeOK
<1>4. CASE pc[c] \in {"create", "zero", "register", "config", "disconnect"}
  BY <1>3, <1>4 DEF Calm, Quiet
<1>5. CASE pc[c] \in {"unregister", "delete", "null", "result", "ok", "fail", "idle"}
  BY <1>3, <1>5, CalmDone
<1>6. CASE Trying(c)
  <2>1. sta.ap = target[c] /\ evq \in Seq(Events)
    BY <1>1, <1>3, <1>6 DEF Calm, StationTypeOK
  <2>2. CASE Joins
    <3>1. joined'[c]
      BY <1>1, <1>6, <2>1, <2>2 DEF Joins, ManagerTypeOK
    <3>2. sta'.ap = target[c]
      BY <1>1, <1>3, <2>1, <2>2 DEF Joins, GetIp, StationTypeOK, Idle
    <3>3. QED
      BY <1>3, <1>6, <3>1, <3>2, CalmTrying
  <2>3. CASE JoinRefused
    <3>1. sta'.state = "idle" /\ evq' = Append(evq, "DISCONNECTED") /\ joined' = joined
      BY <2>3 DEF JoinRefused, JoinFails, Post, Idle, taskVars, callVars
    <3>2. \A k \in 1..Len(evq') :
             evq'[k] = "DISCONNECTED" \/ (k \in 1..Len(evq) /\ evq'[k] = evq[k])
      BY <2>1, <3>1, QueueAppend DEF Events
    <3>3. GotIpComes' => GotIpComes
      BY <1>3, <3>2 DEF GotIpComes
    <3>4. QED
      BY <1>3, <1>6, <3>1, <3>3, CalmTrying
  <2>4. QED
    BY <1>2, <2>2, <2>3 DEF Driver
<1>7. QED
  BY <1>1, <1>4, <1>5, <1>6 DEF ManagerTypeOK, Trying, InCall, Results

LEMMA CalmStep ==
    ASSUME Serial = TRUE, CalmInv, CalmNext
    PROVE  CalmInv'
<1>1. ManagerNext /\ DisciplineInv /\ DisciplineInv' /\ ManagerTypeOK
  BY DisciplineStep DEF CalmInv, CalmNext, DisciplineInv
<1>2. calm' \in [Callers -> BOOLEAN]
  BY DEF CalmInv, CalmNext
<1>3. ASSUME NEW c \in Callers, calm'[c] PROVE Calm(c)'
  <2>1. CASE pc[c] = "idle"
    <3>1. pc'[c] \in InCall /\ Quiet
      BY <1>3, <2>1 DEF CalmNext
    <3>2. PICK ssid \in Ssids : Call(c, ssid)
      BY <1>1, <2>1, <3>1 DEF ManagerNext, Call, Enter, Body, CreateGroup, ZeroRetry,
         Register, ApplyConfig, DropOldLink, FirstConnect, StartWait, BitsArrive,
         Timeout, Unregister, DeleteGroup, ClearGroup, Result, Leave, Goto, Fault,
         Loop, Dispatch, HandlerRetry, HandlerLoad, HandlerStore, HandlerGiveUp,
         HandlerGotIp, HandlerCheckGroup, HandlerSetBits, Driver, Joins, JoinRefused,
         LinkDrops, Restart, taskVars, callVars, ManagerTypeOK, InCall, Results
    <3>3. pc'[c] = "create" /\ UNCHANGED <<stationVars, loop>>
      BY <1>1, <3>2 DEF Call, Enter, Goto, ManagerTypeOK
    <3>4. QED
      BY <3>1, <3>3 DEF Calm, Quiet, Trying, stationVars
  <2>2. CASE pc[c] # "idle"
    <3>1. /\ pc'[c] # "idle" /\ calm[c]
          /\ ~(sta.state = "up" /\ sta' = Idle /\ pc' = pc)
      BY <1>3, <2>2 DEF CalmNext
    <3>2. Calm(c)
      BY <3>1 DEF CalmInv
    <3>3. ASSUME NEW d \in Callers, NEW ssid \in Ssids, Call(d, ssid) PROVE Calm(c)'
      <4>1. ~Busy(c) /\ d # c
        BY <2>2, <3>3 DEF Call, MayCall, Enter, Goto
      <4>2. /\ pc'[c] = pc[c] /\ target'[c] = target[c]
            /\ UNCHANGED <<seen, joined, stationVars, groupVars, loop>>
        BY <1>1, <3>3, <4>1 DEF Call, Enter, Goto, ManagerTypeOK
      <4>3. QED
        BY <3>2, <4>2, CalmFrame
    <3>4. ASSUME NEW d \in Callers, Body(d) PROVE Calm(c)'
      <4>1. CASE d = c
        BY <1>1, <3>2, <3>4, <4>1, CalmBody
      <4>2. CASE d # c
        <5>1. Busy(d)
          BY <3>4 DEF Body, CreateGroup, ZeroRetry, Register, ApplyConfig, DropOldLink,
             FirstConnect, StartWait, BitsArrive, Timeout, Unregister, DeleteGroup,
             ClearGroup, Result, Goto, Busy, InCall
        <5>2. pc[c] \in {"ok", "fail"}
          BY <1>1, <2>2, <4>2, <5>1 DEF DisciplineInv, Discipline, AtMostOneCall, Busy,
             ManagerTypeOK, Results
        <5>3. pc'[c] = pc[c] /\ joined' = joined /\ seen'[c] = seen[c]
          BY <1>1, <3>4, <4>2, <5>2 DEF Body, CreateGroup, ZeroRetry, Register, ApplyConfig,
             DropOldLink, FirstConnect, StartWait, BitsArrive, Timeout, Unregister,
             DeleteGroup, ClearGroup, Result, Goto, Fault, ManagerTypeOK
        <5>4. QED
          BY <3>2, <5>2, <5>3, CalmDone
      <4>3. QED
        BY <4>1, <4>2
    <3>5. ASSUME NEW d \in Callers, Leave(d) PROVE Calm(c)'
      <4>1. d # c
        BY <1>1, <3>1, <3>5 DEF Leave, ManagerTypeOK
      <4>2. /\ pc'[c] = pc[c] /\ target'[c] = target[c] /\ seen'[c] = seen[c]
            /\ joined'[c] = joined[c] /\ UNCHANGED <<stationVars, groupVars, loop>>
        BY <1>1, <3>5, <4>1 DEF Leave, ManagerTypeOK
      <4>3. QED
        BY <3>2, <4>2, CalmFrame
    <3>6. ~Restart
      BY <3>1 DEF Restart
    <3>7. QED
      BY <1>1, <3>1, <3>2, <3>3, <3>4, <3>5, <3>6, CalmLoop, CalmDriver DEF ManagerNext
  <2>3. QED
    BY <2>1, <2>2
<1>4. QED
  BY <1>1, <1>2, <1>3 DEF CalmInv

\* With one call at a time, a call that begins from a quiet station and
\* whose links do not drop returns ESP_OK only for the network it was asked
\* for: no event of another network, queued, being handled or already turned
\* into a bit, can reach it (wifi_manager.c:110-130).
THEOREM OkIsOurs == ASSUME Serial = TRUE PROVE CalmSafety => []CalmOkMeansJoined
<1>1. CalmInit => CalmInv
  BY DisciplineInit DEF CalmInit, CalmInv
<1>2. CalmInv /\ [CalmNext]_<<managerVars, calm>> => CalmInv'
  <2> SUFFICES ASSUME CalmInv, [CalmNext]_<<managerVars, calm>> PROVE CalmInv'
    OBVIOUS
  <2>1. CASE CalmNext
    BY <2>1, CalmStep
  <2>2. CASE UNCHANGED <<managerVars, calm>>
    <3>1. DisciplineInv'
      BY <2>2, DisciplineStep DEF CalmInv
    <3>2. UNCHANGED <<pc, target, seen, joined, stationVars, groupVars, loop, calm>>
      BY <2>2 DEF managerVars, taskVars, callVars
    <3>3. ASSUME NEW c \in Callers, calm[c] PROVE Calm(c)'
      BY <3>2, <3>3, CalmFrame DEF CalmInv
    <3>4. QED
      BY <3>1, <3>2, <3>3 DEF CalmInv
  <2>3. QED
    BY <2>1, <2>2
<1>3. CalmInv => CalmOkMeansJoined
  BY DEF CalmInv, Calm, CalmOkMeansJoined
<1>4. QED
  BY <1>1, <1>2, <1>3, PTL DEF CalmSafety

---------------------------------------------------------------------------
\* The inductive invariant.

\* Where a task is tells where its call is: it has none before it calls, and
\* keeps the result from the save to the end.
Places ==
    /\ \A w \in Workers :
          /\ task[w] \in {"free", "announce"} => pc[w] = "idle"
          /\ task[w] \in {"save_pass", "report", "give"} => pc[w] = "ok"
    /\ stage # "call" => pc[AppMain] = "idle"

\* A connect_wifi_task has a whole credential.
CredsGiven == \A w \in Workers : task[w] # "free" => cred[w] \in Creds

\* Nobody can find the device before ble_prov_start.
NotYetFound ==
    stage = "boot" => ~synced /\ ~advertising /\ s_conn_handle = NoPhone

\* One attempt at a time, the one at boot included.
OneAttempt ==
    /\ \A w, v \in Workers : task[w] # "free" /\ task[v] # "free" => w = v
    /\ stage \in {"boot", "load", "call"} => \A w \in Workers : task[w] = "free"

UseInv ==
    /\ TypeOK
    /\ Places
    /\ CredsGiven
    /\ NotYetFound
    /\ Serial => OneAttempt

\* What a call does to the others: it ends the waits of some, and leaves
\* those that are not in a call where they are.
LEMMA BodyKeeps ==
    ASSUME ManagerTypeOK, NEW c \in Callers, Body(c)
    PROVE  \A d \in Callers :
              /\ pc[d] \notin InCall => pc'[d] = pc[d]
              /\ pc'[d] # "idle" \/ pc[d] = "idle"
BY DEF ManagerTypeOK, Body, Goto, CreateGroup, ZeroRetry, Register, ApplyConfig,
       DropOldLink, FirstConnect, StartWait, BitsArrive, Timeout, Unregister,
       DeleteGroup, ClearGroup, Result, Fault, InCall

\* The event loop and the driver move no call.
LEMMA LoopKeeps ==
    ASSUME Loop \/ Driver
    PROVE  UNCHANGED pc
BY DEF Loop, Driver, Dispatch, HandlerRetry, HandlerLoad, HandlerStore,
       HandlerGiveUp, HandlerGotIp, HandlerCheckGroup, HandlerSetBits, Fault,
       Joins, JoinRefused, LinkDrops, taskVars, callVars

LEMMA EnterMoves ==
    ASSUME ManagerTypeOK, NEW c \in Callers, NEW ssid, Enter(c, ssid)
    PROVE  /\ pc[c] = "idle"
           /\ pc' = [pc EXCEPT ![c] = "create"]
BY DEF Enter, Goto

LEMMA LeaveMoves ==
    ASSUME ManagerTypeOK, NEW c \in Callers, Leave(c)
    PROVE  /\ pc[c] \in Results
           /\ pc' = [pc EXCEPT ![c] = "idle"]
BY DEF Leave

LEMMA RestartMoves ==
    ASSUME Restart
    PROVE  pc' = [c \in Callers |-> "idle"]
BY DEF Restart

---------------------------------------------------------------------------
\* Every step of the firmware is one that WifiManager allows.

\* Who is in a call has got to it.
LEMMA BusyPlaces ==
    ASSUME UseInv, NEW c \in Callers, Busy(c)
    PROVE  \/ c \in Workers /\ task[c] = "call"
           \/ c = AppMain /\ stage = "call"
BY ProvisioningAssumption
   DEF UseInv, Places, Busy, InCall, TypeOK, ManagerTypeOK

LEMMA MayCallNow ==
    ASSUME UseInv,
           \/ stage = "load"
           \/ \E w \in Workers : task[w] = "announce"
    PROVE  MayCall
<1> SUFFICES ASSUME Serial, NEW d \in Callers, Busy(d) PROVE FALSE
  BY DEF MayCall
<1>1. \/ d \in Workers /\ task[d] = "call"
      \/ d = AppMain /\ stage = "call"
  BY BusyPlaces
<1>2. QED
  BY <1>1 DEF UseInv, OneAttempt

LEMMA ManagerStep ==
    ASSUME UseInv, [Next]_vars
    PROVE  [ManagerNext]_managerVars
<1> USE ProvisioningAssumption
<1>1. ASSUME NEW c \in Callers, NEW ssid \in Ssids, MayCall, Enter(c, ssid)
      PROVE  ManagerNext
  BY <1>1 DEF ManagerNext, Call
<1>2. ASSUME NEW c \in Callers, Leave(c) PROVE ManagerNext
  BY <1>2 DEF ManagerNext
<1>3. CASE Sync \/ Link \/ (\E ssid \in Ssids \cup {NoSsid} : WriteSsid(ssid))
           \/ (\E pass \in Passes : WritePass(pass))
  BY <1>3 DEF Sync, Link, WriteSsid, WritePass
<1>4. ASSUME NEW w \in Workers, Worker(w) PROVE [ManagerNext]_managerVars
  <2>1. CASE Announce(w)
    <3>1. task[w] = "announce" /\ cred[w].ssid \in Ssids
      BY <2>1 DEF Announce, At, UseInv, CredsGiven, Creds
    <3>2. MayCall
      BY <3>1, MayCallNow
    <3>3. QED
      BY <1>1, <2>1, <3>1, <3>2 DEF Announce
  <2>2. CASE SaveSsid(w) \/ SavePass(w) \/ ReportConnected(w)
    BY <2>2 DEF SaveSsid, SavePass, ReportConnected
  <2>3. CASE Give(w) \/ ReportFailed(w)
    BY <1>2, <2>3 DEF Give, ReportFailed
  <2>4. QED
    BY <1>4, <2>1, <2>2, <2>3 DEF Worker
<1>5. CASE Main
  <2>1. CASE LoadCredentials
    <3>1. CASE UNCHANGED managerVars
      BY <3>1
    <3>2. CASE nvs.ssid # NoSsid /\ stage = "load" /\ Enter(AppMain, nvs.ssid)
      <4>1. nvs.ssid \in Ssids
        BY <3>2 DEF UseInv, TypeOK
      <4>2. MayCall
        BY <3>2, MayCallNow
      <4>3. QED
        BY <1>1, <3>2, <4>1, <4>2
    <3>3. QED
      BY <2>1, <3>1, <3>2 DEF LoadCredentials, LoadedSsid, MainAt
  <2>2. CASE AutoConnectDone
    BY <1>2, <2>2 DEF AutoConnectDone
  <2>3. CASE StartBle \/ TakeSemaphore \/ StartServices
    BY <2>3 DEF StartBle, TakeSemaphore, StartServices
  <2>4. QED
    BY <1>5, <2>1, <2>2, <2>3 DEF Main
<1>6. CASE WifiStep
  BY <1>6 DEF WifiStep, ByItself, ManagerNext
<1>7. CASE Reboot
  BY <1>7 DEF Reboot, ManagerNext
<1>8. CASE UNCHANGED vars
  BY <1>8 DEF vars
<1>9. QED
  BY <1>3, <1>4, <1>5, <1>6, <1>7, <1>8 DEF Next

---------------------------------------------------------------------------
\* The invariant.

LEMMA UseInit == Init => UseInv
<1> SUFFICES ASSUME Init PROVE UseInv
  OBVIOUS
<1>1. ManagerTypeOK /\ LinkTypeOK
  BY TypeInit DEF Init, LinkInit, LinkTypeOK
<1>2. nvs \in [ssid : Ssids \cup {NoSsid}, pass : Passes \cup {NoPass}]
  <2>1. CASE nvs \in Creds
    BY <2>1 DEF Creds
  <2>2. CASE nvs = NoCred
    BY <2>2 DEF NoCred
  <2>3. QED
    BY <2>1, <2>2 DEF Init
<1>3. TypeOK
  BY <1>1, <1>2 DEF Init, TypeOK, Statuses
<1>4. QED
  BY <1>3, ProvisioningAssumption
     DEF Init, UseInv, Places, CredsGiven, NotYetFound, OneAttempt, ManagerInit,
         LinkInit

\* The BLE host's steps: a phone is there only after ble_prov_start, and its
\* password makes a task only if, with Serial, there is none.
LEMMA HostStep ==
    ASSUME UseInv, ManagerTypeOK',
           \/ Sync
           \/ Link
           \/ \E ssid \in Ssids \cup {NoSsid} : WriteSsid(ssid)
           \/ \E pass \in Passes : WritePass(pass)
    PROVE  UseInv'
<1> USE ProvisioningAssumption, LinkAssumption
<1>1. UNCHANGED <<managerVars, stage, s_prov_done, nvs>> /\ UNCHANGED pc
  BY DEF Sync, Link, WriteSsid, WritePass, mainVars, managerVars, taskVars, callVars
<1>2. CASE Sync
  <2>1. UNCHANGED <<task, cred, s_pending_ssid, s_status_buf, asked>>
    BY <1>2 DEF Sync, mainVars, gattVars
  <2>2. LinkTypeOK' /\ stage # "boot"
    BY <1>2 DEF Sync, OnSync, StartAdvertising, UseInv, TypeOK, LinkTypeOK
  <2>3. QED
    BY <1>1, <2>1, <2>2
       DEF UseInv, TypeOK, Places, CredsGiven, NotYetFound, OneAttempt
<1>3. CASE Link
  <2>1. UNCHANGED <<task, cred, s_pending_ssid, s_status_buf>> /\ asked' = FALSE
    BY <1>3 DEF Link, mainVars
  <2>2. LinkTypeOK' /\ stage # "boot"
    BY <1>3 DEF Link, PhoneConnects, ConnectFails, PhoneLeaves, HostReset,
                StartAdvertising, UseInv, NotYetFound, TypeOK, LinkTypeOK
  <2>3. QED
    BY <1>1, <2>1, <2>2
       DEF UseInv, TypeOK, Places, CredsGiven, NotYetFound, OneAttempt
<1>4. ASSUME NEW ssid \in Ssids \cup {NoSsid}, WriteSsid(ssid) PROVE UseInv'
  <2>1. /\ UNCHANGED <<task, cred, s_status_buf, asked>>
        /\ UNCHANGED <<synced, advertising, s_conn_handle>>
        /\ s_pending_ssid' = ssid
    BY <1>4 DEF WriteSsid, mainVars, linkVars
  <2>2. QED
    BY <1>1, <2>1
       DEF UseInv, TypeOK, LinkTypeOK, Places, CredsGiven, NotYetFound, OneAttempt
<1>5. ASSUME NEW pass \in Passes, WritePass(pass) PROVE UseInv'
  <2>1. /\ UNCHANGED <<s_pending_ssid, s_status_buf>>
        /\ UNCHANGED <<synced, advertising, s_conn_handle>>
        /\ s_conn_handle # NoPhone /\ PhoneMaySend
    BY <1>5 DEF WritePass, linkVars
  <2>2. stage # "boot"
    BY <2>1 DEF UseInv, NotYetFound
  <2>3. CASE UNCHANGED <<task, cred, asked>>
    BY <1>1, <2>1, <2>3
       DEF UseInv, TypeOK, LinkTypeOK, Places, CredsGiven, NotYetFound, OneAttempt
  <2>4. ASSUME NEW w \in Workers, s_pending_ssid # NoSsid, task[w] = "free",
               task' = [task EXCEPT ![w] = "announce"],
               cred' = [cred EXCEPT ![w] = [ssid |-> s_pending_ssid, pass |-> pass]],
               asked' = TRUE
        PROVE  UseInv'
    <3>1. [ssid |-> s_pending_ssid, pass |-> pass] \in Creds
      BY <2>4 DEF Creds, UseInv, TypeOK
    <3>2. TypeOK'
      BY <1>1, <2>1, <2>4, <3>1 DEF UseInv, TypeOK, LinkTypeOK
    <3>3. Places'
      BY <1>1, <2>4 DEF UseInv, TypeOK, Places
    <3>4. CredsGiven'
      BY <2>4, <3>1 DEF UseInv, TypeOK, CredsGiven
    <3>5. Serial => OneAttempt'
      BY <1>1, <2>1, <2>2, <2>4
         DEF UseInv, TypeOK, OneAttempt, PhoneMaySend, Resting
    <3>6. QED
      BY <1>1, <2>1, <2>2, <3>2, <3>3, <3>4, <3>5 DEF UseInv, NotYetFound
  <2>5. QED
    BY <1>5, <2>3, <2>4 DEF WritePass, OnBleCredentials
<1>6. QED
  BY <1>2, <1>3, <1>4, <1>5

\* connect_wifi_task goes on, or ends.
LEMMA WorkerStep ==
    ASSUME UseInv, ManagerTypeOK', NEW w \in Workers, Worker(w)
    PROVE  UseInv'
<1> USE ProvisioningAssumption
<1> DEFINE Next1 == task'[w]
<1>1. ManagerTypeOK /\ w \in Callers /\ w # AppMain
  BY DEF UseInv, TypeOK
<1>2. UNCHANGED <<linkVars, stage, s_pending_ssid>>
  BY DEF Worker, Announce, SaveSsid, SavePass, ReportConnected, Give,
         ReportFailed, gattVars
<1>3. /\ task' = [task EXCEPT ![w] = Next1]
      /\ task[w] # "free"
      /\ Next1 \in {"free", "call", "save_pass", "report", "give"}
  BY DEF Worker, Announce, SaveSsid, SavePass, ReportConnected, Give,
         ReportFailed, At, UseInv, TypeOK
<1>4. /\ cred' \in [Workers -> Creds \cup {NoCred}]
      /\ \A v \in Workers : task'[v] # "free" => cred'[v] = cred[v]
  BY <1>3
     DEF Worker, Announce, SaveSsid, SavePass, ReportConnected, Give,
         ReportFailed, At, UseInv, TypeOK
<1>5. /\ s_status_buf' \in Statuses /\ asked' \in BOOLEAN
      /\ s_prov_done' \in {0, 1}
  BY DEF Worker, Announce, SaveSsid, SavePass, ReportConnected, Give,
         ReportFailed, NotifyStatus, Statuses, gattVars, UseInv, TypeOK
<1>6. nvs' \in [ssid : Ssids \cup {NoSsid}, pass : Passes \cup {NoPass}]
  <2>1. cred[w] \in Creds
    BY <1>3 DEF UseInv, CredsGiven
  <2>2. QED
    BY <2>1 DEF Worker, Announce, SaveSsid, SavePass, ReportConnected, Give,
                ReportFailed, Save, Creds, UseInv, TypeOK
<1>7. /\ \A c \in Callers \ {w} : pc'[c] = pc[c]
      /\ Next1 = "free" => pc'[w] = "idle"
      /\ Next1 \in {"save_pass", "report", "give"} => pc'[w] = "ok"
  <2>1. CASE Announce(w)
    BY <1>1, <2>1, EnterMoves DEF Announce, At, UseInv, TypeOK, ManagerTypeOK
  <2>2. CASE SaveSsid(w) \/ SavePass(w) \/ ReportConnected(w)
    BY <1>1, <2>2
       DEF SaveSsid, SavePass, ReportConnected, At, managerVars, taskVars,
           callVars, UseInv, TypeOK, Places
  <2>3. CASE Give(w) \/ ReportFailed(w)
    BY <1>1, <2>3, LeaveMoves
       DEF Give, ReportFailed, At, UseInv, TypeOK, ManagerTypeOK
  <2>4. QED
    BY <2>1, <2>2, <2>3 DEF Worker
<1>8. TypeOK'
  <2>1. task' \in [Workers -> {"free", "announce", "call", "save_pass",
                              "report", "give"}]
    BY <1>3 DEF UseInv, TypeOK
  <2>2. QED
    BY <1>2, <2>1, <1>4, <1>5, <1>6 DEF UseInv, TypeOK, LinkTypeOK, linkVars
<1>9. Places'
  BY <1>1, <1>2, <1>3, <1>7 DEF UseInv, TypeOK, Places
<1>10. CredsGiven'
  BY <1>3, <1>4 DEF UseInv, TypeOK, CredsGiven
<1>11. NotYetFound'
  BY <1>2 DEF UseInv, NotYetFound, linkVars
<1>12. Serial => OneAttempt'
  BY <1>2, <1>3 DEF UseInv, TypeOK, OneAttempt
<1>13. QED
  BY <1>8, <1>9, <1>10, <1>11, <1>12 DEF UseInv

\* app_main goes on; nobody has started a task before it has tried.
LEMMA MainStep ==
    ASSUME UseInv, ManagerTypeOK', Main
    PROVE  UseInv'
<1> USE ProvisioningAssumption
<1>1. UNCHANGED <<linkVars, gattVars, task, cred, nvs>>
  BY DEF Main, StartBle, LoadCredentials, AutoConnectDone, TakeSemaphore,
         StartServices, MainAt
<1>2. /\ stage' \in {"load", "call", "take"} \cup Services
      /\ stage' \in {"load", "call"} => stage \in {"boot", "load"}
      /\ s_prov_done' \in {0, 1}
  BY DEF Main, StartBle, LoadCredentials, AutoConnectDone, TakeSemaphore,
         StartServices, MainAt, Services, UseInv, TypeOK
<1>3. /\ \A w \in Workers : pc'[w] = pc[w]
      /\ stage' # "call" => pc'[AppMain] = "idle"
  <2>1. ManagerTypeOK /\ AppMain \in Callers /\ \A w \in Workers : w \in Callers /\ w # AppMain
    BY DEF UseInv, TypeOK
  <2>2. CASE StartBle \/ TakeSemaphore \/ StartServices
    BY <2>2 DEF StartBle, TakeSemaphore, StartServices, MainAt, managerVars,
                taskVars, callVars, UseInv, Places
  <2>3. CASE LoadCredentials
    <3>1. CASE UNCHANGED managerVars /\ stage = "load"
      BY <3>1 DEF managerVars, taskVars, callVars, UseInv, Places
    <3>2. CASE Enter(AppMain, LoadedSsid) /\ stage' = "call"
      BY <2>1, <3>2, EnterMoves DEF ManagerTypeOK
    <3>3. QED
      BY <2>3, <3>1, <3>2 DEF LoadCredentials, MainAt
  <2>4. CASE AutoConnectDone
    BY <2>1, <2>4, LeaveMoves DEF AutoConnectDone, ManagerTypeOK
  <2>5. QED
    BY <2>2, <2>3, <2>4 DEF Main
<1>4. TypeOK'
  BY <1>1, <1>2 DEF UseInv, TypeOK, LinkTypeOK, linkVars, gattVars
<1>5. Places'
  BY <1>1, <1>3 DEF UseInv, Places
<1>6. CredsGiven' /\ NotYetFound'
  BY <1>1, <1>2 DEF UseInv, CredsGiven, NotYetFound, Services
<1>7. Serial => OneAttempt'
  BY <1>1, <1>2 DEF UseInv, OneAttempt, Services
<1>8. QED
  BY <1>4, <1>5, <1>6, <1>7 DEF UseInv

LEMMA WifiStepUses ==
    ASSUME UseInv, ManagerTypeOK', WifiStep
    PROVE  UseInv'
<1> USE ProvisioningAssumption
<1>1. UNCHANGED <<linkVars, gattVars, mainVars>>
  BY DEF WifiStep, ByItself
<1>2. \A c \in Callers : pc[c] \in {"idle", "ok"} => pc'[c] = pc[c]
  <2>1. ASSUME NEW d \in Callers, Body(d)
        PROVE  \A c \in Callers : pc[c] \in {"idle", "ok"} => pc'[c] = pc[c]
    BY <2>1, BodyKeeps DEF UseInv, TypeOK, InCall
  <2>2. QED
    BY <2>1, LoopKeeps DEF WifiStep, ByItself
<1>3. Places'
  BY <1>1, <1>2 DEF UseInv, Places, mainVars
<1>4. QED
  BY <1>1, <1>3
     DEF UseInv, TypeOK, LinkTypeOK, CredsGiven, NotYetFound, OneAttempt,
         linkVars, gattVars, mainVars

LEMMA RebootUses ==
    ASSUME UseInv, ManagerTypeOK', Reboot
    PROVE  UseInv'
<1>1. TypeOK'
  BY DEF Reboot, UseInv, TypeOK, LinkTypeOK, Statuses
<1>2. QED
  BY <1>1, RestartMoves, ProvisioningAssumption
     DEF Reboot, UseInv, Places, CredsGiven, NotYetFound, OneAttempt

LEMMA UseStep ==
    ASSUME UseInv, [Next]_vars
    PROVE  UseInv'
<1>1. ManagerTypeOK'
  BY ManagerStep, TypeStep DEF UseInv, TypeOK
<1>2. CASE UNCHANGED vars
  BY <1>1, <1>2
     DEF vars, managerVars, taskVars, callVars, linkVars, gattVars, mainVars,
         UseInv, TypeOK, LinkTypeOK, Places, CredsGiven, NotYetFound, OneAttempt
<1>3. QED
  BY <1>1, <1>2, HostStep, WorkerStep, MainStep, WifiStepUses, RebootUses
     DEF Next

---------------------------------------------------------------------------
\* What main.c shares and hands on keeps its types (main.c:78-211,
\* ble_prov.c:160-195), overlapping attempts included.
THEOREM ProvisioningTypes == Spec => []TypeOK
<1>1. UseInv /\ [Next]_vars => UseInv'
  BY UseStep
<1>2. UseInv => TypeOK
  BY DEF UseInv
<1>3. QED
  BY <1>1, <1>2, UseInit, PTL DEF Spec

\* main.c calls wifi_manager_connect as WifiManager lets its callers: one
\* call per task, left before the next, and with Serial none beside another
\* (main.c:83-116, 171-180).
THEOREM UsesTheManager == Spec => ManagerSafety
<1>1. UseInv /\ [Next]_vars => UseInv'
  BY UseStep
<1>2. UseInv /\ [Next]_vars => [ManagerNext]_managerVars
  BY ManagerStep
<1>3. Init => ManagerInit
  BY DEF Init
<1>4. QED
  BY <1>1, <1>2, <1>3, UseInit, PTL DEF Spec, ManagerSafety

\* In the whole firmware, if the phone sends no password during an attempt,
\* the event group is never misused, the statics are never raced for and
\* nothing is left behind (wifi_manager.c:86-126, main.c:78-180).
THEOREM FirmwareIsSafe ==
    ASSUME Serial = TRUE
    PROVE  Spec => [](NoFault /\ NoDataRace /\ NothingLeftBehind)
BY UsesTheManager, OneCallAtATime

---------------------------------------------------------------------------
\* The promise.

\* Where a task is tells what STATUS says and how much of its credential is in
\* flash.
Settled ==
    \A w \in Workers :
        /\ task[w] \in {"call", "save_pass", "report"} => s_status_buf = "CONNECTING"
        /\ task[w] = "give" => s_status_buf = "CONNECTED"
        /\ task[w] = "save_pass" => nvs.ssid = cred[w].ssid
        /\ task[w] = "report" => nvs = cred[w]

KeepInv == UseInv /\ Settled

LEMMA SettledStep ==
    ASSUME Serial = TRUE, NvsMayFail = FALSE, KeepInv, [Next]_vars
    PROVE  Settled'
<1> USE DEF KeepInv
<1>1. CASE UNCHANGED <<task, cred, s_status_buf, nvs>>
  BY <1>1 DEF Settled
<1>2. ASSUME NEW pass \in Passes, WritePass(pass) PROVE Settled'
  <2>1. UNCHANGED <<s_status_buf, nvs>> /\ PhoneMaySend
    BY <1>2 DEF WritePass
  <2>2. \A w \in Workers : task[w] = "free"
    BY <2>1 DEF PhoneMaySend, Resting
  <2>3. \A w \in Workers : task'[w] \in {"free", "announce"}
    BY <1>2, <2>2 DEF WritePass, OnBleCredentials, UseInv, TypeOK
  <2>4. QED
    BY <2>3 DEF Settled
<1>3. ASSUME NEW w \in Workers, Worker(w) PROVE Settled'
  <2>1. \A v \in Workers \ {w} : task[v] = "free"
    BY <1>3
       DEF Worker, Announce, SaveSsid, SavePass, ReportConnected, Give,
           ReportFailed, At, UseInv, OneAttempt
  <2>2. \A v \in Workers \ {w} : task'[v] = "free"
    BY <1>3, <2>1
       DEF Worker, Announce, SaveSsid, SavePass, ReportConnected, Give,
           ReportFailed, At, UseInv, TypeOK
  <2>3. CASE Announce(w)
    BY <2>2, <2>3 DEF Announce, At, NotifyStatus, Settled, UseInv, TypeOK
  <2>4. CASE SaveSsid(w)
    BY <2>2, <2>4 DEF SaveSsid, At, Save, gattVars, Settled, UseInv, TypeOK
  <2>5. CASE SavePass(w)
    <3>1. /\ task' = [task EXCEPT ![w] = "report"]
          /\ nvs' = [nvs EXCEPT !["pass"] = cred[w].pass]
          /\ UNCHANGED <<cred, s_status_buf>>
          /\ task[w] = "save_pass"
      BY <2>5 DEF SavePass, At, Save, gattVars
    <3>2. nvs' = cred[w]
      <4>1. cred[w] \in Creds
        BY <3>1 DEF UseInv, CredsGiven
      <4>2. nvs.ssid = cred[w].ssid
        BY <3>1 DEF Settled
      <4>3. QED
        BY <3>1, <4>1, <4>2 DEF UseInv, TypeOK, Creds
    <3>3. QED
      BY <2>2, <3>1, <3>2 DEF Settled, UseInv, TypeOK
  <2>6. CASE ReportConnected(w)
    BY <2>2, <2>6 DEF ReportConnected, At, NotifyStatus, Settled, UseInv, TypeOK
  <2>7. CASE Give(w) \/ ReportFailed(w)
    BY <2>2, <2>7 DEF Give, ReportFailed, At, Settled, UseInv, TypeOK
  <2>8. QED
    BY <1>3, <2>3, <2>4, <2>5, <2>6, <2>7 DEF Worker
<1>4. CASE Reboot
  BY <1>4 DEF Reboot, Settled
<1>5. CASE Sync \/ Link \/ (\E ssid \in Ssids \cup {NoSsid} : WriteSsid(ssid))
           \/ Main \/ WifiStep \/ UNCHANGED vars
  <2>1. UNCHANGED <<task, cred, s_status_buf, nvs>>
    BY <1>5
       DEF Sync, Link, WriteSsid, Main, StartBle, LoadCredentials,
           AutoConnectDone, TakeSemaphore, StartServices, MainAt, WifiStep,
           ByItself, vars, gattVars, mainVars
  <2>2. QED
    BY <1>1, <2>1
<1>6. QED
  BY <1>2, <1>3, <1>4, <1>5 DEF Next

\* The request is that of the only task there is.
LEMMA RequestIs ==
    ASSUME OneAttempt
    PROVE  /\ \A w \in Workers : task[w] # "free" => Requested = cred[w]
           /\ (\A w \in Workers : task[w] = "free") => Requested = NoCred
<1>1. ASSUME NEW w \in Workers, task[w] # "free" PROVE Requested = cred[w]
  <2>1. Busied = {w}
    BY <1>1 DEF Busied, OneAttempt
  <2>2. (CHOOSE v \in {w} : TRUE) = w
    OBVIOUS
  <2>3. QED
    BY <2>1, <2>2 DEF Requested
<1>2. ASSUME \A w \in Workers : task[w] = "free" PROVE Requested = NoCred
  BY <1>2 DEF Requested, Busied
<1>3. QED
  BY <1>1, <1>2

LEMMA RequestIsNext ==
    ASSUME OneAttempt'
    PROVE  /\ \A w \in Workers : task'[w] # "free" => Requested' = cred'[w]
           /\ (\A w \in Workers : task'[w] = "free") => Requested' = NoCred
<1>1. ASSUME NEW w \in Workers, task'[w] # "free" PROVE Requested' = cred'[w]
  <2>1. Busied' = {w}
    BY <1>1 DEF Busied, OneAttempt
  <2>2. (CHOOSE v \in {w} : TRUE) = w
    OBVIOUS
  <2>3. QED
    BY <2>1, <2>2 DEF Requested
<1>2. ASSUME \A w \in Workers : task'[w] = "free" PROVE Requested' = NoCred
  BY <1>2 DEF Requested, Busied
<1>3. QED
  BY <1>1, <1>2

\* The parts of a state the promise is about.
Promised == <<Requested, s_status_buf, nvs, Succeeded, stage \in Services>>

\* A step that changes no task and no result.
LEMMA Silent ==
    ASSUME UNCHANGED <<stage, task, cred, s_status_buf, s_prov_done, nvs, pc>>
    PROVE  UNCHANGED Promised
<1>1. Requested' = Requested
  BY DEF Requested, Busied
<1>2. Succeeded' = Succeeded
  BY DEF Succeeded
<1>3. QED
  BY <1>1, <1>2 DEF Promised

LEMMA HostPromise ==
    ASSUME Serial = TRUE, KeepInv, UseInv',
           \/ Sync
           \/ Link
           \/ \E ssid \in Ssids \cup {NoSsid} : WriteSsid(ssid)
           \/ \E pass \in Passes : WritePass(pass)
    PROVE  [Promise!PromiseNext]_Promised
<1> USE DEF KeepInv
<1>1. CASE Sync \/ Link \/ (\E ssid \in Ssids \cup {NoSsid} : WriteSsid(ssid))
  BY <1>1, Silent
     DEF Sync, Link, WriteSsid, mainVars, gattVars, managerVars, taskVars, callVars
<1>2. ASSUME NEW pass \in Passes, WritePass(pass)
      PROVE  [Promise!PromiseNext]_Promised
  <2>1. UNCHANGED <<stage, s_status_buf, s_prov_done, nvs, pc>> /\ PhoneMaySend
    BY <1>2 DEF WritePass, managerVars, taskVars, callVars
  <2>2. CASE UNCHANGED <<task, cred>>
    BY <2>1, <2>2, Silent
  <2>3. ASSUME NEW w \in Workers, task' = [task EXCEPT ![w] = "announce"]
        PROVE  Promise!PromiseNext
    <3>1. Requested = NoCred
      BY <2>1, RequestIs DEF PhoneMaySend, Resting, UseInv
    <3>2. Requested' = cred'[w] /\ cred'[w] \in Creds
      <4>1. task'[w] # "free"
        BY <2>3 DEF UseInv, TypeOK
      <4>2. QED
        BY <4>1, RequestIsNext DEF UseInv, CredsGiven
    <3>3. Succeeded' = Succeeded
      BY <2>1 DEF Succeeded
    <3>4. Promise!Request(cred'[w])
      BY <2>1, <3>1, <3>2, <3>3 DEF Promise!Request
    <3>5. QED
      BY <3>2, <3>4 DEF Promise!PromiseNext, Promise!Creds, Creds
  <2>4. QED
    BY <1>2, <2>2, <2>3 DEF WritePass, OnBleCredentials
<1>3. QED
  BY <1>1, <1>2

LEMMA WorkerPromise ==
    ASSUME Serial = TRUE, NvsMayFail = FALSE, KeepInv, UseInv',
           NEW w \in Workers, Worker(w)
    PROVE  Promise!PromiseNext
<1> USE DEF KeepInv
<1>1. task[w] # "free" /\ UNCHANGED stage
  BY DEF Worker, Announce, SaveSsid, SavePass, ReportConnected, Give,
         ReportFailed, At
<1>2. Requested = cred[w] /\ cred[w] \in Creds
  BY <1>1, RequestIs DEF UseInv, CredsGiven
<1>3. \A v \in Workers \ {w} : task'[v] = "free"
  BY <1>1
     DEF Worker, Announce, SaveSsid, SavePass, ReportConnected, Give,
         ReportFailed, At, UseInv, OneAttempt, TypeOK
<1>4. task'[w] # "free" /\ cred' = cred => Requested' = Requested
  BY <1>2, RequestIsNext DEF UseInv
<1>5. task'[w] = "free" => Requested' = NoCred
  BY <1>3, RequestIsNext DEF UseInv
<1>6. w \in Callers /\ pc \in [Callers -> InCall \cup Results \cup {"idle"}]
  BY ProvisioningAssumption DEF UseInv, TypeOK, ManagerTypeOK
<1>7. task' \in [Workers -> {"free", "announce", "call", "save_pass",
                              "report", "give"}]
  BY DEF UseInv, TypeOK
<1>8. CASE Announce(w)
  <2>1. /\ task'[w] # "free" /\ UNCHANGED <<cred, s_prov_done, nvs>>
        /\ s_status_buf' = "CONNECTING"
    BY <1>7, <1>8 DEF Announce, At, NotifyStatus, UseInv, TypeOK
  <2>2. Succeeded' = Succeeded
    <3>1. \A c \in Callers : pc'[c] = "ok" <=> pc[c] = "ok"
      BY <1>6, <1>8, EnterMoves DEF Announce, UseInv, TypeOK
    <3>2. QED
      BY <1>1, <2>1, <3>1 DEF Succeeded
  <2>3. Requested # NoCred
    BY <1>2, StationAssumption DEF Creds, NoCred
  <2>4. Promise!Begin
    BY <1>1, <1>4, <2>1, <2>2, <2>3 DEF Promise!Begin
  <2>5. QED
    BY <2>4 DEF Promise!PromiseNext
<1>9. CASE SaveSsid(w) \/ SavePass(w) \/ ReportConnected(w)
  <2>1. /\ task'[w] # "free" /\ UNCHANGED <<cred, s_prov_done, pc>>
        /\ s_status_buf = "CONNECTING"
    BY <1>9
       DEF SaveSsid, SavePass, ReportConnected, At, Settled, managerVars,
           taskVars, callVars, UseInv, TypeOK
  <2>2. Succeeded' = Succeeded
    BY <1>1, <2>1 DEF Succeeded
  <2>3. pc[w] = "ok"
    BY <1>9 DEF SaveSsid, SavePass, ReportConnected, At, UseInv, Places
  <2>4. Succeeded
    BY <1>6, <2>3 DEF Succeeded
  <2>5. CASE SaveSsid(w)
    <3>1. nvs' = [nvs EXCEPT !["ssid"] = cred[w]["ssid"]] /\ s_status_buf' = s_status_buf
      BY <2>5 DEF SaveSsid, Save, gattVars
    <3>2. Promise!SaveHalf("ssid")
      BY <1>1, <1>2, <1>4, <2>1, <2>2, <2>4, <3>1 DEF Promise!SaveHalf
    <3>3. QED
      BY <3>2 DEF Promise!PromiseNext
  <2>6. CASE SavePass(w)
    <3>1. nvs' = [nvs EXCEPT !["pass"] = cred[w]["pass"]] /\ s_status_buf' = s_status_buf
      BY <2>6 DEF SavePass, Save, gattVars
    <3>2. Promise!SaveHalf("pass")
      BY <1>1, <1>2, <1>4, <2>1, <2>2, <2>4, <3>1 DEF Promise!SaveHalf
    <3>3. QED
      BY <3>2 DEF Promise!PromiseNext
  <2>7. CASE ReportConnected(w)
    <3>1. nvs' = nvs /\ s_status_buf' = "CONNECTED" /\ nvs = cred[w]
      BY <2>7 DEF ReportConnected, At, NotifyStatus, Settled
    <3>2. Promise!Confirm
      BY <1>1, <1>2, <1>4, <2>1, <2>2, <2>4, <3>1 DEF Promise!Confirm
    <3>3. QED
      BY <3>2 DEF Promise!PromiseNext
  <2>8. QED
    BY <1>9, <2>5, <2>6, <2>7
<1>10. CASE Give(w)
  <2>1. /\ task'[w] = "free" /\ UNCHANGED <<s_status_buf, nvs>>
        /\ s_prov_done' = 1
        /\ s_status_buf = "CONNECTED" /\ pc[w] = "ok"
    BY <1>10, <1>7
       DEF Give, At, gattVars, Settled, UseInv, TypeOK, Places
  <2>2. Succeeded /\ Succeeded'
    BY <1>6, <2>1 DEF Succeeded
  <2>3. Promise!Done
    BY <1>1, <1>5, <2>1, <2>2 DEF Promise!Done
  <2>4. QED
    BY <2>3 DEF Promise!PromiseNext
<1>11. CASE ReportFailed(w)
  <2>1. /\ task'[w] = "free" /\ UNCHANGED <<s_prov_done, nvs>>
        /\ s_status_buf = "CONNECTING" /\ s_status_buf' = "FAILED"
        /\ pc[w] = "fail" /\ Leave(w)
    BY <1>11, <1>7
       DEF ReportFailed, At, NotifyStatus, Settled, UseInv, TypeOK
  <2>2. Succeeded' = Succeeded
    <3>1. \A c \in Callers : pc'[c] = "ok" <=> pc[c] = "ok"
      BY <1>6, <2>1, LeaveMoves DEF UseInv, TypeOK
    <3>2. QED
      BY <1>1, <2>1, <3>1 DEF Succeeded
  <2>3. Promise!Deny
    BY <1>1, <1>5, <2>1, <2>2 DEF Promise!Deny
  <2>4. QED
    BY <2>3 DEF Promise!PromiseNext
<1>12. QED
  BY <1>8, <1>9, <1>10, <1>11 DEF Worker

LEMMA MainPromise ==
    ASSUME Serial = TRUE, KeepInv, UseInv', Main
    PROVE  [Promise!PromiseNext]_Promised
<1> USE DEF KeepInv
<1>1. UNCHANGED <<task, cred, s_status_buf, nvs>>
  BY DEF Main, StartBle, LoadCredentials, AutoConnectDone, TakeSemaphore,
         StartServices, MainAt, gattVars
<1>2. Requested' = Requested
  BY <1>1 DEF Requested, Busied
<1>3. AppMain \in Callers /\ pc \in [Callers -> InCall \cup Results \cup {"idle"}]
  BY ProvisioningAssumption DEF UseInv, TypeOK, ManagerTypeOK
<1>4. ASSUME Succeeded' = Succeeded, (stage \in Services)' = (stage \in Services)
      PROVE  UNCHANGED Promised
  BY <1>1, <1>2, <1>4 DEF Promised
<1>5. ASSUME Succeeded, Succeeded', (stage \in Services)'
      PROVE  Promise!PromiseNext
  <2>1. Promise!StartServices
    BY <1>1, <1>2, <1>5 DEF Promise!StartServices
  <2>2. QED
    BY <2>1 DEF Promise!PromiseNext
<1>6. CASE StartBle
  BY <1>4, <1>6
     DEF StartBle, MainAt, Services, Succeeded, managerVars, taskVars, callVars
<1>7. CASE LoadCredentials
  <2>1. stage \notin Services /\ stage' \notin Services /\ s_prov_done' = s_prov_done
    BY <1>7 DEF LoadCredentials, MainAt, Services
  <2>2. \A c \in Callers : pc'[c] = "ok" <=> pc[c] = "ok"
    <3>1. CASE UNCHANGED managerVars
      BY <3>1 DEF managerVars, taskVars, callVars
    <3>2. CASE Enter(AppMain, LoadedSsid)
      BY <1>3, <3>2, EnterMoves DEF UseInv, TypeOK
    <3>3. QED
      BY <1>7, <3>1, <3>2 DEF LoadCredentials
  <2>3. Succeeded' = Succeeded
    BY <2>1, <2>2 DEF Succeeded
  <2>4. QED
    BY <1>4, <2>1, <2>3
<1>8. CASE AutoConnectDone
  <2>1. CASE pc[AppMain] = "ok"
    BY <1>3, <1>5, <1>8, <2>1
       DEF AutoConnectDone, MainAt, Services, Succeeded, UseInv, TypeOK
  <2>2. CASE pc[AppMain] = "fail"
    <3>1. \A c \in Callers : pc'[c] = "ok" <=> pc[c] = "ok"
      BY <1>3, <1>8, <2>2, LeaveMoves DEF AutoConnectDone, UseInv, TypeOK
    <3>2. /\ stage \notin Services /\ stage' \notin Services
          /\ s_prov_done' = s_prov_done
      BY <1>8, <2>2 DEF AutoConnectDone, MainAt, Services
    <3>3. Succeeded' = Succeeded
      BY <3>1, <3>2 DEF Succeeded
    <3>4. QED
      BY <1>4, <3>2, <3>3
  <2>3. QED
    BY <1>8, <2>1, <2>2 DEF AutoConnectDone
<1>9. CASE TakeSemaphore \/ StartServices
  <2>1. Succeeded /\ stage' \in Services
    BY <1>9 DEF TakeSemaphore, StartServices, MainAt, Services, Succeeded
  <2>2. Succeeded'
    BY <2>1 DEF Succeeded
  <2>3. QED
    BY <1>5, <2>1, <2>2
<1>10. QED
  BY <1>6, <1>7, <1>8, <1>9 DEF Main

LEMMA PromiseStep ==
    ASSUME Serial = TRUE, NvsMayFail = FALSE, KeepInv, UseInv', [Next]_vars
    PROVE  [Promise!PromiseNext]_Promised
<1> USE DEF KeepInv
<1>1. CASE UNCHANGED vars
  BY <1>1, Silent
     DEF vars, mainVars, gattVars, managerVars, taskVars, callVars
<1>2. CASE WifiStep
  <2>1. UNCHANGED <<stage, task, cred, s_status_buf, s_prov_done, nvs>>
    BY <1>2 DEF WifiStep, ByItself, mainVars, gattVars
  <2>2. Requested' = Requested
    BY <2>1 DEF Requested, Busied
  <2>3. Succeeded => Succeeded'
    <3>1. \A c \in Callers : pc[c] = "ok" => pc'[c] = "ok"
      <4>1. ASSUME NEW d \in Callers, Body(d)
            PROVE  \A c \in Callers : pc[c] = "ok" => pc'[c] = "ok"
        BY <4>1, BodyKeeps DEF UseInv, TypeOK, InCall
      <4>2. QED
        BY <1>2, <4>1, LoopKeeps DEF WifiStep, ByItself
    <3>2. QED
      BY <2>1, <3>1 DEF Succeeded
  <2>4. CASE Succeeded'
    <3>1. Promise!Succeed
      BY <2>1, <2>2, <2>4 DEF Promise!Succeed
    <3>2. QED
      BY <3>1 DEF Promise!PromiseNext
  <2>5. CASE ~Succeeded'
    <3>1. Succeeded' = Succeeded
      BY <2>3, <2>5 DEF Succeeded
    <3>2. QED
      BY <2>1, <2>2, <3>1 DEF Promised
  <2>6. QED
    BY <2>4, <2>5
<1>3. CASE Reboot
  <2>1. /\ task' = [w \in Workers |-> "free"]
        /\ s_status_buf' = "" /\ s_prov_done' = 0 /\ stage' = "boot"
        /\ nvs' = nvs
        /\ pc' = [c \in Callers |-> "idle"]
    BY <1>3, RestartMoves DEF Reboot
  <2>2. Succeeded' = FALSE /\ (stage \in Services)' = FALSE
    <3>1. stage' \notin Services
      BY <2>1 DEF Services
    <3>2. \A c \in Callers : pc'[c] # "ok"
      BY <2>1
    <3>3. s_prov_done' = 0
      BY <2>1
    <3>4. QED
      BY <3>1, <3>2, <3>3 DEF Succeeded
  <2>3. Requested' = NoCred
    <3>1. \A w \in Workers : task'[w] = "free"
      BY <2>1
    <3>2. Busied' = {}
      BY <3>1 DEF Busied
    <3>3. QED
      BY <3>2 DEF Requested
  <2>4. Promise!PowerOn
    BY <2>1, <2>2, <2>3 DEF Promise!PowerOn
  <2>5. QED
    BY <2>4 DEF Promise!PromiseNext
<1>4. QED
  BY <1>1, <1>2, <1>3, HostPromise, WorkerPromise, MainPromise DEF Next

LEMMA PromiseStart ==
    ASSUME Init
    PROVE  Promise!PromiseInit /\ Settled
<1>1. Requested = NoCred
  BY DEF Init, Requested, Busied
<1>2. Succeeded = FALSE /\ (stage \in Services) = FALSE
  <2>1. stage \notin Services
    BY DEF Init, Services
  <2>2. \A c \in Callers : pc[c] # "ok"
    BY DEF Init, ManagerInit
  <2>3. s_prov_done = 0
    BY DEF Init
  <2>4. QED
    BY <2>1, <2>2, <2>3 DEF Succeeded
<1>3. Promise!PromiseInit
  BY <1>1, <1>2 DEF Init, Promise!PromiseInit, Promise!Creds, Creds
<1>4. Settled
  BY DEF Init, Settled
<1>5. QED
  BY <1>3, <1>4

\* With one attempt at a time and a flash that can be written, the firmware is
\* what ProvisioningPromise says: every request is answered as it ends, what is
\* confirmed is in flash, only what worked gets there, services wait for a
\* success, and a restart loses nothing but the request (main.c:83-211,
\* wifi_manager.c:146-157).
THEOREM PromiseKept ==
    ASSUME Serial = TRUE, NvsMayFail = FALSE
    PROVE  Spec => KeepsPromise
<1>1. UseInv /\ [Next]_vars => UseInv'
  BY UseStep
<1>2. KeepInv /\ [Next]_vars => Settled'
  BY SettledStep
<1>3. KeepInv /\ UseInv' /\ [Next]_vars => [Promise!PromiseNext]_Promised
  BY PromiseStep
<1>4. Init => Promise!PromiseInit /\ Settled
  BY PromiseStart
<1>5. KeepInv <=> UseInv /\ Settled
  BY DEF KeepInv
<1>6. Promised = Promise!promiseVars
  BY DEF Promised, Promise!promiseVars
<1>7. [Promise!PromiseNext]_Promised => [Promise!PromiseNext]_(Promise!promiseVars)
  BY DEF Promised, Promise!promiseVars
<1>8. QED
  BY <1>1, <1>2, <1>3, <1>4, <1>5, <1>7, UseInit, PTL
     DEF Spec, KeepsPromise, Promise!PromiseSpec

---------------------------------------------------------------------------
\* Advertising.

\* If the stack never refuses to advertise, a phone can find the device
\* whenever the host is in sync and nobody is connected, after any
\* disconnection, failed connection or reset (ble_prov.c:322-369).
THEOREM AlwaysReachable ==
    ASSUME AdvMayFail = FALSE
    PROVE  Spec => []Reachable
<1>1. Init => Reachable
  BY DEF Init, LinkInit, Reachable
<1>2. Reachable /\ [Next]_vars => Reachable'
  <2> SUFFICES ASSUME Reachable, [Next]_vars PROVE Reachable'
    OBVIOUS
  <2>1. CASE Sync
    BY <2>1 DEF Sync, OnSync, StartAdvertising, Reachable
  <2>2. CASE Link
    BY <2>2, LinkAssumption
       DEF Link, PhoneConnects, ConnectFails, PhoneLeaves, HostReset,
           StartAdvertising, Reachable
  <2>3. CASE Reboot
    BY <2>3 DEF Reboot, Reachable
  <2>4. CASE UNCHANGED linkVars
    BY <2>4 DEF linkVars, Reachable
  <2>5. QED
    BY <2>1, <2>2, <2>3, <2>4
       DEF Next, vars, WriteSsid, WritePass, Worker, Announce, SaveSsid,
           SavePass, ReportConnected, Give, ReportFailed, Main, StartBle,
           LoadCredentials, AutoConnectDone, TakeSemaphore, StartServices,
           MainAt, WifiStep, ByItself
<1>3. QED
  BY <1>1, <1>2, PTL DEF Spec

=============================================================================
