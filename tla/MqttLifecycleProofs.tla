------------------------- MODULE MqttLifecycleProofs -------------------------
(***************************************************************************)
(* Proofs about MqttLifecycle, for every number of other tasks and starts: *)
(* if the owner waits for MQTT_EVENT_BEFORE_CONNECT after a start, and     *)
(* starts no client that is about to connect, then a client has one task,  *)
(* is not freed under it, and is stopped when a stop has succeeded.        *)
(***************************************************************************)
EXTENDS MqttLifecycle, FiniteSetTheorems, TLAPS

NoneAlive == \A t \in Tasks : ~Alive(t)

\* The types, without the two parts that need more than their own variable.
Types ==
    /\ auto_reconnect \in BOOLEAN
    /\ run \in BOOLEAN
    /\ state \in {"INIT", "DISCONNECTED", "CONNECTED", "WAIT_RECONNECT"}
    /\ bits \subseteq {"STOPPED", "RECONNECT", "DISCONNECT"}
    /\ task_handle \in 0..MaxStarts
    /\ allocated \in BOOLEAN
    /\ pc \in [Tasks -> InTask \cup {"none", "gone"}]
    /\ call \in [Callers -> Resting \cup {"stop", "await", "destroy",
                             "await_destroy", "free", "reconnect"}]
    /\ heard \in BOOLEAN
    /\ asked \in BOOLEAN
    /\ wanted \in BOOLEAN

\* The one task is the last that was created; it runs from its first
\* statement until it sees that it shall not.
LastOnly == \A t \in Tasks : Alive(t) => t = task_handle
Runs == run => /\ task_handle \in Tasks
               /\ pc[task_handle] \in InTask \ ({"created"} \cup Ending)
RunsDisconnected ==
    run /\ state = "DISCONNECTED" => pc[task_handle] = "running"

\* Before the first MQTT_EVENT_BEFORE_CONNECT the owner calls nothing, no
\* connection was tried, and the task runs whenever it is about to try.
StartIsSilent == \A t \in Tasks : pc[t] \in Starting => ~heard
Unheard ==
    ~heard => /\ state \in {"INIT", "DISCONNECTED"}
              /\ task_handle = 0 \/ call[Owner] = "none"
              /\ \A t \in Tasks : /\ pc[t] \notin Locked \cup {"abort"}
                                  /\ pc[t] = "lock" => run

\* A task that shall not run is waited for, and the bit it will set is clear.
Stopping ==
    heard /\ ~run /\ call[Owner] \notin {"await", "await_destroy"} => NoneAlive
BitIsFresh == \A t \in Tasks : pc[t] \in InTask \ Starting => "STOPPED" \notin bits
Over == call[Owner] \in {"stopped", "free", "destroyed"} => ~run /\ NoneAlive

\* The others only reconnect, and not once destroy is called.
OthersReconnect ==
    \A c \in Others : /\ call[c] \in {"none", "reconnect"}
                      /\ ~HandleValid => call[c] = "none"
FreedAtTheEnd == allocated \/ call[Owner] = "destroyed"

LInv ==
    /\ Types /\ LastOnly /\ Runs /\ RunsDisconnected /\ StartIsSilent /\ Unheard
    /\ Stopping /\ BitIsFresh /\ Over /\ OthersReconnect /\ FreedAtTheEnd

---------------------------------------------------------------------------
\* The steps of the task keep the invariant.

LEMMA TaskInv ==
    ASSUME LInv, NEW t \in Tasks, TaskStep(t)
    PROVE  LInv'
<1> USE LifecycleAssumption
        DEF Types, LastOnly, Runs, RunsDisconnected, StartIsSilent, Unheard,
            Stopping, BitIsFresh, Over, OthersReconnect, FreedAtTheEnd, NoneAlive,
            Alive, HandleValid, InTask, Locked, Ending, Starting, Resting,
            Callers, Tasks, config, shared, history
<1>1. CASE SetsRun(t)
  BY <1>1, SMTT(20) DEF LInv, SetsRun, Goto
<1>2. CASE SetsState(t)
  BY <1>2, SMTT(20) DEF LInv, SetsState, Goto
<1>3. CASE ClearsStopped(t)
  BY <1>3, SMTT(20) DEF LInv, ClearsStopped, Goto
<1>4. CASE TestsRun(t)
  BY <1>4, SMTT(20) DEF LInv, TestsRun, Goto
<1>5. CASE RoundDisconnected(t)
  BY <1>5, SMTT(20) DEF LInv, RoundDisconnected, Round, Goto
<1>6. CASE RoundInit(t)
  <2>1. /\ bits' \subseteq {"STOPPED", "RECONNECT", "DISCONNECT"}
        /\ "STOPPED" \notin bits => "STOPPED" \notin bits'
    BY <1>6 DEF LInv, RoundInit
  <2>2. Types'
    BY <1>6, <2>1 DEF LInv, RoundInit, Round, Goto
  <2>3. /\ LastOnly' /\ Runs' /\ RunsDisconnected' /\ StartIsSilent'
        /\ Stopping' /\ Over' /\ FreedAtTheEnd'
    BY <1>6 DEF LInv, RoundInit, Round, Goto
  <2>4. Unheard' /\ OthersReconnect'
    BY <1>6 DEF LInv, RoundInit, Round, Goto
  <2>5. BitIsFresh'
    BY <1>6, <2>1 DEF LInv, RoundInit, Round, Goto
  <2> QED
    BY <2>2, <2>3, <2>4, <2>5 DEF LInv
<1>7. CASE RoundNoTransport(t)
  <2>1. /\ bits' \subseteq {"STOPPED", "RECONNECT", "DISCONNECT"}
        /\ "STOPPED" \notin bits => "STOPPED" \notin bits'
    BY <1>7 DEF LInv, RoundNoTransport
  <2>2. Types'
    BY <1>7, <2>1 DEF LInv, RoundNoTransport, Round, Goto
  <2>3. /\ LastOnly' /\ Runs' /\ RunsDisconnected' /\ StartIsSilent'
        /\ Stopping' /\ Over' /\ FreedAtTheEnd'
    BY <1>7 DEF LInv, RoundNoTransport, Round, Goto
  <2>4. Unheard' /\ OthersReconnect'
    BY <1>7 DEF LInv, RoundNoTransport, Round, Goto
  <2>5. BitIsFresh'
    BY <1>7, <2>1 DEF LInv, RoundNoTransport, Round, Goto
  <2> QED
    BY <2>2, <2>3, <2>4, <2>5 DEF LInv
<1>8. CASE Connects(t)
  BY <1>8, SMTT(20) DEF LInv, Connects, Goto
<1>9. CASE ConnectFails(t)
  BY <1>9, SMTT(20) DEF LInv, ConnectFails, AbortConnection, Goto
<1>10. CASE RoundDisconnects(t)
  BY <1>10, SMTT(20) DEF LInv, RoundDisconnects, AbortConnection, Round, Goto
<1>11. CASE RoundConnected(t)
  BY <1>11, SMTT(20) DEF LInv, RoundConnected, AbortConnection, Goto
<1>12. CASE RoundRefreshes(t)
  BY <1>12, SMTT(20) DEF LInv, RoundRefreshes, Round, Goto
<1>13. CASE RoundReconnects(t)
  <2>1. /\ bits' \subseteq {"STOPPED", "RECONNECT", "DISCONNECT"}
        /\ "STOPPED" \notin bits => "STOPPED" \notin bits'
    BY <1>13 DEF LInv, RoundReconnects
  <2>2. Types'
    BY <1>13, <2>1 DEF LInv, RoundReconnects, Round, Goto
  <2>3. /\ LastOnly' /\ Runs' /\ RunsDisconnected' /\ StartIsSilent'
        /\ Stopping' /\ Over' /\ FreedAtTheEnd'
    BY <1>13 DEF LInv, RoundReconnects, Round, Goto
  <2>4. Unheard' /\ OthersReconnect'
    BY <1>13 DEF LInv, RoundReconnects, Round, Goto
  <2>5. BitIsFresh'
    BY <1>13, <2>1 DEF LInv, RoundReconnects, Round, Goto
  <2> QED
    BY <2>2, <2>3, <2>4, <2>5 DEF LInv
<1>14. CASE RoundWaits(t)
  BY <1>14, SMTT(20) DEF LInv, RoundWaits, Round, Goto
<1>15. CASE HandlerReturns(t)
  BY <1>15, SMTT(20) DEF LInv, HandlerReturns
<1>16. CASE Polls(t)
  BY <1>16, SMTT(20) DEF LInv, Polls
<1>17. CASE PollAborts(t)
  BY <1>17, SMTT(20) DEF LInv, PollAborts, AbortConnection, Goto
<1>18. CASE Closes(t)
  BY <1>18, SMTT(20) DEF LInv, Closes, Goto
<1>19. CASE SetsStopped(t)
  BY <1>19, SMTT(20) DEF LInv, SetsStopped, Goto
<1> QED
  BY <1>1, <1>2, <1>3, <1>4, <1>5, <1>6, <1>7, <1>8, <1>9, <1>10, <1>11, <1>12,
     <1>13, <1>14, <1>15, <1>16, <1>17, <1>18, <1>19 DEF TaskStep

\* The handler cannot stop its own client.
LEMMA HandlerInv ==
    ASSUME LInv, NEW t \in Tasks,
           HandlerDisconnects(t) \/ HandlerReconnects(t) \/ HandlerStops(t)
    PROVE  LInv'
<1> USE LifecycleAssumption
        DEF Types, LastOnly, Runs, RunsDisconnected, StartIsSilent, Unheard,
            Stopping, BitIsFresh, Over, OthersReconnect, FreedAtTheEnd, NoneAlive,
            Alive, HandleValid, InTask, Locked, Ending, Starting, Resting,
            Callers, Tasks, config, shared, history
<1>1. CASE HandlerDisconnects(t)
  <2>0. /\ bits' \subseteq {"STOPPED", "RECONNECT", "DISCONNECT"}
        /\ "STOPPED" \notin bits => "STOPPED" \notin bits'
    BY <1>1 DEF LInv, HandlerDisconnects
  <2>1. Types'
    BY <1>1, <2>0 DEF LInv, HandlerDisconnects, HandlerCalls
  <2>2. LastOnly' /\ Runs' /\ RunsDisconnected' /\ StartIsSilent'
    BY <1>1, <2>0 DEF LInv, HandlerDisconnects, HandlerCalls
  <2>3. Unheard'
    BY <1>1, <2>0 DEF LInv, HandlerDisconnects, HandlerCalls
  <2>4. Stopping' /\ Over' /\ FreedAtTheEnd'
    BY <1>1, <2>0 DEF LInv, HandlerDisconnects, HandlerCalls
  <2>5. BitIsFresh'
    BY <1>1, <2>0 DEF LInv, HandlerDisconnects, HandlerCalls
  <2>6. OthersReconnect'
    BY <1>1, <2>0 DEF LInv, HandlerDisconnects, HandlerCalls
  <2> QED
    BY <2>1, <2>2, <2>3, <2>4, <2>5, <2>6 DEF LInv
<1>2. CASE HandlerReconnects(t)
  <2>0. /\ bits' \subseteq {"STOPPED", "RECONNECT", "DISCONNECT"}
        /\ "STOPPED" \notin bits => "STOPPED" \notin bits'
    BY <1>2 DEF LInv, HandlerReconnects
  <2>1. Types'
    BY <1>2, <2>0 DEF LInv, HandlerReconnects, HandlerCalls
  <2>2. LastOnly' /\ Runs' /\ RunsDisconnected' /\ StartIsSilent'
    BY <1>2, <2>0 DEF LInv, HandlerReconnects, HandlerCalls
  <2>3. Unheard'
    BY <1>2, <2>0 DEF LInv, HandlerReconnects, HandlerCalls
  <2>4. Stopping' /\ Over' /\ FreedAtTheEnd'
    BY <1>2, <2>0 DEF LInv, HandlerReconnects, HandlerCalls
  <2>5. BitIsFresh'
    BY <1>2, <2>0 DEF LInv, HandlerReconnects, HandlerCalls
  <2>6. OthersReconnect'
    BY <1>2, <2>0 DEF LInv, HandlerReconnects, HandlerCalls
  <2> QED
    BY <2>1, <2>2, <2>3, <2>4, <2>5, <2>6 DEF LInv
<1>3. CASE HandlerStops(t)
  <2>1. t = task_handle
    BY <1>3 DEF LInv, HandlerStops, HandlerCalls
  <2>2. UNCHANGED vars
    BY <1>3, <2>1 DEF HandlerStops, vars
  <2> QED
    BY <2>2 DEF LInv, vars
<1> QED
  BY <1>1, <1>2, <1>3

---------------------------------------------------------------------------
\* The calls keep the invariant.

LEMMA OwnerInv ==
    ASSUME Careful, LInv,
           Start \/ BeginStop \/ BeginDestroy \/ Stop \/ DestroyStops \/ Frees
    PROVE  LInv'
<1> USE LifecycleAssumption
        DEF Types, LastOnly, Runs, RunsDisconnected, StartIsSilent, Unheard,
            Stopping, BitIsFresh, Over, OthersReconnect, FreedAtTheEnd, NoneAlive,
            Alive, HandleValid, InTask, Locked, Ending, Starting, Resting,
            Callers, Tasks, config, shared, history
<1>1. CASE Start
  <2>1. Types'
    <3>1. task_handle' \in Tasks
      BY <1>1 DEF LInv, Start
    <3>2. pc' \in [Tasks -> InTask \cup {"none", "gone"}]
      BY <1>1, <3>1 DEF LInv, Start
    <3>3. call' = [call EXCEPT ![Owner] = "none"]
      BY <1>1 DEF Start, Begins
    <3>4. call' \in [Callers -> Resting \cup {"stop", "await", "destroy",
                                           "await_destroy", "free", "reconnect"}]
      BY <3>3 DEF LInv
    <3>5. task_handle' \in 0..MaxStarts
      BY <3>1
    <3> QED
      BY <1>1, <3>2, <3>4, <3>5 DEF LInv, Start
  <2>2. LastOnly' /\ Runs' /\ RunsDisconnected' /\ StartIsSilent'
    BY <1>1 DEF LInv, Start, Begins, ReadyToStart, Ready
  <2>3. Unheard'
    BY <1>1 DEF LInv, Start, Begins, ReadyToStart, Ready
  <2>4. Stopping' /\ Over' /\ FreedAtTheEnd'
    BY <1>1 DEF LInv, Start, Begins, ReadyToStart, Ready
  <2>5. BitIsFresh'
    BY <1>1 DEF LInv, Start, Begins, ReadyToStart, Ready
  <2>6. OthersReconnect'
    BY <1>1 DEF LInv, Start, Begins, ReadyToStart, Ready
  <2> QED
    BY <2>1, <2>2, <2>3, <2>4, <2>5, <2>6 DEF LInv
<1>2. CASE BeginStop
  BY <1>2, SMTT(20) DEF LInv, BeginStop, Begins, Ready
<1>3. CASE BeginDestroy
  BY <1>3, SMTT(20) DEF LInv, BeginDestroy, Begins, Ready
<1>4. CASE Stop
  <2>1. Types'
    BY <1>4 DEF LInv, Stop, StopAsks, Returns
  <2>2. LastOnly' /\ Runs' /\ RunsDisconnected' /\ StartIsSilent'
    BY <1>4 DEF LInv, Stop, StopAsks, Returns
  <2>3. Unheard'
    BY <1>4 DEF LInv, Stop, StopAsks, Returns
  <2>4. Stopping' /\ Over' /\ FreedAtTheEnd'
    BY <1>4 DEF LInv, Stop, StopAsks, Returns
  <2>5. BitIsFresh'
    BY <1>4 DEF LInv, Stop, StopAsks, Returns
  <2>6. OthersReconnect'
    BY <1>4 DEF LInv, Stop, StopAsks, Returns
  <2> QED
    BY <2>1, <2>2, <2>3, <2>4, <2>5, <2>6 DEF LInv
<1>5. CASE DestroyStops
  <2>1. Types'
    BY <1>5 DEF LInv, DestroyStops, StopAsks, Returns
  <2>2. LastOnly' /\ Runs' /\ RunsDisconnected' /\ StartIsSilent'
    BY <1>5 DEF LInv, DestroyStops, StopAsks, Returns
  <2>3. Unheard'
    BY <1>5 DEF LInv, DestroyStops, StopAsks, Returns
  <2>4. Stopping' /\ Over' /\ FreedAtTheEnd'
    BY <1>5 DEF LInv, DestroyStops, StopAsks, Returns
  <2>5. BitIsFresh'
    BY <1>5 DEF LInv, DestroyStops, StopAsks, Returns
  <2>6. OthersReconnect'
    BY <1>5 DEF LInv, DestroyStops, StopAsks, Returns
  <2> QED
    BY <2>1, <2>2, <2>3, <2>4, <2>5, <2>6 DEF LInv
<1>6. CASE Frees
  <2>1. Types'
    BY <1>6 DEF LInv, Frees, Returns
  <2>2. LastOnly' /\ Runs' /\ RunsDisconnected' /\ StartIsSilent'
    BY <1>6 DEF LInv, Frees, Returns
  <2>3. Unheard'
    BY <1>6 DEF LInv, Frees, Returns
  <2>4. Stopping' /\ Over' /\ FreedAtTheEnd'
    BY <1>6 DEF LInv, Frees, Returns
  <2>5. BitIsFresh'
    BY <1>6 DEF LInv, Frees, Returns
  <2>6. OthersReconnect'
    BY <1>6 DEF LInv, Frees, Returns
  <2> QED
    BY <2>1, <2>2, <2>3, <2>4, <2>5, <2>6 DEF LInv
<1> QED
  BY <1>1, <1>2, <1>3, <1>4, <1>5, <1>6

LEMMA CallerInv ==
    ASSUME LInv, NEW c \in Callers, Disconnect(c) \/ BeginReconnect(c) \/ Reconnect(c)
    PROVE  LInv'
<1> USE LifecycleAssumption
        DEF Types, LastOnly, Runs, RunsDisconnected, StartIsSilent, Unheard,
            Stopping, BitIsFresh, Over, OthersReconnect, FreedAtTheEnd, NoneAlive,
            Alive, HandleValid, InTask, Locked, Ending, Starting, Resting,
            Callers, Tasks, config, shared, history
<1>1. CASE Disconnect(c)
  BY <1>1, SMTT(20) DEF LInv, Disconnect, Begins
<1>2. CASE BeginReconnect(c)
  BY <1>2, SMTT(20) DEF LInv, BeginReconnect, Begins
<1>3. CASE Reconnect(c)
  BY <1>3, SMTT(20) DEF LInv, Reconnect, Returns
<1> QED
  BY <1>1, <1>2, <1>3

LEMMA LifecycleInit == Init => LInv
<1> SUFFICES ASSUME Init PROVE LInv
  OBVIOUS
<1>1. NoneAlive /\ \A t \in Tasks : pc[t] = "none"
  BY DEF Init, NoneAlive, Alive, InTask, Starting, Locked, Ending
<1>2. \A c \in Callers : call[c] = "none"
  BY DEF Init
<1>3. Types
  <2>1. task_handle \in 0..MaxStarts
    BY LifecycleAssumption DEF Init
  <2>2. pc \in [Tasks -> InTask \cup {"none", "gone"}]
    BY DEF Init
  <2>3. call \in [Callers -> Resting \cup {"stop", "await", "destroy",
                                        "await_destroy", "free", "reconnect"}]
    BY DEF Init, Resting
  <2> QED
    BY <2>1, <2>2, <2>3 DEF Init, Types
<1>4. /\ LastOnly /\ Runs /\ RunsDisconnected /\ StartIsSilent /\ Unheard
      /\ Stopping /\ BitIsFresh /\ Over /\ FreedAtTheEnd
  BY <1>1, <1>2 DEF Init, LastOnly, Runs, RunsDisconnected, StartIsSilent, Unheard,
     Stopping, BitIsFresh, Over, FreedAtTheEnd, NoneAlive, Alive, InTask, Starting,
     Locked, Ending, Callers
<1>5. OthersReconnect
  BY <1>2 DEF OthersReconnect, HandleValid, Callers
<1> QED
  BY <1>3, <1>4, <1>5 DEF LInv

LEMMA LifecycleNext ==
    ASSUME Careful, LInv, [Next]_vars
    PROVE  LInv'
<1>1. CASE UNCHANGED vars
  BY <1>1 DEF vars, config, shared, history, LInv, Types, LastOnly, Runs,
     RunsDisconnected, StartIsSilent, Unheard, Stopping, BitIsFresh, Over,
     OthersReconnect, FreedAtTheEnd, NoneAlive, Alive, HandleValid
<1>2. CASE Next
  BY <1>2, TaskInv, HandlerInv, OwnerInv, CallerInv DEF Next, CallStep
<1> QED
  BY <1>1, <1>2

---------------------------------------------------------------------------
\* What the invariant says of the tasks.

\* Those in a part of the task's code are at most the last.
LEMMA AtMostOne ==
    ASSUME NEW S \in SUBSET Tasks, \A t \in S : t = task_handle
    PROVE  Cardinality(S) <= 1
<1>1. IsFiniteSet({task_handle}) /\ Cardinality({task_handle}) = 1
  BY FS_Singleton
<1>2. S \subseteq {task_handle}
  OBVIOUS
<1>3. Cardinality(S) <= Cardinality({task_handle})
  BY <1>1, <1>2, FS_Subset
<1> QED
  BY <1>1, <1>3

LEMMA TypeOK == LInv => LifecycleTypeOK
<1> SUFFICES ASSUME LInv PROVE LifecycleTypeOK
  OBVIOUS
<1>1. Cardinality({t \in Tasks : pc[t] \in Locked}) <= 1
  BY AtMostOne DEF LInv, LastOnly, Alive, InTask
<1>2. run /\ state = "DISCONNECTED" => \E t \in Tasks : pc[t] = "running"
  BY DEF LInv, Runs, RunsDisconnected
<1> QED
  BY <1>1, <1>2 DEF LInv, Types, LifecycleTypeOK

LEMMA One == LInv => OneTask
BY AtMostOne DEF LInv, LastOnly, OneTask

LEMMA Freed == LInv => NoUseAfterFree
BY DEF LInv, FreedAtTheEnd, Over, OthersReconnect, HandleValid, NoneAlive,
       NoUseAfterFree, Callers, Resting

LEMMA Stopped == LInv => StopMeansStopped
BY DEF LInv, Over, NoneAlive, StopMeansStopped

---------------------------------------------------------------------------
\* DISCONNECT_BIT is set with a request and cleared before a connection.
Asked ==
    /\ "DISCONNECT" \in bits => asked
    /\ DOMAIN pc = Tasks

LEMMA DomainStep ==
    ASSUME Next
    PROVE  DOMAIN pc' = DOMAIN pc
<1>1. ASSUME NEW t \in Tasks, TaskStep(t) \/ HandlerDisconnects(t)
                                 \/ HandlerReconnects(t) \/ HandlerStops(t)
      PROVE  DOMAIN pc' = DOMAIN pc
  BY <1>1 DEF TaskStep, SetsRun, SetsState, ClearsStopped, TestsRun, RoundDisconnected,
     RoundInit, RoundNoTransport, Connects, ConnectFails, RoundDisconnects,
     RoundConnected, RoundRefreshes, RoundReconnects, RoundWaits, HandlerReturns, Polls,
     PollAborts, Closes, SetsStopped, Round, AbortConnection, Goto,
     HandlerDisconnects, HandlerReconnects, HandlerStops
<1>2. CASE \/ \E c \in Callers : Disconnect(c) \/ BeginReconnect(c) \/ CallStep(c)
           \/ Start \/ BeginStop \/ BeginDestroy
  BY <1>2 DEF Disconnect, BeginReconnect, CallStep, Reconnect, Stop, DestroyStops, StopAsks,
     Frees, Start, BeginStop, BeginDestroy
<1> QED
  BY <1>1, <1>2 DEF Next

LEMMA AskedStep ==
    ASSUME Asked, Next
    PROVE  Asked'
<1> USE DomainStep
<1>1. ASSUME NEW t \in Tasks, TaskStep(t)
      PROVE  Asked'
  <2>1. CASE RoundInit(t) \/ RoundNoTransport(t)
    BY <2>1 DEF Asked, RoundInit, RoundNoTransport
  <2>2. CASE RoundDisconnects(t) \/ RoundReconnects(t)
    BY <2>2 DEF Asked, RoundDisconnects, RoundReconnects, history
  <2>3. CASE ClearsStopped(t) \/ SetsStopped(t)
    BY <2>3 DEF Asked, ClearsStopped, SetsStopped, history
  <2>4. CASE \/ SetsRun(t) \/ SetsState(t) \/ TestsRun(t) \/ RoundDisconnected(t)
             \/ Connects(t) \/ ConnectFails(t) \/ RoundConnected(t) \/ RoundRefreshes(t)
             \/ RoundWaits(t) \/ HandlerReturns(t) \/ Polls(t) \/ PollAborts(t) \/ Closes(t)
    <3>1. UNCHANGED <<bits, asked>>
      BY <2>4 DEF SetsRun, SetsState, TestsRun, RoundDisconnected, Connects, ConnectFails,
         RoundConnected, RoundRefreshes, RoundWaits, HandlerReturns, Polls, PollAborts,
         Closes, shared, history
    <3> QED
      BY <3>1 DEF Asked
  <2> QED
    BY <1>1, <2>1, <2>2, <2>3, <2>4 DEF TaskStep
<1>2. ASSUME NEW t \in Tasks,
             HandlerDisconnects(t) \/ HandlerReconnects(t) \/ HandlerStops(t)
      PROVE  Asked'
  BY <1>2 DEF Asked, HandlerDisconnects, HandlerReconnects, HandlerStops, history
<1>3. ASSUME NEW c \in Callers, Disconnect(c) \/ BeginReconnect(c) \/ Reconnect(c)
      PROVE  Asked'
  BY <1>3 DEF Asked, Disconnect, BeginReconnect, Reconnect, shared, history
<1>4. CASE Start \/ BeginStop \/ BeginDestroy \/ Stop \/ DestroyStops \/ Frees
  <2>1. UNCHANGED <<bits, asked>>
    BY <1>4 DEF Start, BeginStop, BeginDestroy, Stop, DestroyStops, StopAsks, Frees,
       shared, history
  <2> QED
    BY <2>1 DEF Asked
<1> QED
  BY <1>1, <1>2, <1>3, <1>4 DEF Next, CallStep

\* The only step from "lock" to "down" that changes the bits.
LEMMA DisconnectStep ==
    ASSUME Asked, Next, NEW t \in Tasks,
           pc[t] = "lock", pc'[t] = "down", bits' # bits
    PROVE  asked
<1>1. ASSUME NEW u \in Tasks, TaskStep(u)
      PROVE  asked
  <2>1. CASE RoundDisconnects(u)
    BY <2>1 DEF Asked, RoundDisconnects
  <2>2. CASE RoundInit(u) \/ RoundNoTransport(u) \/ RoundReconnects(u)
                \/ ClearsStopped(u) \/ SetsStopped(u)
    BY <2>2 DEF Asked, RoundInit, RoundNoTransport, RoundReconnects, ClearsStopped, SetsStopped,
       Round, Goto
  <2>3. CASE \/ SetsRun(u) \/ SetsState(u) \/ TestsRun(u) \/ RoundDisconnected(u)
             \/ Connects(u) \/ ConnectFails(u) \/ RoundConnected(u) \/ RoundRefreshes(u)
             \/ RoundWaits(u) \/ HandlerReturns(u) \/ Polls(u) \/ PollAborts(u) \/ Closes(u)
    BY <2>3 DEF SetsRun, SetsState, TestsRun, RoundDisconnected, Connects, ConnectFails,
       RoundConnected, RoundRefreshes, RoundWaits, HandlerReturns, Polls, PollAborts,
       Closes, shared
  <2> QED
    BY <1>1, <2>1, <2>2, <2>3 DEF TaskStep
<1>2. ASSUME NEW u \in Tasks,
             HandlerDisconnects(u) \/ HandlerReconnects(u) \/ HandlerStops(u)
      PROVE  asked
  BY <1>2 DEF HandlerDisconnects, HandlerReconnects, HandlerStops
<1>3. ASSUME NEW c \in Callers, Disconnect(c) \/ BeginReconnect(c) \/ Reconnect(c)
      PROVE  asked
  BY <1>3 DEF Disconnect, BeginReconnect, Reconnect, shared
<1>4. CASE Start \/ BeginStop \/ BeginDestroy \/ Stop \/ DestroyStops \/ Frees
  BY <1>4 DEF Start, BeginStop, BeginDestroy, Stop, DestroyStops, StopAsks, Frees, shared
<1> QED
  BY <1>1, <1>2, <1>3, <1>4 DEF Next, CallStep

---------------------------------------------------------------------------
LEMMA Invariant == ASSUME Careful PROVE Spec => []LInv
BY LifecycleInit, LifecycleNext, PTL DEF Spec

\* Every variable keeps its type, the lock has one holder, and a task that
\* runs is disconnected only before it has set its state (esp_mqtt_task).
THEOREM LifecycleTypes == ASSUME Careful PROVE Spec => []LifecycleTypeOK
BY Invariant, TypeOK, PTL

\* A client never has two tasks, however often it is started and stopped
\* (esp_mqtt_client_start).
THEOREM NeverTwoTasks == ASSUME Careful PROVE Spec => []OneTask
BY Invariant, One, PTL

\* The client is not freed under its task or under a call
\* (esp_mqtt_client_destroy).
THEOREM NeverUsedAfterFree == ASSUME Careful PROVE Spec => []NoUseAfterFree
BY Invariant, Freed, PTL

\* Once a stop has returned ESP_OK the task has ended (esp_mqtt_client_stop).
THEOREM StopStops == ASSUME Careful PROVE Spec => []StopMeansStopped
BY Invariant, Stopped, PTL

\* However the client is used, a connection ends by DISCONNECT_BIT only if
\* disconnect was called since it began (MQTT_STATE_INIT clears the bit).
THEOREM DisconnectsAsAsked == Spec => DisconnectOnlyWhenAsked
<1>1. Init => Asked
  BY DEF Init, Asked
<1>2. Asked /\ [Next]_vars => Asked'
  <2>1. CASE UNCHANGED vars
    BY <2>1 DEF Asked, vars, shared, history
  <2> QED
    BY <2>1, AskedStep
<1>3. Asked /\ [Next]_vars =>
         [(\E t \in Tasks : pc[t] = "lock" /\ pc'[t] = "down" /\ bits' # bits) => asked]_vars
  BY DisconnectStep
<1> QED
  BY <1>1, <1>2, <1>3, PTL DEF Spec, DisconnectOnlyWhenAsked

=============================================================================
