-------------------------- MODULE WifiManagerCalm --------------------------
(***************************************************************************)
(* WifiManager with a history variable: which calls of                     *)
(* wifi_manager_connect had a quiet station.  A GOT_IP that is under way   *)
(* when a call begins is taken for its own (OkMeansJoined fails), and so   *)
(* is a link that drops while a call lets go of it; what ESP_OK means is   *)
(* stated for the others.                                                  *)
(***************************************************************************)
EXTENDS WifiManager

\* History: the call began from a quiet station and no link has dropped by
\* itself since.
VARIABLE calm

\* No join under way, no event to handle.
Quiet == sta.state # "connecting" /\ evq = <<>> /\ loop.at = "idle"

CalmInit == ManagerInit /\ calm = [c \in Callers |-> FALSE]

CalmNext ==
    /\ ManagerNext
    /\ calm' = [c \in Callers |->
                   CASE pc[c] = "idle" -> pc'[c] \in InCall /\ Quiet
                     [] pc'[c] = "idle" -> FALSE
                     [] OTHER -> calm[c] /\ ~(sta.state = "up" /\ sta' = Idle
                                                /\ pc' = pc)]

CalmSafety == CalmInit /\ [][CalmNext]_<<managerVars, calm>>
CalmSpec == CalmSafety /\ ManagerFairness

\* ESP_OK is returned only if the requested network gave an address after
\* this call asked for it - when the call began from a quiet station and no
\* link dropped meanwhile (wifi_manager.c:110-130).
CalmOkMeansJoined == \A c \in Callers : pc[c] = "ok" /\ calm[c] => joined[c]

=============================================================================
