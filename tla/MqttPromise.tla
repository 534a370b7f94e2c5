---------------------------- MODULE MqttPromise ----------------------------
(***************************************************************************)
(* What the UART task is promised of the samples it hands to MQTT with     *)
(* QoS 1: each is delivered, unless it grows too old first; nothing else   *)
(* is delivered, and nothing is dropped in silence.                        *)
(***************************************************************************)
CONSTANTS Samples

VARIABLES
    handed,     \* the samples given to esp_mqtt_client_publish
    got,        \* the samples the broker has
    expired     \* the samples dropped for their age

Init ==
    /\ handed = {}
    /\ got = {}
    /\ expired = {}

Hand(m) ==
    /\ m \notin handed
    /\ handed' = handed \cup {m}
    /\ UNCHANGED <<got, expired>>

\* A copy may still be under way when the sample expires.
Deliver(m) ==
    /\ m \in handed \ got
    /\ got' = got \cup {m}
    /\ UNCHANGED <<handed, expired>>

Expire(old) ==
    /\ old # {}
    /\ old \subseteq handed \ expired
    /\ expired' = expired \cup old
    /\ UNCHANGED <<handed, got>>

Next ==
    \/ \E m \in Samples : Hand(m) \/ Deliver(m)
    \/ \E old \in SUBSET Samples : Expire(old)

NothingLost == \A m \in Samples : m \in handed ~> m \in got \cup expired

\* What may happen, and what must.
PromiseSafety == Init /\ [][Next]_<<handed, got, expired>>
PromiseSpec == PromiseSafety /\ NothingLost

=============================================================================
