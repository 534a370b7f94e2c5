---------------------------- MODULE WifiStation ----------------------------
(***************************************************************************)
(* The ESP-IDF WiFi station driver and the default event loop's queue, as  *)
(* main/wifi_manager.c uses them.  Neither is in this repository: the      *)
(* operators follow the calls wifi_manager.c makes, the events it          *)
(* registers for and its comment on esp_wifi_disconnect/esp_wifi_connect   *)
(* (wifi_manager.c:105-108).  A password is not modelled: whether an       *)
(* access point lets the station in is the driver's choice.                *)
(***************************************************************************)
EXTENDS Naturals, Sequences

CONSTANTS
    Ssids,      \* the access points credentials may name
    NoSsid,     \* "no configuration yet"
    QueueLen    \* bound on the events posted and not yet dispatched

ASSUME StationAssumption ==
    /\ NoSsid \notin Ssids
    /\ QueueLen \in Nat \ {0}

VARIABLES
    config,     \* the SSID of the last esp_wifi_set_config
    sta,        \* what the driver is doing, and with which access point
    evq         \* events posted to the default event loop, oldest first

stationVars == <<config, sta, evq>>

\* Of an event, the handler looks at nothing but its kind.
Events == {"DISCONNECTED", "GOT_IP"}

Idle == [state |-> "idle", ap |-> NoSsid]

StationTypeOK ==
    /\ config \in Ssids \cup {NoSsid}
    /\ sta \in [state : {"connecting", "up"}, ap : Ssids] \cup {Idle}
    /\ evq \in Seq(Events)

StationInit ==
    /\ config = NoSsid
    /\ sta = Idle
    /\ evq = <<>>

QueueHasRoom == Len(evq) < QueueLen

Post(event) == evq' = Append(evq, event)

DisconnectPending == \E i \in 1..Len(evq) : evq[i] = "DISCONNECTED"

---------------------------------------------------------------------------
\* The calls of wifi_manager.c.

SetConfig(ssid) ==
    /\ config' = ssid
    /\ UNCHANGED <<sta, evq>>

\* esp_wifi_disconnect: ignored when there is nothing to leave, else the
\* station leaves and the event says so.
Disconnect ==
    \/ /\ sta.state = "idle"
       /\ UNCHANGED stationVars
    \/ /\ sta.state # "idle"
       /\ QueueHasRoom
       /\ sta' = Idle
       /\ Post("DISCONNECTED")
       /\ UNCHANGED config

\* esp_wifi_connect: starts joining the configured access point; it is
\* refused while the station is busy, and may be refused while a
\* disconnection is still being reported.
Connect ==
    \/ /\ sta.state = "idle"
       /\ config # NoSsid
       /\ sta' = [state |-> "connecting", ap |-> config]
       /\ UNCHANGED <<config, evq>>
    \/ /\ sta.state # "idle" \/ DisconnectPending \/ config = NoSsid
       /\ UNCHANGED stationVars

---------------------------------------------------------------------------
\* What the driver does by itself.

GetIp ==
    /\ sta.state = "connecting"
    /\ QueueHasRoom
    /\ sta' = [sta EXCEPT !.state = "up"]
    /\ Post("GOT_IP")
    /\ UNCHANGED config

JoinFails ==
    /\ sta.state = "connecting"
    /\ QueueHasRoom
    /\ sta' = Idle
    /\ Post("DISCONNECTED")
    /\ UNCHANGED config

LoseLink ==
    /\ sta.state = "up"
    /\ QueueHasRoom
    /\ sta' = Idle
    /\ Post("DISCONNECTED")
    /\ UNCHANGED config

=============================================================================
