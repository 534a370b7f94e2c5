------------------------ MODULE ProvisioningPromise ------------------------
(***************************************************************************)
(* What the device promises the app and its owner (README.md sections 1-2, *)
(* docs BLE flow phases 3-5), with nothing of how: one request at a time   *)
(* is answered through STATUS, a confirmed network is in flash by the time *)
(* it is confirmed, only a network that worked gets there, and camera,     *)
(* MQTT and UART wait for a first success.                                 *)
(***************************************************************************)
CONSTANTS
    Ssids, Passes,
    NoCred          \* "nothing saved" and "no request"

VARIABLES
    request,        \* the credential being tried for the app, or NoCred
    status,         \* the last value of the STATUS characteristic
    saved,          \* the credential in flash
    succeeded,      \* a connection attempt succeeded since power-on
    services        \* camera, MQTT and UART have been started

promiseVars == <<request, status, saved, succeeded, services>>

Creds == [ssid : Ssids, pass : Passes]

PromiseInit ==
    /\ request = NoCred
    /\ status = ""
    /\ saved \in Creds \cup {NoCred}
    /\ succeeded = FALSE
    /\ services = FALSE

Request(c) ==
    /\ request = NoCred
    /\ request' = c
    /\ UNCHANGED <<status, saved, succeeded, services>>

Begin ==
    /\ request # NoCred
    /\ status' = "CONNECTING"
    /\ UNCHANGED <<request, saved, succeeded, services>>

\* Also for the attempt made at boot, which no request asked for.
Succeed ==
    /\ succeeded' = TRUE
    /\ UNCHANGED <<request, status, saved, services>>

SaveHalf(key) ==
    /\ status = "CONNECTING"
    /\ succeeded
    /\ saved' = [saved EXCEPT ![key] = request[key]]
    /\ UNCHANGED <<request, status, succeeded, services>>

Confirm ==
    /\ status = "CONNECTING"
    /\ succeeded
    /\ saved = request
    /\ status' = "CONNECTED"
    /\ UNCHANGED <<request, saved, succeeded, services>>

Deny ==
    /\ status = "CONNECTING"
    /\ status' = "FAILED"
    /\ request' = NoCred
    /\ UNCHANGED <<saved, succeeded, services>>

Done ==
    /\ status = "CONNECTED"
    /\ request' = NoCred
    /\ UNCHANGED <<status, saved, succeeded, services>>

StartServices ==
    /\ succeeded
    /\ services' = TRUE
    /\ UNCHANGED <<request, status, saved, succeeded>>

PowerOn ==
    /\ request' = NoCred
    /\ status' = ""
    /\ succeeded' = FALSE
    /\ services' = FALSE
    /\ UNCHANGED saved

PromiseNext ==
    \/ \E c \in Creds : Request(c)
    \/ Begin
    \/ Succeed
    \/ \E key \in {"ssid", "pass"} : SaveHalf(key)
    \/ Confirm
    \/ Deny
    \/ Done
    \/ StartServices
    \/ PowerOn

PromiseSpec == PromiseInit /\ [][PromiseNext]_promiseVars

=============================================================================
