------------------------------ MODULE BleLink ------------------------------
(***************************************************************************)
(* The GAP half of main/ble_prov.c: advertising, the one connection a      *)
(* phone may hold, and the host's sync.  All of it runs on the NimBLE host *)
(* task, so a callback is one step.  The NimBLE stack below the callbacks  *)
(* is not in this repository.                                              *)
(***************************************************************************)
EXTENDS Naturals

CONSTANTS
    Phones,
    NoPhone,        \* BLE_HS_CONN_HANDLE_NONE
    AdvMayFail      \* TRUE: the stack may refuse to advertise, or its address

ASSUME LinkAssumption == NoPhone \notin Phones /\ AdvMayFail \in BOOLEAN

VARIABLES
    synced,         \* the host is in sync with the controller
    advertising,
    s_conn_handle   \* the phone the connection is with

linkVars == <<synced, advertising, s_conn_handle>>

LinkTypeOK ==
    /\ synced \in BOOLEAN
    /\ advertising \in BOOLEAN
    /\ s_conn_handle \in Phones \cup {NoPhone}

LinkInit ==
    /\ synced = FALSE
    /\ advertising = FALSE
    /\ s_conn_handle = NoPhone

\* ble_start_advertising: a refusal is logged, nothing tries again; without
\* sync the stack always refuses.
StartAdvertising ==
    \/ advertising' = synced'
    \/ AdvMayFail /\ advertising' = FALSE

\* ble_on_sync, also after the host has been reset.
OnSync ==
    /\ ~synced
    /\ synced' = TRUE
    /\ StartAdvertising
    /\ UNCHANGED s_conn_handle

\* BLE_GAP_EVENT_CONNECT with status 0: the stack stops advertising.
PhoneConnects(p) ==
    /\ advertising
    /\ s_conn_handle' = p
    /\ advertising' = FALSE
    /\ UNCHANGED synced

\* BLE_GAP_EVENT_CONNECT with an error.
ConnectFails ==
    /\ advertising
    /\ s_conn_handle' = NoPhone
    /\ UNCHANGED synced
    /\ StartAdvertising
\* Seeded fault: no advertising after a disconnection.
PhoneLeaves_Silent ==
    /\ s_conn_handle # NoPhone
    /\ s_conn_handle' = NoPhone
    /\ UNCHANGED <<synced, advertising>>

\* BLE_GAP_EVENT_DISCONNECT.
PhoneLeaves ==
    /\ s_conn_handle # NoPhone
    /\ s_conn_handle' = NoPhone
    /\ UNCHANGED synced
    /\ StartAdvertising

\* The controller fails and the host starts over: the connection, if any,
\* is reported as lost while the host is out of sync.
HostReset ==
    /\ synced
    /\ synced' = FALSE
    /\ s_conn_handle' = NoPhone
    /\ advertising' = FALSE

\* A phone can find the device whenever the host is in sync, or has its
\* connection already (ble_prov.c:322-333, 369).
Reachable == synced => advertising \/ s_conn_handle # NoPhone

=============================================================================
