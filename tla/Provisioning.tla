---------------------------- MODULE Provisioning ----------------------------
(***************************************************************************)
(* main/main.c with the GATT half of main/ble_prov.c, on top of            *)
(* WifiManager and BleLink: app_main's boot sequence, one                  *)
(* connect_wifi_task per accepted PASS write, the SSID/PASS/STATUS         *)
(* characteristics and the credentials in NVS.                             *)
(*                                                                         *)
(* A credential is a pair of an SSID and a password.                       *)
(***************************************************************************)
EXTENDS WifiManager, BleLink

CONSTANTS
    AppMain,        \* the task app_main runs in
    Passes,         \* the passwords a phone may send
    NoPass,
    Workers,        \* the connect_wifi_task instances the heap has room for
    NvsMayFail      \* TRUE: an NVS call may fail; its result is not looked at

ASSUME ProvisioningAssumption ==
    /\ AppMain \notin Workers
    /\ NoPass \notin Passes
    /\ Callers = Workers \cup {AppMain}
    /\ NvsMayFail \in BOOLEAN

VARIABLES
    stage,          \* where app_main is
    task,           \* where each connect_wifi_task is; "free": not created
    cred,           \* the cred_t a connect_wifi_task was given
    s_pending_ssid,
    s_status_buf,
    s_prov_done,    \* the binary semaphore that wakes app_main
    nvs,            \* the credentials in flash; survives a restart
    \* History.
    asked           \* the connected phone waits for the result of its PASS

gattVars == <<s_pending_ssid, s_status_buf, asked>>
mainVars == <<stage, task, cred, s_prov_done, nvs>>
vars == <<managerVars, linkVars, gattVars, mainVars>>

Creds == [ssid : Ssids, pass : Passes]
NoCred == [ssid |-> NoSsid, pass |-> NoPass]

Statuses == {"", "CONNECTING", "CONNECTED", "FAILED"}
Services == {"camera", "mqtt", "uart", "done"}

TypeOK ==
    /\ ManagerTypeOK
    /\ LinkTypeOK
    /\ stage \in {"boot", "load", "call", "take"} \cup Services
    /\ task \in [Workers -> {"free", "announce", "call", "save_pass",
                             "report", "give"}]
    /\ cred \in [Workers -> Creds \cup {NoCred}]
    /\ s_pending_ssid \in Ssids \cup {NoSsid}
    /\ s_status_buf \in Statuses
    /\ s_prov_done \in {0, 1}
    /\ nvs \in [ssid : Ssids \cup {NoSsid}, pass : Passes \cup {NoPass}]
    /\ asked \in BOOLEAN

Init ==
    /\ ManagerInit
    /\ LinkInit
    /\ stage = "boot"
    /\ task = [w \in Workers |-> "free"]
    /\ cred = [w \in Workers |-> NoCred]
    /\ s_pending_ssid = NoSsid
    /\ s_status_buf = ""
    /\ s_prov_done = 0
    /\ nvs \in Creds \cup {NoCred}
    /\ asked = FALSE

---------------------------------------------------------------------------
\* GAP and GATT callbacks, on the NimBLE host task.

Sync ==
    /\ Running
    /\ stage # "boot"
    /\ OnSync
    /\ UNCHANGED <<managerVars, mainVars, gattVars>>

Link ==
    /\ Running
    /\ \/ \E p \in Phones : PhoneConnects(p)
       \/ ConnectFails
       \/ PhoneLeaves
       \/ HostReset
    /\ asked' = FALSE
    /\ UNCHANGED <<managerVars, mainVars, s_pending_ssid, s_status_buf>>

\* ssid_access_cb; an empty write leaves an empty SSID.
WriteSsid(ssid) ==
    /\ Running
    /\ s_conn_handle # NoPhone
    /\ s_pending_ssid' = ssid
    /\ UNCHANGED <<managerVars, linkVars, mainVars, s_status_buf, asked>>

Resting == \A w \in Workers : task[w] = "free"

\* Serial, as far as the phone can be asked to respect it: it sends a
\* password only when the device has no attempt under way.
PhoneMaySend == Serial => Resting /\ stage \notin {"load", "call"}

\* A connect_wifi_task gets its own copy; without memory for one the
\* credentials are dropped.
OnBleCredentials(ssid, pass) ==
    \/ /\ \E w \in Workers :
             /\ task[w] = "free"
             /\ task' = [task EXCEPT ![w] = "announce"]
             /\ cred' = [cred EXCEPT ![w] = [ssid |-> ssid, pass |-> pass]]
       /\ asked' = TRUE
    \/ /\ \A w \in Workers : task[w] # "free"
       /\ UNCHANGED <<task, cred, asked>>

\* pass_access_cb: without an SSID the password is ignored.
WritePass(pass) ==
    /\ Running
    /\ s_conn_handle # NoPhone
    /\ PhoneMaySend
    /\ \/ s_pending_ssid # NoSsid /\ OnBleCredentials(s_pending_ssid, pass)
       \/ s_pending_ssid = NoSsid /\ UNCHANGED <<task, cred, asked>>
    /\ UNCHANGED <<managerVars, linkVars, stage, s_pending_ssid,
                   s_status_buf, s_prov_done, nvs>>

\* ble_prov_notify_status.  A notification that fails - no buffer, or the
\* connection lost since the check of s_conn_handle - leaves the status to
\* be read.
NotifyStatus(status) ==
    /\ s_status_buf' = status
    /\ asked' = (asked /\ status = "CONNECTING")

---------------------------------------------------------------------------
\* connect_wifi_task.

At(w, from, to) ==
    /\ Running
    /\ task[w] = from
    /\ task' = [task EXCEPT ![w] = to]
\* Seeded fault: the SSID is saved before it has been tried.
Announce_SaveFirst(w) ==
    /\ At(w, "announce", "call")
    /\ NotifyStatus("CONNECTING")
    /\ Enter(w, cred[w].ssid)
    /\ nvs' = [nvs EXCEPT !.ssid = cred[w].ssid]
    /\ UNCHANGED <<linkVars, stage, cred, s_pending_ssid, s_prov_done>>

Announce(w) ==
    /\ At(w, "announce", "call")
    /\ NotifyStatus("CONNECTING")
    /\ Enter(w, cred[w].ssid)
    /\ UNCHANGED <<linkVars, stage, cred, s_pending_ssid, s_prov_done, nvs>>

\* One nvs_set_str of wifi_manager_save_credentials.
Save(key, value) ==
    \/ nvs' = [nvs EXCEPT ![key] = value]
    \/ NvsMayFail /\ nvs' = nvs

SaveSsid(w) ==
    /\ pc[w] = "ok"
    /\ At(w, "call", "save_pass")
    /\ Save("ssid", cred[w].ssid)
    /\ UNCHANGED <<managerVars, linkVars, gattVars, stage, cred, s_prov_done>>
\* Seeded fault: the password is not written.
SavePass_Forgotten(w) ==
    /\ At(w, "save_pass", "report")
    /\ UNCHANGED <<managerVars, linkVars, gattVars, stage, cred, s_prov_done,
                   nvs>>

SavePass(w) ==
    /\ At(w, "save_pass", "report")
    /\ Save("pass", cred[w].pass)
    /\ UNCHANGED <<managerVars, linkVars, gattVars, stage, cred, s_prov_done>>

ReportConnected(w) ==
    /\ At(w, "report", "give")
    /\ NotifyStatus("CONNECTED")
    /\ UNCHANGED <<managerVars, linkVars, stage, cred, s_pending_ssid,
                   s_prov_done, nvs>>
\* Seeded fault: a counting semaphore.
Give_Counting(w) ==
    /\ At(w, "give", "free")
    /\ Leave(w)
    /\ s_prov_done' = s_prov_done + 1
    /\ cred' = [cred EXCEPT ![w] = NoCred]
    /\ UNCHANGED <<linkVars, gattVars, stage, nvs>>

\* Seeded fault: app_main is not woken.
Give_Forgotten(w) ==
    /\ At(w, "give", "free")
    /\ Leave(w)
    /\ cred' = [cred EXCEPT ![w] = NoCred]
    /\ UNCHANGED <<linkVars, gattVars, stage, s_prov_done, nvs>>

\* 800 ms later: wake app_main, free the credentials, end the task.
Give(w) ==
    /\ At(w, "give", "free")
    /\ Leave(w)
    /\ s_prov_done' = 1
    /\ cred' = [cred EXCEPT ![w] = NoCred]
    /\ UNCHANGED <<linkVars, gattVars, stage, nvs>>
\* Seeded fault: a failure is not reported.
ReportFailed_Silent(w) ==
    /\ pc[w] = "fail"
    /\ At(w, "call", "free")
    /\ Leave(w)
    /\ cred' = [cred EXCEPT ![w] = NoCred]
    /\ UNCHANGED <<linkVars, gattVars, stage, s_prov_done, nvs>>

ReportFailed(w) ==
    /\ pc[w] = "fail"
    /\ At(w, "call", "free")
    /\ NotifyStatus("FAILED")
    /\ Leave(w)
    /\ cred' = [cred EXCEPT ![w] = NoCred]
    /\ UNCHANGED <<linkVars, stage, s_pending_ssid, s_prov_done, nvs>>

Worker(w) ==
    \/ Announce(w)
    \/ SaveSsid(w)
    \/ SavePass(w)
    \/ ReportConnected(w)
    \/ Give(w)
    \/ ReportFailed(w)

---------------------------------------------------------------------------
\* app_main.

MainAt(from, to) ==
    /\ Running
    /\ stage = from
    /\ stage' = to
    /\ UNCHANGED <<linkVars, gattVars, task, cred, nvs>>

\* Everything up to and including ble_prov_start.
StartBle ==
    /\ MainAt("boot", "load")
    /\ UNCHANGED <<managerVars, s_prov_done>>
\* wifi_manager_load_credentials; no SSID in flash is an error.
LoadedSsid == nvs.ssid

\* Seeded fault: the auto-connect is tried again while waiting for a phone.
LoadCredentials_Again ==
    \/ /\ LoadedSsid # NoSsid
       /\ MainAt("load", "call") \/ MainAt("take", "call")
       /\ Enter(AppMain, LoadedSsid)
       /\ UNCHANGED s_prov_done
    \/ /\ LoadedSsid = NoSsid
       /\ MainAt("load", "take")
       /\ UNCHANGED <<managerVars, s_prov_done>>

LoadCredentials ==
    \/ /\ LoadedSsid # NoSsid
       /\ MainAt("load", "call")
       /\ Enter(AppMain, LoadedSsid)
       /\ UNCHANGED <<s_prov_done>>
    \/ /\ LoadedSsid = NoSsid
       /\ MainAt("load", "take")
       /\ UNCHANGED <<managerVars, s_prov_done>>

AutoConnectDone ==
    /\ \/ /\ pc[AppMain] = "ok"
          /\ MainAt("call", "camera")
       \/ /\ pc[AppMain] = "fail"
          /\ MainAt("call", "take")
    /\ Leave(AppMain)
    /\ UNCHANGED s_prov_done
\* Seeded fault: the boot goes on without the semaphore.
TakeSemaphore_NoWait ==
    /\ MainAt("take", "camera")
    /\ s_prov_done' = 0
    /\ UNCHANGED managerVars

TakeSemaphore ==
    /\ s_prov_done = 1
    /\ MainAt("take", "camera")
    /\ s_prov_done' = 0
    /\ UNCHANGED managerVars

\* Camera, MQTT, UART, in that order, each going on after a failure of the
\* one before.
StartServices ==
    /\ \/ MainAt("camera", "mqtt")
       \/ MainAt("mqtt", "uart")
       \/ MainAt("uart", "done")
    /\ UNCHANGED <<managerVars, s_prov_done>>

Main ==
    \/ StartBle
    \/ LoadCredentials
    \/ AutoConnectDone
    \/ TakeSemaphore
    \/ StartServices

---------------------------------------------------------------------------
\* The rest: wifi_manager.c below its callers, and the chip.

ByItself(action) == action /\ UNCHANGED <<linkVars, gattVars, mainVars>>

WifiStep ==
    \/ \E c \in Callers : ByItself(Body(c))
    \/ ByItself(Loop)
    \/ ByItself(Driver)

\* A panic or a power cut: only NVS is left.
Reboot ==
    /\ Restart
    /\ synced' = FALSE
    /\ advertising' = FALSE
    /\ s_conn_handle' = NoPhone
    /\ stage' = "boot"
    /\ task' = [w \in Workers |-> "free"]
    /\ cred' = [w \in Workers |-> NoCred]
    /\ s_pending_ssid' = NoSsid
    /\ s_status_buf' = ""
    /\ s_prov_done' = 0
    /\ asked' = FALSE
    /\ UNCHANGED <<nvs>>

Next ==
    \/ Sync
    \/ Link
    \/ \E ssid \in Ssids \cup {NoSsid} : WriteSsid(ssid)
    \/ \E pass \in Passes : WritePass(pass)
    \/ \E w \in Workers : Worker(w)
    \/ Main
    \/ WifiStep
    \/ Reboot

\* Every task of the device runs when it can (see ManagerFairness for the
\* strong part), and the BLE host comes into sync.  The phone, the link,
\* the power and the access point are free to do anything.
Fairness ==
    /\ \A c \in Callers : SF_vars(ByItself(Body(c)))
    /\ WF_vars(ByItself(Loop))
    /\ \A w \in Workers : WF_vars(Worker(w))
    /\ WF_vars(Main)
    /\ WF_vars(Sync)

Spec == Init /\ [][Next]_vars /\ Fairness

---------------------------------------------------------------------------
\* Properties.

\* The phone that sent a password and stays connected hears the result
\* (main.c:86-115, docs BLE flow phase 4).
Answered == []<>~asked

\* A success reported by a connect_wifi_task gets camera, MQTT and UART
\* started, whatever app_main was doing at the time (main.c:107, 184-211).
SuccessStartsServices ==
    \A w \in Workers : task[w] = "give" ~> stage \in {"done", "boot"}

\* The request under way, with one at a time, and a success since power-on:
\* it is the result of a call, in the semaphore, or acted on.
Busied == {w \in Workers : task[w] # "free"}
Requested == IF Busied = {} THEN NoCred ELSE cred[CHOOSE w \in Busied : TRUE]
Succeeded ==
    \/ stage \in Services
    \/ s_prov_done = 1
    \/ \E c \in Callers : pc[c] = "ok"

Promise == INSTANCE ProvisioningPromise WITH
    request <- Requested,
    status <- s_status_buf,
    saved <- nvs,
    succeeded <- Succeeded,
    services <- stage \in Services

\* main.c keeps the promise of ProvisioningPromise: STATUS says CONNECTING
\* exactly while an attempt made for the app is under way; what it confirms is
\* in flash, whole; whatever fails and whenever the power goes, only what
\* worked gets there; services wait for a success (main.c:83-115, 171-211).
KeepsPromise == Promise!PromiseSpec

=============================================================================
