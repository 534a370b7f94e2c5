------------------------------ MODULE WifiScan ------------------------------
(***************************************************************************)
(* The WIFI_LIST characteristic: a SCAN write starts a                     *)
(* scan_and_notify_task (main.c), which asks the driver for the networks   *)
(* (wifi_manager_scan) and sends them to the phone one notification at a   *)
(* time, "END" last (ble_prov_notify_wifi_list).                           *)
(*                                                                         *)
(* Of a network only its place in the list matters, so a line is that      *)
(* number.                                                                 *)
(***************************************************************************)
EXTENDS BleLink, Sequences

CONSTANTS
    Scanners,           \* the scan_and_notify_task instances memory allows
    WIFI_SCAN_MAX_AP,
    Polite,             \* TRUE: a phone that has asked waits for an END
    NotifyMayFail       \* TRUE: there may be no buffer for a notification

ASSUME ScanAssumption ==
    /\ WIFI_SCAN_MAX_AP \in Nat
    /\ Polite \in BOOLEAN
    /\ NotifyMayFail \in BOOLEAN

VARIABLES
    task,               \* where each scan_and_notify_task is
    ap_count,           \* its ap_count
    i,                  \* the networks it has sent
    s_wifi_list_buf,    \* what a read of the characteristic returns
    \* History: what the connected phone knows of, since it asked last.
    mine,               \* the task it started; none before it asks
    alone,              \* no other task ran when it asked
    heard,              \* what it was sent, by whichever task
    own,                \* what it was sent by its own task
    lost,               \* a notification of its own task was lost
    result              \* how many networks its own task found

scanVars == <<task, ap_count, i>>
heardVars == <<mine, alone, heard, own, lost, result>>
listVars == <<s_wifi_list_buf, heardVars>>
vars == <<linkVars, scanVars, listVars>>

End == 0
Aps == 1..WIFI_SCAN_MAX_AP
Lines == Aps \cup {End}

Init ==
    /\ LinkInit
    /\ task = [s \in Scanners |-> "free"]
    /\ ap_count = [s \in Scanners |-> 0]
    /\ i = [s \in Scanners |-> 0]
    /\ s_wifi_list_buf = <<>>
    /\ mine = {}
    /\ alone = FALSE
    /\ heard = <<>>
    /\ own = <<>>
    /\ lost = FALSE
    /\ result = 0

Resting == \A s \in Scanners : task[s] = "free"

\* Nothing has been heard of the list that one of the tasks in ss sends.
Fresh(ss) ==
    /\ mine' = ss
    /\ heard' = <<>>
    /\ own' = <<>>
    /\ lost' = FALSE
    /\ result' = 0

---------------------------------------------------------------------------
\* The link; a phone that comes or goes has not asked for anything.

Sync == OnSync /\ UNCHANGED <<scanVars, listVars>>

Link ==
    /\ \/ \E p \in Phones : PhoneConnects(p)
       \/ ConnectFails
       \/ PhoneLeaves
       \/ HostReset
    /\ Fresh({})
    /\ alone' = FALSE
    /\ UNCHANGED <<scanVars, s_wifi_list_buf>>

\* wifi_list_access_cb and on_ble_scan_request, whatever tasks of earlier
\* requests still run; without memory for one more the request is dropped.
WriteScan ==
    /\ s_conn_handle # NoPhone
    /\ Polite => mine = {} \/ \E k \in 1..Len(heard) : heard[k] = End
    /\ \/ \E s \in Scanners :
            /\ task[s] = "free"
            /\ task' = [task EXCEPT ![s] = "scan"]
            /\ Fresh({s})
            /\ alone' = Resting
       \/ /\ \A s \in Scanners : task[s] # "free"
          /\ UNCHANGED <<task, heardVars>>
    /\ UNCHANGED <<linkVars, ap_count, i, s_wifi_list_buf>>

---------------------------------------------------------------------------
\* scan_and_notify_task.

\* ble_prov_notify_wifi_list, called by task s.  It knows the connection,
\* not who asked for the list.  A notification that cannot be sent is logged
\* and forgotten.
NotifyWifiList(s, line) ==
    /\ s_wifi_list_buf' = <<line>>
    /\ \/ /\ heard' = IF s_conn_handle # NoPhone /\ mine # {}
                      THEN Append(heard, line) ELSE heard
          /\ own' = IF s_conn_handle # NoPhone /\ s \in mine
                    THEN Append(own, line) ELSE own
          /\ UNCHANGED lost
       \/ /\ NotifyMayFail
          /\ lost' = (lost \/ s \in mine)
          /\ UNCHANGED <<heard, own>>
    /\ UNCHANGED <<linkVars, mine, alone, result>>

\* The task ends, and its stack with it.
Ends(s) ==
    /\ task' = [task EXCEPT ![s] = "free"]
    /\ ap_count' = [ap_count EXCEPT ![s] = 0]
    /\ i' = [i EXCEPT ![s] = 0]

\* What task s found, if the phone that listens started it.
Found(s, n) == result' = IF s \in mine THEN n ELSE result

\* Seeded fault: the driver's count is taken as it is.
ScanDone_NoLimit(s) ==
    /\ task[s] = "scan"
    /\ \E n \in 0..(WIFI_SCAN_MAX_AP + 1) :
          /\ ap_count' = [ap_count EXCEPT ![s] = n]
          /\ Found(s, n)
    /\ task' = [task EXCEPT ![s] = "send"]
    /\ UNCHANGED <<linkVars, i, s_wifi_list_buf, mine, alone, heard, own, lost>>

\* wifi_manager_scan returns ESP_OK: the driver gives at most
\* WIFI_SCAN_MAX_AP records.
ScanDone(s) ==
    /\ task[s] = "scan"
    /\ \E n \in 0..WIFI_SCAN_MAX_AP :
          /\ ap_count' = [ap_count EXCEPT ![s] = n]
          /\ Found(s, n)
    /\ task' = [task EXCEPT ![s] = "send"]
    /\ UNCHANGED <<linkVars, i, s_wifi_list_buf, mine, alone, heard, own, lost>>

\* Seeded fault: an error ends the task without a word.
ScanFails_Silent(s) ==
    /\ task[s] = "scan"
    /\ Ends(s)
    /\ UNCHANGED <<linkVars, listVars>>

\* It returns an error: another scan or a connection is under way.
ScanFails(s) ==
    /\ task[s] = "scan"
    /\ task' = [task EXCEPT ![s] = "free"]
    /\ NotifyWifiList(s, End)
    /\ UNCHANGED <<ap_count, i>>

SendLine(s) ==
    /\ task[s] = "send"
    /\ i[s] < ap_count[s]
    /\ NotifyWifiList(s, i[s] + 1)
    /\ i' = [i EXCEPT ![s] = @ + 1]
    /\ UNCHANGED <<task, ap_count>>

\* Seeded fault: the last network is left out.
SendEnd_OneShort(s) ==
    /\ task[s] = "send"
    /\ i[s] + 1 >= ap_count[s]
    /\ NotifyWifiList(s, End)
    /\ Ends(s)

SendEnd(s) ==
    /\ task[s] = "send"
    /\ i[s] = ap_count[s]
    /\ NotifyWifiList(s, End)
    /\ Ends(s)

Scanner(s) == ScanDone(s) \/ ScanFails(s) \/ SendLine(s) \/ SendEnd(s)

Next ==
    \/ Sync
    \/ Link
    \/ WriteScan
    \/ \E s \in Scanners : Scanner(s)

\* The driver answers and the tasks run.
Spec == Init /\ [][Next]_vars /\ \A s \in Scanners : WF_vars(Scanner(s))

---------------------------------------------------------------------------
\* Properties.

\* The lines of one list in order, none of them twice, and nothing after an
\* END; all of them, unless one was lost.
IsList(lines) ==
    \A k \in 1..Len(lines) :
        /\ lines[k] \in Lines
        /\ lines[k] = End => k = Len(lines)
        /\ lines[k] # End /\ k > 1 => lines[k - 1] < lines[k]
        /\ ~lost => IF lines[k] = End THEN k = result + 1
                    ELSE lines[k] = k

\* Of the task it started a phone hears one list, with at most as many
\* networks as main.c has room for, whatever other tasks send and however
\* often anyone asks; and it hears nothing else if no other task ran when it
\* asked, although tasks outlive the connection they were started on
\* (main.c:39-75, wifi_manager.c:56-84).
OwnList == IsList(own) /\ (alone => heard = own)

\* A phone that asks, stays and does not ask again hears the END of its own
\* task, unless a notification of it is lost (main.c:44-48, 61).
ListEnds ==
    \A s \in Scanners :
        mine = {s} ~>
            (mine # {s} \/ lost \/ \E k \in 1..Len(own) : own[k] = End)

\* What the documentation of the flow promises a phone: an END is the last of
\* a list, so that no network follows it (ble_prov.h:16).
EndIsLast ==
    \A k \in 1..Len(heard) :
        heard[k] = End => \A l \in k..Len(heard) : heard[l] = End

=============================================================================
