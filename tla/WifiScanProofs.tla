--------------------------- MODULE WifiScanProofs ---------------------------
(***************************************************************************)
(* Proofs about WifiScan.  What a phone has heard from the task it started *)
(* is tied to where that task is in its loop; tasks of other requests may  *)
(* run beside it and send in between.                                      *)
(***************************************************************************)
EXTENDS WifiScan, SequenceTheorems, TLAPS

\* The loop of a task stays within the list it was given, and the list
\* within main.c's array.
ScanTypeOK ==
    /\ LinkTypeOK
    /\ task \in [Scanners -> {"free", "scan", "send"}]
    /\ ap_count \in [Scanners -> 0..WIFI_SCAN_MAX_AP]
    /\ i \in [Scanners -> 0..WIFI_SCAN_MAX_AP]
    /\ \A s \in Scanners : i[s] <= ap_count[s]
    /\ \A s \in Scanners : task[s] # "send" => i[s] = 0
    /\ mine \subseteq Scanners
    /\ alone \in BOOLEAN
    /\ heard \in Seq(Lines)
    /\ own \in Seq(Lines)
    /\ lost \in BOOLEAN
    /\ result \in 0..WIFI_SCAN_MAX_AP

\* A phone has one request at a time, and is there to hear of it.
OneRequest ==
    /\ \A s, t \in mine : s = t
    /\ mine # {} => s_conn_handle # NoPhone

\* What the phone has heard from its own task s while that runs.
HeardSoFar(s) ==
    /\ task[s] = "scan" => own = <<>> /\ result = 0
    /\ task[s] = "send" =>
          /\ ap_count[s] = result
          /\ \A k \in 1..Len(own) : own[k] # End /\ own[k] <= i[s]
          /\ ~lost => Len(own) = i[s]

SoFar == \A s \in mine : HeardSoFar(s)

\* A phone that asked when nothing ran hears of nobody else's list.
Undisturbed ==
    alone =>
        /\ \A s \in Scanners : task[s] # "free" => s \in mine
        /\ heard = own

ScanInv ==
    /\ ScanTypeOK
    /\ OneRequest
    /\ SoFar
    /\ Undisturbed
    /\ IsList(own)

---------------------------------------------------------------------------
\* A line more: what was heard before it keeps its place.
LEMMA LineAppended ==
    ASSUME NEW h \in Seq(Lines), NEW line \in Lines
    PROVE  /\ Append(h, line) \in Seq(Lines)
           /\ Len(Append(h, line)) = Len(h) + 1
           /\ Append(h, line)[Len(h) + 1] = line
           /\ \A k \in 1..Len(h) : Append(h, line)[k] = h[k]
  BY AppendProperties

\* The types hold at the start.
LEMMA TypesInit == ASSUME Init PROVE ScanTypeOK
  <1>1. 0 \in 0..WIFI_SCAN_MAX_AP
    BY ScanAssumption
  <1>2. heard \in Seq(Lines) /\ own \in Seq(Lines)
    BY EmptySeq DEF Init
  <1>3. /\ task \in [Scanners -> {"free", "scan", "send"}]
        /\ ap_count \in [Scanners -> 0..WIFI_SCAN_MAX_AP]
        /\ i \in [Scanners -> 0..WIFI_SCAN_MAX_AP]
    BY <1>1 DEF Init
  <1>4. \A s \in Scanners : i[s] = 0 /\ ap_count[s] = 0
    BY DEF Init
  <1>5. LinkTypeOK /\ mine = {} /\ alone \in BOOLEAN /\ lost \in BOOLEAN /\ result = 0
    BY DEF Init, LinkInit, LinkTypeOK
  <1> QED
    BY <1>1, <1>2, <1>3, <1>4, <1>5 DEF ScanTypeOK

\* The steps of BleLink keep the types of the link.
LEMMA LinkTypes ==
    ASSUME LinkTypeOK,
           \/ OnSync
           \/ \E p \in Phones : PhoneConnects(p)
           \/ ConnectFails
           \/ PhoneLeaves
           \/ HostReset
    PROVE  LinkTypeOK'
  BY DEF LinkTypeOK, OnSync, PhoneConnects, ConnectFails, PhoneLeaves, HostReset,
         StartAdvertising

\* What a notification does to what the phone has heard, sent or not.
LEMMA Notified ==
    ASSUME ScanTypeOK, NEW s \in Scanners, NEW line \in Lines, NotifyWifiList(s, line)
    PROVE  /\ LinkTypeOK'
           /\ mine' = mine /\ alone' = alone /\ result' = result
           /\ lost' \in BOOLEAN
           /\ heard' \in Seq(Lines)
           /\ own' \in Seq(Lines)
  <1>1. Append(heard, line) \in Seq(Lines) /\ Append(own, line) \in Seq(Lines)
    BY LineAppended DEF ScanTypeOK
  <1> QED
    BY <1>1 DEF NotifyWifiList, ScanTypeOK, LinkTypeOK, linkVars

\* A phone that asks or goes has heard nothing.
LEMMA FreshTypes ==
    ASSUME NEW ss \in SUBSET Scanners, Fresh(ss)
    PROVE  /\ mine' \subseteq Scanners
           /\ heard' \in Seq(Lines)
           /\ own' \in Seq(Lines)
           /\ lost' \in BOOLEAN
           /\ result' \in 0..WIFI_SCAN_MAX_AP
  <1>1. 0 \in 0..WIFI_SCAN_MAX_AP
    BY ScanAssumption
  <1> QED
    BY <1>1, EmptySeq DEF Fresh

\* Every step keeps the types, with however many lists under way.
LEMMA TypesStep == ASSUME ScanTypeOK, [Next]_vars PROVE ScanTypeOK'
  <1> USE ScanAssumption
  <1>1. CASE Sync
    BY <1>1, LinkTypes DEF Sync, ScanTypeOK, scanVars, listVars, heardVars
  <1>2. CASE Link
    <2>1. /\ mine' \subseteq Scanners /\ lost' \in BOOLEAN /\ result' \in 0..WIFI_SCAN_MAX_AP
          /\ heard' \in Seq(Lines) /\ own' \in Seq(Lines)
      BY <1>2, FreshTypes DEF Link
    <2>2. LinkTypeOK'
      BY <1>2, LinkTypes DEF Link, ScanTypeOK
    <2> QED
      BY <1>2, <2>1, <2>2 DEF Link, ScanTypeOK, scanVars
  <1>3. CASE WriteScan
    <2>1. /\ mine' \subseteq Scanners /\ lost' \in BOOLEAN /\ result' \in 0..WIFI_SCAN_MAX_AP
          /\ heard' \in Seq(Lines) /\ own' \in Seq(Lines)
      <3>1. CASE UNCHANGED <<task, heardVars>>
        BY <3>1 DEF heardVars, ScanTypeOK
      <3>2. ASSUME NEW s \in Scanners, Fresh({s})
            PROVE  /\ mine' \subseteq Scanners /\ lost' \in BOOLEAN /\ result' \in 0..WIFI_SCAN_MAX_AP
                   /\ heard' \in Seq(Lines) /\ own' \in Seq(Lines)
        BY <3>2, FreshTypes
      <3> QED
        BY <1>3, <3>1, <3>2 DEF WriteScan
    <2>2. LinkTypeOK'
      BY <1>3 DEF WriteScan, ScanTypeOK, LinkTypeOK, linkVars
    <2>3. alone' \in BOOLEAN
      BY <1>3, Zenon DEF WriteScan, Resting, heardVars, ScanTypeOK
    <2>4. /\ task' \in [Scanners -> {"free", "scan", "send"}]
          /\ \A s \in Scanners : task'[s] # "send" => i[s] = 0
      BY <1>3 DEF WriteScan, heardVars, ScanTypeOK
    <2> QED
      BY <1>3, <2>1, <2>2, <2>3, <2>4 DEF WriteScan, ScanTypeOK
  <1>4. ASSUME NEW s \in Scanners, ScanDone(s) PROVE ScanTypeOK'
    <2>1. LinkTypeOK'
      BY <1>4 DEF ScanDone, ScanTypeOK, LinkTypeOK, linkVars
    <2>2. PICK n \in 0..WIFI_SCAN_MAX_AP : ap_count' = [ap_count EXCEPT ![s] = n] /\ Found(s, n)
      BY <1>4 DEF ScanDone
    <2>3. i[s] = 0 /\ i' = i /\ result' \in 0..WIFI_SCAN_MAX_AP
      BY <1>4, <2>2 DEF ScanDone, Found, ScanTypeOK
    <2>4. /\ task' \in [Scanners -> {"free", "scan", "send"}]
          /\ \A t \in Scanners : task'[t] # "send" => i[t] = 0
      BY <1>4 DEF ScanDone, ScanTypeOK
    <2>5. ap_count' \in [Scanners -> 0..WIFI_SCAN_MAX_AP]
      BY <2>2 DEF ScanTypeOK
    <2>6. \A t \in Scanners : i[t] <= ap_count'[t]
      BY <2>2, <2>3 DEF ScanTypeOK
    <2> QED
      BY <1>4, <2>1, <2>3, <2>4, <2>5, <2>6 DEF ScanDone, ScanTypeOK
  <1>5. ASSUME NEW s \in Scanners, ScanFails(s) PROVE ScanTypeOK'
    <2>1. /\ LinkTypeOK' /\ mine' = mine /\ alone' = alone /\ result' = result
          /\ lost' \in BOOLEAN /\ heard' \in Seq(Lines) /\ own' \in Seq(Lines)
      BY <1>5, Notified DEF ScanFails, Lines
    <2> QED
      BY <1>5, <2>1 DEF ScanFails, ScanTypeOK
  <1>6. ASSUME NEW s \in Scanners, SendLine(s) PROVE ScanTypeOK'
    <2>1. i[s] + 1 \in Lines /\ i[s] + 1 \in 0..WIFI_SCAN_MAX_AP
      BY <1>6 DEF SendLine, ScanTypeOK, Lines, Aps
    <2>2. /\ LinkTypeOK' /\ mine' = mine /\ alone' = alone /\ result' = result
          /\ lost' \in BOOLEAN /\ heard' \in Seq(Lines) /\ own' \in Seq(Lines)
      BY <1>6, <2>1, Notified DEF SendLine
    <2>3. /\ i' \in [Scanners -> 0..WIFI_SCAN_MAX_AP]
          /\ \A t \in Scanners : i'[t] <= ap_count[t]
          /\ \A t \in Scanners : task[t] # "send" => i'[t] = 0
      BY <1>6, <2>1 DEF SendLine, ScanTypeOK
    <2> QED
      BY <1>6, <2>2, <2>3 DEF SendLine, ScanTypeOK
  <1>7. ASSUME NEW s \in Scanners, SendEnd(s) PROVE ScanTypeOK'
    <2>1. /\ LinkTypeOK' /\ mine' = mine /\ alone' = alone /\ result' = result
          /\ lost' \in BOOLEAN /\ heard' \in Seq(Lines) /\ own' \in Seq(Lines)
      BY <1>7, Notified DEF SendEnd, Lines
    <2> QED
      BY <1>7, <2>1 DEF SendEnd, Ends, ScanTypeOK
  <1>8. CASE UNCHANGED vars
    BY <1>8 DEF vars, linkVars, scanVars, listVars, heardVars, ScanTypeOK, LinkTypeOK
  <1> QED
    BY <1>1, <1>2, <1>3, <1>4, <1>5, <1>6, <1>7, <1>8 DEF Next, Scanner

\* However many lists are under way at a time, scan_and_notify_task stays
\* within the records the driver gave it, and these within aps, the array
\* of main.c:41.
THEOREM ScanTypes == Spec => []ScanTypeOK
  <1>1. Init => ScanTypeOK
    BY TypesInit
  <1>2. ScanTypeOK /\ [Next]_vars => ScanTypeOK'
    BY TypesStep
  <1> QED
    BY <1>1, <1>2, PTL DEF Spec

---------------------------------------------------------------------------
\* The phone's own list.

\* A line that its own task sends comes after all that it sent before.
LEMMA LineSent ==
    ASSUME ScanTypeOK, IsList(own), NEW s \in Scanners, HeardSoFar(s),
           task[s] = "send", NEW line \in Lines, own' = Append(own, line),
           line # End => line = i[s] + 1,
           line = End => i[s] = result,
           lost' = lost, result' = result
    PROVE  IsList(own)'
  <1>1. /\ own \in Seq(Lines)
        /\ Len(own) \in Nat
        /\ i[s] \in Nat /\ result \in Nat
        /\ \A k \in 1..Len(own) : own[k] \in Nat
    BY LenProperties, ElementOfSeq, ScanAssumption DEF ScanTypeOK, Lines, Aps, End
  <1>2. /\ Len(own') = Len(own) + 1
        /\ own'[Len(own) + 1] = line
        /\ \A k \in 1..Len(own) : own'[k] = own[k]
    BY <1>1, LineAppended
  <1>3. /\ \A k \in 1..Len(own) : own[k] # End /\ own[k] <= i[s]
        /\ ~lost => Len(own) = i[s]
    BY DEF HeardSoFar
  <1>4. ASSUME NEW k \in 1..Len(own')
        PROVE  /\ own'[k] \in Lines
               /\ own'[k] = End => k = Len(own')
               /\ own'[k] # End /\ k > 1 => own'[k - 1] < own'[k]
               /\ ~lost' => IF own'[k] = End THEN k = result' + 1
                            ELSE own'[k] = k
    <2>1. CASE k \in 1..Len(own)
      <3>1. own'[k] = own[k] /\ (k > 1 => own'[k - 1] = own[k - 1])
        BY <2>1, <1>1, <1>2
      <3>2. own[k] # End
        BY <2>1, <1>3
      <3> QED
        BY <2>1, <3>1, <3>2 DEF IsList
    <2>2. CASE k = Len(own) + 1
      <3>1. own'[k] = line
        BY <2>2, <1>2
      <3>2. line # End /\ k > 1 => own'[k - 1] < line
        <4>1. k > 1 => k - 1 \in 1..Len(own)
          BY <2>2, <1>1
        <4>2. k > 1 => own'[k - 1] = own[k - 1] /\ own[k - 1] \in Nat
                       /\ own[k - 1] <= i[s]
          BY <4>1, <1>1, <1>2, <1>3
        <4> QED
          BY <4>2, <1>1
      <3>3. ~lost => IF line = End THEN k = result + 1 ELSE line = k
        BY <2>2, <1>1, <1>3
      <3> QED
        BY <2>2, <3>1, <3>2, <3>3, <1>2
    <2> QED
      BY <2>1, <2>2, <1>1, <1>2
  <1> QED
    BY <1>4 DEF IsList

\* A step that adds nothing to the list keeps it one.
LEMMA ListKept ==
    ASSUME IsList(own), own' = own, result' = result, lost => lost'
    PROVE  IsList(own)'
  BY DEF IsList

\* A notification by task s: nothing else can be heard by a phone that asked
\* when nothing ran; the list of the phone grows only by its own task.
LEMMA NotifiedKeeps ==
    ASSUME ScanInv, NEW s \in Scanners, task[s] # "free",
           NEW line \in Lines, NotifyWifiList(s, line)
    PROVE  /\ mine' = mine /\ result' = result
           /\ OneRequest'
           /\ alone' = alone
           /\ alone => heard' = own'
           /\ s \notin mine => own' = own /\ lost' = lost
           /\ s \in mine => \/ own' = own /\ lost'
                            \/ own' = Append(own, line) /\ lost' = lost
  BY DEF NotifyWifiList, ScanInv, ScanTypeOK, OneRequest, Undisturbed, linkVars

\* What the loop of another task does leaves the phone's own list alone.
LEMMA OthersKeep ==
    ASSUME ScanInv, NEW s \in Scanners, s \notin mine,
           \A t \in Scanners \ {s} : task'[t] = task[t] /\ ap_count'[t] = ap_count[t] /\ i'[t] = i[t],
           mine' = mine, own' = own, lost' = lost, result' = result
    PROVE  SoFar' /\ IsList(own)'
  <1>1. ASSUME NEW t \in mine PROVE HeardSoFar(t)'
    <2>1. t \in Scanners \ {s} /\ HeardSoFar(t)
      BY <1>1 DEF ScanInv, ScanTypeOK, SoFar
    <2> QED
      BY <2>1 DEF HeardSoFar
  <1>2. SoFar'
    BY <1>1 DEF SoFar
  <1> QED
    BY <1>2, ListKept DEF ScanInv

\* Of the phone's own task there is one.
LEMMA OwnTask ==
    ASSUME ScanInv, NEW s \in mine, mine' = mine, HeardSoFar(s)'
    PROVE  SoFar'
  BY DEF ScanInv, OneRequest, SoFar

\* A phone asks: what it heard of an earlier list is forgotten.
LEMMA WriteScanKeeps ==
    ASSUME ScanInv, WriteScan
    PROVE  OneRequest' /\ SoFar' /\ Undisturbed' /\ IsList(own)'
  <1>1. CASE UNCHANGED <<task, heardVars>>
    BY <1>1 DEF WriteScan, heardVars, linkVars, ScanInv, OneRequest, SoFar, HeardSoFar, Undisturbed,
       IsList
  <1>2. ASSUME NEW s \in Scanners, task[s] = "free", task' = [task EXCEPT ![s] = "scan"],
               Fresh({s}), alone' = Resting
        PROVE  OneRequest' /\ SoFar' /\ Undisturbed' /\ IsList(own)'
    <2>1. task'[s] = "scan" /\ mine' = {s} /\ own' = <<>> /\ heard' = <<>>
      BY <1>2 DEF Fresh, ScanInv, ScanTypeOK
    <2>2. OneRequest'
      BY <2>1 DEF WriteScan, linkVars, OneRequest
    <2>3. SoFar'
      BY <2>1, <1>2 DEF Fresh, SoFar, HeardSoFar
    <2>4. Undisturbed'
      BY <2>1, <1>2 DEF Undisturbed, Resting, ScanInv, ScanTypeOK
    <2>5. IsList(own)'
      BY <2>1, EmptySeq DEF IsList
    <2> QED
      BY <2>2, <2>3, <2>4, <2>5
  <1> QED
    BY <1>1, <1>2 DEF WriteScan

\* The driver has answered; nothing has been sent yet.
LEMMA ScanDoneKeeps ==
    ASSUME ScanInv, NEW s \in Scanners, ScanDone(s)
    PROVE  OneRequest' /\ SoFar' /\ Undisturbed' /\ IsList(own)'
  <1>1. PICK n \in 0..WIFI_SCAN_MAX_AP : ap_count' = [ap_count EXCEPT ![s] = n] /\ Found(s, n)
    BY DEF ScanDone
  <1>2. /\ task[s] = "scan" /\ task' = [task EXCEPT ![s] = "send"]
        /\ mine' = mine /\ alone' = alone /\ heard' = heard /\ own' = own /\ lost' = lost
        /\ i' = i /\ s_conn_handle' = s_conn_handle
    BY DEF ScanDone, linkVars
  <1>3. OneRequest' /\ Undisturbed'
    BY <1>2 DEF ScanInv, ScanTypeOK, OneRequest, Undisturbed
  <1>4. CASE s \in mine
    <2>1. own = <<>> /\ i[s] = 0
      BY <1>2, <1>4 DEF ScanInv, ScanTypeOK, SoFar, HeardSoFar
    <2>2. task'[s] = "send" /\ ap_count'[s] = result' /\ i'[s] = 0
      BY <1>1, <1>2, <1>4, <2>1 DEF Found, ScanInv, ScanTypeOK
    <2>3. Len(own') = 0
      BY <2>1, <1>2, EmptySeq
    <2>4. HeardSoFar(s)'
      BY <2>2, <2>3 DEF HeardSoFar
    <2>5. IsList(own)'
      BY <2>3 DEF IsList
    <2> QED
      BY <1>2, <1>3, <1>4, <2>4, <2>5, OwnTask
  <1>5. CASE s \notin mine
    <2>1. \A t \in Scanners \ {s} : task'[t] = task[t] /\ ap_count'[t] = ap_count[t] /\ i'[t] = i[t]
      BY <1>1, <1>2 DEF ScanInv, ScanTypeOK
    <2>2. result' = result
      BY <1>1, <1>5 DEF Found
    <2> QED
      BY <1>2, <1>3, <1>5, <2>1, <2>2, OthersKeep
  <1> QED
    BY <1>4, <1>5

\* The task is gone after a failed scan or an END.
LEMMA FreeKeeps ==
    ASSUME ScanInv, NEW s \in Scanners, task[s] # "free",
           task' = [task EXCEPT ![s] = "free"],
           \A t \in Scanners \ {s} : ap_count'[t] = ap_count[t] /\ i'[t] = i[t],
           NotifyWifiList(s, End),
           s \in mine => IsList(own)'
    PROVE  OneRequest' /\ SoFar' /\ Undisturbed' /\ IsList(own)'
  <1>1. End \in Lines
    BY DEF Lines
  <1>2. /\ mine' = mine /\ result' = result /\ OneRequest' /\ alone' = alone
        /\ alone => heard' = own'
        /\ s \notin mine => own' = own /\ lost' = lost
    BY <1>1, NotifiedKeeps
  <1>3. task'[s] = "free" /\ \A t \in Scanners \ {s} : task'[t] = task[t]
    BY DEF ScanInv, ScanTypeOK
  <1>4. Undisturbed'
    BY <1>2, <1>3 DEF Undisturbed, ScanInv
  <1>5. CASE s \in mine
    BY <1>2, <1>3, <1>4, <1>5, OwnTask DEF HeardSoFar
  <1>6. CASE s \notin mine
    BY <1>2, <1>3, <1>4, <1>6, OthersKeep
  <1> QED
    BY <1>5, <1>6

\* The scan fails: an END is all the phone hears of it.
LEMMA ScanFailsKeeps ==
    ASSUME ScanInv, NEW s \in Scanners, ScanFails(s)
    PROVE  OneRequest' /\ SoFar' /\ Undisturbed' /\ IsList(own)'
  <1>1. /\ task[s] = "scan" /\ task' = [task EXCEPT ![s] = "free"]
        /\ ap_count' = ap_count /\ i' = i /\ NotifyWifiList(s, End)
        /\ End \in Lines
    BY DEF ScanFails, Lines
  <1>2. ASSUME s \in mine PROVE IsList(own)'
    <2>1. own = <<>> /\ own \in Seq(Lines) /\ result = 0
      BY <1>1, <1>2 DEF ScanInv, ScanTypeOK, SoFar, HeardSoFar
    <2>2. CASE own' = own
      BY <2>1, <2>2, EmptySeq DEF IsList
    <2>4. result' = 0
      BY <1>1, <2>1, NotifiedKeeps
    <2>3. CASE own' = Append(own, End)
      <3>1. Len(own') = 1 /\ own'[1] = End
        BY <2>1, <2>3
      <3>2. \A k \in 1..Len(own') : k = 1
        BY <3>1
      <3> QED
        BY <1>1, <2>4, <3>1, <3>2 DEF IsList
    <2> QED
      BY <2>2, <2>3, <1>1, <1>2, NotifiedKeeps
  <1> QED
    BY <1>1, <1>2, FreeKeeps

\* One network more, or its notification lost.
LEMMA SendLineKeeps ==
    ASSUME ScanInv, NEW s \in Scanners, SendLine(s)
    PROVE  OneRequest' /\ SoFar' /\ Undisturbed' /\ IsList(own)'
  <1> DEFINE line == i[s] + 1
  <1>1. /\ task[s] = "send" /\ task' = task /\ ap_count' = ap_count
        /\ i' = [i EXCEPT ![s] = line]
        /\ line \in Lines /\ line # End /\ i[s] \in Nat
        /\ NotifyWifiList(s, line)
    BY ScanAssumption DEF SendLine, ScanInv, ScanTypeOK, Lines, Aps, End
  <1>2. i'[s] = line /\ \A t \in Scanners \ {s} : i'[t] = i[t]
    BY <1>1 DEF ScanInv, ScanTypeOK
  <1>3. /\ own \in Seq(Lines) /\ Len(own) \in Nat
        /\ \A k \in 1..Len(own) : own[k] \in Nat
    BY LenProperties, ElementOfSeq, ScanAssumption DEF ScanInv, ScanTypeOK, Lines, Aps, End
  <1> HIDE DEF line
  <1>4. /\ mine' = mine /\ result' = result /\ OneRequest' /\ alone' = alone
        /\ alone => heard' = own'
        /\ s \notin mine => own' = own /\ lost' = lost
        /\ s \in mine => \/ own' = own /\ lost'
                         \/ own' = Append(own, line) /\ lost' = lost
    BY <1>1, NotifiedKeeps
  <1>5. Undisturbed'
    BY <1>1, <1>4 DEF Undisturbed, ScanInv
  <1>6. CASE s \notin mine
    BY <1>1, <1>2, <1>4, <1>5, <1>6, OthersKeep
  <1>7. CASE s \in mine
    <2>1. /\ HeardSoFar(s) /\ ap_count[s] = result
          /\ \A k \in 1..Len(own) : own[k] # End /\ own[k] <= i[s]
          /\ ~lost => Len(own) = i[s]
      BY <1>1, <1>7 DEF ScanInv, SoFar, HeardSoFar
    <2>2. CASE own' = own /\ lost'
      <3>1. \A k \in 1..Len(own') : own'[k] # End /\ own'[k] <= i'[s]
        BY <2>1, <2>2, <1>1, <1>2, <1>3 DEF line
      <3>2. HeardSoFar(s)'
        BY <3>1, <2>1, <2>2, <1>1, <1>4 DEF HeardSoFar
      <3>3. IsList(own)'
        BY <2>2, <1>4, ListKept DEF ScanInv
      <3> QED
        BY <3>2, <3>3, <1>4, <1>5, <1>7, OwnTask
    <2>3. CASE own' = Append(own, line) /\ lost' = lost
      <3>1. /\ Len(own') = Len(own) + 1
            /\ own'[Len(own) + 1] = line
            /\ \A k \in 1..Len(own) : own'[k] = own[k]
        BY <2>3, <1>1, <1>3, LineAppended
      <3>2. \A k \in 1..Len(own') : own'[k] # End /\ own'[k] <= i'[s]
        <4>1. ASSUME NEW k \in 1..Len(own') PROVE k \in 1..Len(own) \/ k = Len(own) + 1
          BY <3>1, <1>3
        <4>2. ASSUME NEW k \in 1..Len(own) PROVE own'[k] # End /\ own'[k] <= i'[s]
          BY <3>1, <2>1, <1>1, <1>2, <1>3 DEF line
        <4>3. own'[Len(own) + 1] # End /\ own'[Len(own) + 1] <= i'[s]
          BY <3>1, <1>1, <1>2 DEF line
        <4> QED
          BY <4>1, <4>2, <4>3
      <3>3. ~lost' => Len(own') = i'[s]
        BY <3>1, <2>1, <2>3, <1>1, <1>2 DEF line
      <3>4. HeardSoFar(s)'
        BY <3>2, <3>3, <2>1, <1>1, <1>4 DEF HeardSoFar
      <3>5. IsList(own)'
        BY <2>1, <2>3, <1>1, <1>4, LineSent DEF ScanInv, line
      <3> QED
        BY <3>4, <3>5, <1>4, <1>5, <1>7, OwnTask
    <2> QED
      BY <2>2, <2>3, <1>4, <1>7
  <1> QED
    BY <1>6, <1>7

\* The END, or its notification lost; the task is gone.
LEMMA SendEndKeeps ==
    ASSUME ScanInv, NEW s \in Scanners, SendEnd(s)
    PROVE  OneRequest' /\ SoFar' /\ Undisturbed' /\ IsList(own)'
  <1>1. /\ task[s] = "send" /\ task' = [task EXCEPT ![s] = "free"]
        /\ i[s] = ap_count[s] /\ NotifyWifiList(s, End)
        /\ \A t \in Scanners \ {s} : ap_count'[t] = ap_count[t] /\ i'[t] = i[t]
        /\ End \in Lines
    BY DEF SendEnd, Ends, Lines, ScanInv, ScanTypeOK
  <1>2. ASSUME s \in mine PROVE IsList(own)'
    <2>1. HeardSoFar(s) /\ ap_count[s] = result
      BY <1>1, <1>2 DEF ScanInv, SoFar, HeardSoFar
    <2>2. result' = result
      BY <1>1, NotifiedKeeps
    <2>3. CASE own' = own /\ lost'
      BY <2>2, <2>3, ListKept DEF ScanInv
    <2>4. CASE own' = Append(own, End) /\ lost' = lost
      BY <2>1, <2>2, <2>4, <1>1, LineSent DEF ScanInv
    <2> QED
      BY <2>3, <2>4, <1>1, <1>2, NotifiedKeeps
  <1> QED
    BY <1>1, <1>2, FreeKeeps

\* The invariant at the start and after every step of the phones, of the
\* link and of the tasks.
LEMMA ScanInvInit == ASSUME Init PROVE ScanInv
  <1>1. IsList(own)
    BY EmptySeq DEF Init, IsList
  <1> QED
    BY <1>1, TypesInit DEF Init, ScanInv, OneRequest, SoFar, Undisturbed

LEMMA ScanInvStep == ASSUME ScanInv, [Next]_vars PROVE ScanInv'
  <1>1. ScanTypeOK'
    BY TypesStep DEF ScanInv
  <1>2. CASE Link
    <2>1. mine' = {} /\ own' = <<>> /\ ~alone'
      BY <1>2 DEF Link, Fresh
    <2>2. IsList(own)'
      BY <2>1, EmptySeq DEF IsList
    <2> QED
      BY <1>1, <2>1, <2>2 DEF ScanInv, OneRequest, SoFar, Undisturbed
  <1>3. CASE Sync
    <2>1. UNCHANGED <<scanVars, listVars>> /\ s_conn_handle' = s_conn_handle
      BY <1>3 DEF Sync, OnSync
    <2> QED
      BY <1>1, <2>1 DEF scanVars, listVars, heardVars, ScanInv, OneRequest, SoFar, HeardSoFar,
         Undisturbed, IsList
  <1>4. CASE UNCHANGED vars
    BY <1>1, <1>4 DEF vars, linkVars, scanVars, listVars, heardVars, ScanInv, OneRequest, SoFar,
       HeardSoFar, Undisturbed, IsList
  <1>5. CASE WriteScan \/ \E s \in Scanners : Scanner(s)
    <2>1. OneRequest' /\ SoFar' /\ Undisturbed' /\ IsList(own)'
      BY <1>5, WriteScanKeeps, ScanDoneKeeps, ScanFailsKeeps, SendLineKeeps, SendEndKeeps
      DEF Scanner
    <2> QED
      BY <1>1, <2>1 DEF ScanInv
  <1> QED
    BY <1>2, <1>3, <1>4, <1>5 DEF Next

\* Of the task it started a phone hears one list, in order and whole but for
\* the notifications that are lost, and it hears nothing else if no other
\* task ran when it asked (main.c:39-75): for any number of phones, tasks and
\* networks, however often they ask, and however many tasks of earlier
\* requests are still sending.
THEOREM HearsOwnList == Spec => []OwnList
  <1>1. Init => ScanInv
    BY ScanInvInit
  <1>2. ScanInv /\ [Next]_vars => ScanInv'
    BY ScanInvStep
  <1>3. ScanInv => OwnList
    BY DEF ScanInv, Undisturbed, OwnList
  <1> QED
    BY <1>1, <1>2, <1>3, PTL DEF Spec
=============================================================================
