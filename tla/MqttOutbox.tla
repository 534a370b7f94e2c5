----------------------------- MODULE MqttOutbox -----------------------------
(***************************************************************************)
(* components/mqtt/lib/mqtt_outbox.c: the list of the messages that wait   *)
(* for their first transmission or for the broker's answer, as operators   *)
(* on a sequence.                                                          *)
(*                                                                         *)
(* An item has the message's id and type, its state, and instead of a tick *)
(* the one thing the client asks about it: whether the tick is older than  *)
(* the retransmit timeout.  Lengths and buffers are left out; the firmware *)
(* sets no limit on the size.                                              *)
(***************************************************************************)
EXTENDS Naturals, Sequences, SequencesExt

CONSTANTS Ids

MsgTypes == {"PUBLISH", "SUBSCRIBE"}
PendingStates == {"QUEUED", "TRANSMITTED"}
Items == [id : Ids, type : MsgTypes, pending : PendingStates, due : BOOLEAN]

\* outbox_enqueue.
outbox_enqueue(outbox, id, type) ==
    Append(outbox, [id |-> id, type |-> type, pending |-> "QUEUED", due |-> FALSE])

\* outbox_get: the position of the first item with that id; 0 if there is
\* none.
outbox_get(outbox, id) == SelectInSeq(outbox, LAMBDA item : item.id = id)

\* outbox_dequeue: the position of the first item in that state, which stays
\* in the list.
outbox_dequeue(outbox, pending) ==
    SelectInSeq(outbox, LAMBDA item : item.pending = pending)

\* outbox_delete.
outbox_delete(outbox, id, type) ==
    LET i == SelectInSeq(outbox, LAMBDA item : item.id = id /\ item.type = type)
    IN IF i = 0 THEN outbox ELSE RemoveAt(outbox, i)

\* outbox_set_pending.
outbox_set_pending(outbox, id, pending) ==
    LET i == outbox_get(outbox, id)
    IN IF i = 0 THEN outbox ELSE [outbox EXCEPT ![i].pending = pending]

\* outbox_set_tick, to the present.
outbox_set_tick(outbox, id) ==
    LET i == outbox_get(outbox, id)
    IN IF i = 0 THEN outbox ELSE [outbox EXCEPT ![i].due = FALSE]

\* outbox_delete_expired, when the items of old are the expired ones.
outbox_delete_expired(outbox, old) ==
    LET kept[i \in 0..Len(outbox)] ==
            IF i = 0 THEN <<>>
            ELSE IF outbox[i].id \in old THEN kept[i - 1]
                 ELSE Append(kept[i - 1], outbox[i])
    IN kept[Len(outbox)]

=============================================================================
